------------------------------ MODULE SpsParser ------------------------------
(* The parser of H.264 sequence parameter sets (SPSParser.c): the reader of *)
(* bits and of Exp-Golomb codes, the removal of the emulation prevention    *)
(* bytes, and the syntax of the set, down to the picture size and the frame *)
(* rate that h264_track takes from it.                                      *)
(*                                                                          *)
(* A T_GetBitContext is [buf, pos]: the bytes and iBitPos; iTotalBit is     *)
(* 8 * Len(buf) and iCurBitPos is pos % 8.  Values of up to 31 bits are     *)
(* integers; the two of 32 bits, of the timing info, are strings of bits.   *)
(* The contents of the scaling matrices and of the colour description, of   *)
(* which nothing is ever read, are left out.                                *)
EXTENDS Bytes, SequencesExt

MAX_LEN == 32
EXTENDED_SAR == 255
MAX_SPS_COUNT == 32
INT_MAX == 65535       \* limits.h is not included: this is the parser's own value

BitAt(bytes, pos) == (bytes[(pos \div 8) + 1] \div 2^(7 - (pos % 8))) % 2

BitsOf(bytes) == [i \in 1..(8 * Len(bytes)) |-> BitAt(bytes, i - 1)]

Value(bits) == FoldLeft(LAMBDA v, b : 2 * v + b, 0, bits)

Copies(n, x) == [i \in 1..n |-> x]

Last32(s) == SubSeq(s, Len(s) - 31, Len(s))

Context(bytes) == [buf |-> bytes, pos |-> 0]

At(ctx, pos) == [ctx EXCEPT !.pos = pos]

Read(v, ctx) == [v |-> v, ctx |-> ctx]

-----------------------------------------------------------------------------
(* Bits.  A read past the end fails and moves nothing: getOneBit returns -1,*)
(* which the callers take for a set flag, and getBits returns 0, of no bits.*)

getBitsLeft(ctx) == 8 * Len(ctx.buf) - ctx.pos

iCurBitPos(ctx) == ctx.pos % 8

getOneBit(ctx) ==
    IF getBitsLeft(ctx) < 1 THEN Read(-1, ctx) ELSE Read(BitAt(ctx.buf, ctx.pos), At(ctx, ctx.pos + 1))

\* A faulty shift that aligns the bits without regard to where they begin.
ShiftUnaligned(ctx, n) == (8 - n) % 8

u8Shift(ctx, n) == (8 - (iCurBitPos(ctx) + n)) % 8

(* The n bits from a window of up to five bytes: the first of five is lost  *)
(* (au8Temp[0] is shifted out), and the shift to the right of the 32 bits   *)
(* that are left, which are signed, repeats the first of them.              *)
Window(ctx, n) ==
    LET nbyte == (iCurBitPos(ctx) + n + 7) \div 8
        first == ctx.pos \div 8
        bytes == SubSeq(ctx.buf, first + 1, first + nbyte)
        low == Last32(Copies(8 * (5 - nbyte), 0) \o BitsOf(bytes))
        shift == u8Shift(ctx, n)
        shifted == Copies(shift, low[1]) \o SubSeq(low, 1, 32 - shift)
    IN  SubSeq(shifted, 33 - n, 32)

getBits(ctx, iN) ==
    LET n == IF iN > MAX_LEN THEN MAX_LEN ELSE iN
    IN  IF getBitsLeft(ctx) < n THEN Read(<<>>, ctx) ELSE Read(Window(ctx, n), At(ctx, ctx.pos + n))

RECURSIVE LeadingZeroBits(_, _)

(* The zeros up to the next one, or up to the end, where the -1 of getOneBit*)
(* ends the loop as a one does.                                             *)
LeadingZeroBits(ctx, n) ==
    LET bit == getOneBit(ctx)
    IN  IF bit.v = 0 THEN LeadingZeroBits(bit.ctx, n + 1) ELSE Read(n, bit.ctx)

(* An Exp-Golomb code.  One of 31 zeros or more overflows the shift of a 32 *)
(* bit integer: the inputs of the runs have none.                           *)
parseCodenum(ctx) ==
    LET lead == LeadingZeroBits(ctx, 0)
        info == getBits(lead.ctx, lead.v)
    IN  Read(2^lead.v - 1 + Value(info.v), info.ctx)

parseUe(ctx) == parseCodenum(ctx)

parseSe(ctx) ==
    LET code == parseCodenum(ctx)
        half == (code.v + 1) \div 2
    IN  Read(IF code.v % 2 = 1 THEN half ELSE -half, code.ctx)

-----------------------------------------------------------------------------
(* Every 0, 0, 3 loses its 3, the bytes after it moved up in place.  The    *)
(* loop runs over the old size and goes on from the second zero, so that the*)
(* bytes after a removed 3 can be taken for the start of another one.       *)

MovedUp(bytes, j) == [k \in DOMAIN bytes |-> bytes[IF j <= k /\ k < Len(bytes) THEN k + 1 ELSE k]]

deEmulationPrevention(bytes) ==
    LET Step(st, i) ==
            IF st.b[i] = 0 /\ st.b[i + 1] = 0 /\ st.b[i + 2] = 3
            THEN [b |-> MovedUp(st.b, i + 2), size |-> st.size - 1]
            ELSE st
        end == FoldLeft(Step, [b |-> bytes, size |-> Len(bytes)], [i \in 1..(Len(bytes) - 2) |-> i])
    IN  SubSeq(end.b, 1, end.size)

-----------------------------------------------------------------------------
(* The syntax, as the sequence of what h264DecSeqParameterSet does in turn. *)
(* An element is read if the flags it is given are set: a flag, u(n), ue(v) *)
(* or se(v).  Is notes a condition as a flag of its own, Must ends the      *)
(* reading unless a condition holds, and Times repeats some elements.       *)

E(as, name, n) == [as |-> as, name |-> name, n |-> n, given |-> {}, body |-> <<>>]
F(name) == E("flag", name, 1)
U(name, n) == E("u", name, n)
Ue(name) == E("ue", name, 0)
Se(name) == E("se", name, 0)
Is(name) == E("is", name, 0)
Must(name) == E("must", name, 0)
Times(name, body) == [E("times", name, 0) EXCEPT !.body = body]
If(flags, elements) == [i \in DOMAIN elements |-> [elements[i] EXCEPT !.given = @ \cup flags]]

Header ==
    <<U("iProfileIdc", 8), F("c0"), F("c1"), F("c2"), F("c3"), F("c4"), F("c5"), U("reserved", 2),
      U("iLevelIdc", 8), Ue("uiSpsId"), Must("uiSpsId")>>

\* Chroma format, bit depths and scaling matrices: read of the high profiles only.
Chroma ==
    <<Is("high")>>
    \o If({"high"}, <<Ue("iChromaFormatIdc"), Must("iChromaFormatIdc"), Is("444")>>)
    \o If({"high", "444"}, <<F("planes"), Must("planes")>>)
    \o If({"high"}, <<Ue("luma"), Ue("chroma"), Must("depth"), F("iTransformBypass"), E("scaling", "matrices", 0)>>)

\* Frame numbers, picture order count and reference frames.
Poc ==
    <<Ue("iLog2MaxFrameNumMinus4"), Must("iLog2MaxFrameNumMinus4"), Ue("iPocType"), Is("poc0"), Is("poc1")>>
    \o If({"poc0"}, <<Ue("lsb"), Must("lsb")>>)
    \o If({"poc1"}, <<F("delta"), Se("nonref"), Se("field"), Ue("iPocCycleLength"), Must("iPocCycleLength"),
                      Times("iPocCycleLength", <<Se("offset")>>)>>)
    \o <<Must("iPocType"), Ue("iRefFrameCount"), Must("iRefFrameCount")>>

\* The size in macroblocks, and the crop.
Size ==
    <<F("gaps"), Ue("mb_width"), Ue("mb_height"), F("iFrameMbsOnlyFlag"), Is("fields")>>
    \o If({"fields"}, <<F("iMbAff")>>)
    \o <<F("direct"), F("iCrop")>>
    \o If({"iCrop"}, <<Ue("left"), Ue("right"), Ue("top"), Ue("bottom"), Must("crop")>>)

\* The loop reads as many entries as cpb_cnt_minus1, one fewer than there are.
decodeHrdPAarameters ==
    <<Ue("iCpbCnt"), Must("iCpbCnt"), U("bit_rate_scale", 4), U("cpb_size_scale", 4),
      Times("iCpbCnt", <<Ue("bit_rate"), Ue("cpb_size"), F("cbr")>>),
      U("initial", 5), U("removal", 5), U("output", 5), U("offset", 5)>>

\* Shape and colours of the picture, up to the chroma location.
VuiPicture ==
    <<F("aspect")>>
    \o If({"aspect"}, <<U("idc", 8), Is("extended"), Must("idc")>>)
    \o If({"aspect", "extended"}, <<U("num", 16), U("den", 16)>>)
    \o <<F("overscan")>> \o If({"overscan"}, <<F("appropriate")>>)
    \o <<F("signal")>>
    \o If({"signal"}, <<U("format", 3), F("iFullRange"), F("colour")>>)
    \o If({"signal", "colour"}, <<U("primaries", 8), U("trc", 8), U("space", 8)>>)
    \o <<F("location")>> \o If({"location"}, <<Ue("top_field"), Ue("bottom_field")>>)

\* Timing, buffering, picture structure and restrictions; nothing is read of the last ten bits.
VuiRest ==
    <<F("timing")>> \o If({"timing"}, <<U("units", 32), U("scale", 32), F("iFixedFrameRateFlag")>>)
    \o <<F("nal")>> \o If({"nal"}, decodeHrdPAarameters)
    \o <<F("vcl")>> \o If({"vcl"}, decodeHrdPAarameters)
    \o <<Is("hrd")>> \o If({"hrd"}, <<F("low_delay")>>)
    \o <<F("iPicStructPresentFlag"), Is("more")>>
    \o If({"more"}, <<F("restriction")>>)
    \o If({"more", "restriction"}, <<F("over_boundaries"), Ue("bytes"), Ue("bits"), Ue("mv_x"), Ue("mv_y"),
                                     Ue("iNumReorderFrames"), Ue("max_dec"), Must("iNumReorderFrames")>>)

decodeVuiParameters == VuiPicture \o <<Is("ten")>> \o If({"ten"}, VuiRest)

\* A failure in the usability information only ends the reading: the set is
\* accepted with what has been read of it.
Syntax ==
    Header \o Chroma \o Poc \o Size \o <<F("vui"), Is("accepted")>> \o If({"vui"}, decodeVuiParameters)

-----------------------------------------------------------------------------
(* The conditions.                                                          *)

HighProfiles == {100, 110, 122, 244, 44, 83, 86, 118, 128, 138, 144}

\* A faulty step that ignores how the chroma is subsampled.
StepsOfLuma(sps) == [x |-> 1, y |-> 2 - sps.iFrameMbsOnlyFlag]

\* The luma samples in a unit of the crop.
CropSteps(sps) ==
    [x |-> IF sps.iChromaFormatIdc \in {1, 2} THEN 2 ELSE 1,
     y |-> (2 - sps.iFrameMbsOnlyFlag) * (IF sps.iChromaFormatIdc = 1 THEN 2 ELSE 1)]

\* The left crop is rounded down to a multiple of 32 units, of 16 at more than 8 bits.
LeftKept(sps) == sps.left - (sps.left % (IF sps.luma > 0 THEN 16 ELSE 32))

CropValid(sps) ==
    LET step == CropSteps(sps)
        Limit(s) == (INT_MAX \div 4) \div s
    IN  /\ LeftKept(sps) <= Limit(step.x) /\ sps.right <= Limit(step.x)
        /\ sps.top <= Limit(step.y) /\ sps.bottom <= Limit(step.y)
        /\ (LeftKept(sps) + sps.right) * step.x < 16 * (sps.mb_width + 1)
        /\ (sps.top + sps.bottom) * step.y < 16 * (sps.mb_height + 1) * (2 - sps.iFrameMbsOnlyFlag)

(* A flag is set when it is not zero: one that could not be read is.        *)
Set(sps, name) == name \in DOMAIN sps /\ sps[name] # 0

Holds(name, sps, left) ==
    CASE name = "high" -> Value(sps.iProfileIdc) \in HighProfiles
      [] name = "444" -> sps.iChromaFormatIdc = 3
      [] name = "poc0" -> sps.iPocType = 0
      [] name = "poc1" -> sps.iPocType = 1
      [] name = "fields" -> sps.iFrameMbsOnlyFlag = 0
      [] name = "accepted" -> TRUE
      [] name = "extended" -> Value(sps.idc) = EXTENDED_SAR
      [] name = "ten" -> left >= 10
      [] name = "hrd" -> Set(sps, "nal") \/ Set(sps, "vcl")
      [] name = "more" -> left # 0
      [] name = "uiSpsId" -> sps.uiSpsId < MAX_SPS_COUNT
      [] name = "iChromaFormatIdc" -> sps.iChromaFormatIdc <= 3
      [] name = "planes" -> sps.planes = 0
      [] name = "depth" -> sps.luma = sps.chroma /\ sps.luma <= 6
      [] name = "iPocType" -> sps.iPocType \in 0..2
      [] name = "iPocCycleLength" -> sps.iPocCycleLength < 256
      [] name \in {"iLog2MaxFrameNumMinus4", "lsb"} -> sps[name] <= 12
      [] name \in {"iRefFrameCount", "iNumReorderFrames"} -> sps[name] <= 16
      [] name = "crop" -> CropValid(sps)
      [] name = "idc" -> Set(sps, "extended") \/ Value(sps.idc) < 17
      [] name = "iCpbCnt" -> sps.iCpbCnt <= 32

-----------------------------------------------------------------------------
(* Reading.  A parse is [ctx, ok, sps]: the context, whether reading goes   *)
(* on, and the fields read so far, or what they are without being read.     *)

Unread ==
    [iChromaFormatIdc |-> 1, luma |-> 0, left |-> 0, right |-> 0, top |-> 0, bottom |-> 0,
     units |-> <<>>, scale |-> <<>>]

RECURSIVE DecodeDeltas(_, _)

DecodeDeltas(st, n) ==
    LET d == parseSe(st.ctx)
        next == (st.last + d.v) % 256
    IN  IF n = 0 \/ st.next = 0 THEN st.ctx
        ELSE DecodeDeltas([ctx |-> d.ctx, next |-> next, last |-> IF next # 0 THEN next ELSE st.last], n - 1)

\* A flag, then deltas until the scale is zero; a first one of zero asks for the preset.
decodeScalingList(ctx, size) ==
    LET present == getOneBit(ctx)
    IN  IF present.v = 0 THEN present.ctx ELSE DecodeDeltas([ctx |-> present.ctx, next |-> 8, last |-> 8], size)

decodeScalingMatrices(ctx, format) ==
    LET present == getOneBit(ctx)
        sizes == Copies(6, 16) \o Copies(IF format = 3 THEN 6 ELSE 2, 64)
    IN  IF present.v = 0 THEN present.ctx ELSE FoldLeft(decodeScalingList, present.ctx, sizes)

Put(p, name, read) == [p EXCEPT !.ctx = read.ctx, !.sps = (name :> read.v) @@ @]

Element(p, e) ==
    CASE e.as = "flag" -> Put(p, e.name, getOneBit(p.ctx))
      [] e.as = "u" -> Put(p, e.name, getBits(p.ctx, e.n))
      [] e.as = "ue" -> Put(p, e.name, parseUe(p.ctx))
      [] e.as = "se" -> Put(p, e.name, parseSe(p.ctx))
      [] e.as = "is" -> Put(p, e.name, Read(IF Holds(e.name, p.sps, getBitsLeft(p.ctx)) THEN 1 ELSE 0, p.ctx))
      [] e.as = "must" -> [p EXCEPT !.ok = Holds(e.name, p.sps, getBitsLeft(p.ctx))]
      [] e.as = "scaling" -> [p EXCEPT !.ctx = decodeScalingMatrices(p.ctx, p.sps.iChromaFormatIdc)]

RECURSIVE Decode(_, _)

Decode(p, elements) ==
    LET e == Head(elements)
        rest == Tail(elements)
    IN  IF elements = <<>> \/ ~ p.ok THEN p
        ELSE IF \E flag \in e.given : ~ Set(p.sps, flag) THEN Decode(p, rest)
        ELSE IF e.as = "times" THEN Decode(p, FlattenSeq(Copies(p.sps[e.name], e.body)) \o rest)
        ELSE Decode(Element(p, e), rest)

h264DecSeqParameterSet(bytes) ==
    Decode([ctx |-> Context(deEmulationPrevention(bytes)), ok |-> TRUE, sps |-> Unread], Syntax).sps

-----------------------------------------------------------------------------
(* What h264_track takes from the set.                                      *)

\* The coded size where the crop leaves nothing; the fields of a frame are not counted twice.
h264GetWidthHeight(sps) ==
    LET coded == <<16 * (sps.mb_width + 1), 16 * (sps.mb_height + 1)>>
        step == CropSteps(sps)
        size == <<coded[1] - (LeftKept(sps) + sps.right) * step.x, coded[2] - (sps.top + sps.bottom) * step.y>>
    IN  IF size[1] <= 0 \/ size[2] <= 0 THEN coded ELSE size

\* The frame rate, as scale and units, is half their quotient; timing info with a zero is none.
h264GeFramerate(sps) ==
    IF 1 \in Range(sps.units) /\ 1 \in Range(sps.scale) THEN <<sps.scale, sps.units>> ELSE <<>>

SizeAndRate(sps) ==
    IF Set(sps, "accepted") THEN Got([size |-> h264GetWidthHeight(sps), fps |-> h264GeFramerate(sps)], <<>>) ELSE Thrown

\* A set of fewer than four bytes is not parsed: the size stays what it was.
extract_bitstream_sps(track, sps) ==
    IF Len(sps) < 4 THEN Got(track, <<>>) ELSE SizeAndRate(h264DecSeqParameterSet(Tail(sps)))
=============================================================================
