-------------------------------- MODULE Bytes --------------------------------
(* Byte strings, and the reading side of network::flat_buffer as the        *)
(* decoders use it.  A string of the program is a sequence of bytes, and a  *)
(* reader is a function of the unread bytes: it either throws, or returns a *)
(* value and the bytes it has left.                                         *)
EXTENDS Integers, Sequences, FiniteSets

Got(val, rest) == [ok |-> TRUE, val |-> val, rest |-> rest]

Thrown == [ok |-> FALSE, val |-> <<>>, rest |-> <<>>]

(* What `Rest` does with a value read, unless reading it has thrown.        *)
Then(read, Rest(_, _)) == IF read.ok THEN Rest(read.val, read.rest) ELSE Thrown

(* The n low bytes of v, most significant first (htons, htonl, set_be24,    *)
(* set_be32), and back (ntohs, ntohl, load_be24, load_be32).                *)
SetBe(n, v) == [i \in 1..n |-> (v \div 256^(n - i)) % 256]

LoadBe[s \in Seq(0..255)] ==
    IF s = <<>> THEN 0 ELSE 256 * LoadBe[SubSeq(s, 1, Len(s) - 1)] + s[Len(s)]

peek_uint8(s) == IF s = <<>> THEN Thrown ELSE Got(Head(s), s)

to_string(len, s) ==
    IF len > Len(s) THEN Thrown ELSE Got(SubSeq(s, 1, len), SubSeq(s, len + 1, Len(s)))

consume_or_fail(len, s) == to_string(len, s)

read_uint8(s) == Then(to_string(1, s), LAMBDA b, rest : Got(b[1], rest))

read_uint16(s) == Then(to_string(2, s), LAMBDA b, rest : Got(LoadBe[b], rest))

read_uint32(s) == Then(to_string(4, s), LAMBDA b, rest : Got(LoadBe[b], rest))
=============================================================================
