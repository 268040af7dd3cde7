-------------------------- MODULE FlvDeliveryProofs --------------------------
(***************************************************************************)
(* That the viewer is sent what it should be (AnsweredInFull of FlvOutput),*)
(* for every number of io threads, size of the send buffer and of the      *)
(* transfers, packet sizes, pool size, and number of requests and packets. *)
(*                                                                         *)
(* What is due is what the steps of the two handlers will send: DeliveryInv*)
(* says that no step of one strand is overtaken by one of the other, so    *)
(* that the next write is always the first of what is due.                 *)
(***************************************************************************)
EXTENDS FlvOutputProofs, Induction

-----------------------------------------------------------------------------
(* Sequences, one after the other                                          *)


\* Two sequences one after the other, and one that has nothing.
LEMMA JoinLemma ==
    ASSUME NEW B, NEW s \in Seq(B), NEW t \in Seq(B)
    PROVE  s \o t \in Seq(B) /\ s \o <<>> = s /\ <<>> \o s = s
BY ConcatProperties, ConcatEmptySeq

\* The same with a name for it, which the provers do not look into.
Cat(s, t) == s \o t

LEMMA CatType ==
    \A B : \A s, t \in Seq(B) : Cat(s, t) \in Seq(B)
BY JoinLemma DEF Cat

LEMMA CatAssociative ==
    \A B : \A s, t, u \in Seq(B) : Cat(s, Cat(t, u)) = Cat(Cat(s, t), u)
<1>. SUFFICES ASSUME NEW B, NEW s \in Seq(B), NEW t \in Seq(B), NEW u \in Seq(B)
              PROVE  (s \o t) \o u = s \o (t \o u)
  BY DEF Cat
<1>. QED BY ConcatAssociative, SMT

LEMMA CatEmpty ==
    \A B : \A s \in Seq(B) : Cat(s, <<>>) = s /\ Cat(<<>>, s) = s
BY JoinLemma DEF Cat

\* at[i] is the first i of the sequences in s, one after the other.
Joins(at, s, n, B) ==
    /\ at \in [0..n -> Seq(B)] /\ at[0] = <<>>
    /\ \A i \in 1..n : at[i] = at[i - 1] \o s[i]

\* There are such sequences.
LEMMA JoinsExist ==
    ASSUME NEW B, NEW n \in Nat, NEW s \in [1..n -> Seq(B)]
    PROVE  \E at : Joins(at, s, n, B)
<1>. DEFINE S == {k \in Nat : k <= n => \E at : Joins(at, s, k, B)}
<1>1. 0 \in S
  <2>1. Joins([i \in 0..0 |-> <<>>], s, 0, B)
    BY DEF Joins
  <2>. QED BY <2>1
<1>2. ASSUME NEW k \in S PROVE k + 1 \in S
  <2>. SUFFICES ASSUME k + 1 <= n PROVE \E at : Joins(at, s, k + 1, B)
    OBVIOUS
  <2>1. k \in Nat /\ k <= n /\ k \in 0..k
    OBVIOUS
  <2>2. PICK f : Joins(f, s, k, B)
    BY <2>1
  <2>. DEFINE x == f[k] \o s[k + 1]
              g == [i \in 0..(k + 1) |-> IF i = k + 1 THEN x ELSE f[i]]
  <2>. HIDE DEF S
  <2>3. x \in Seq(B)
    <3>1. f[k] \in Seq(B)
      BY <2>1, <2>2 DEF Joins
    <3>2. s[k + 1] \in Seq(B)
      BY <2>1
    <3>. QED BY <3>1, <3>2, JoinLemma
  <2>4. \A i \in 0..k : g[i] = f[i] /\ f[i] \in Seq(B)
    BY <2>1, <2>2 DEF Joins
  <2>5. g[k + 1] = x /\ g[k] = f[k]
    <3>1. k + 1 \in 0..(k + 1) /\ k \in 0..(k + 1) /\ k # k + 1
      BY <2>1
    <3>. HIDE DEF x
    <3>. QED BY <3>1
  <2>6. g \in [0..(k + 1) -> Seq(B)]
    <3>1. \A i \in 0..(k + 1) : i # k + 1 => i \in 0..k
      BY <2>1
    <3>. HIDE DEF x
    <3>. QED BY <2>3, <2>4, <3>1
  <2>7. ASSUME NEW i \in 1..(k + 1) PROVE g[i] = g[i - 1] \o s[i]
    <3>1. CASE i = k + 1
      <4>1. i - 1 = k
        BY <2>1, <3>1
      <4>. QED BY <2>5, <3>1, <4>1
    <3>2. CASE i # k + 1
      <4>1. i \in 1..k /\ i \in 0..k /\ i - 1 \in 0..k
        BY <2>1, <3>2
      <4>. QED BY <2>2, <2>4, <4>1 DEF Joins
    <3>. QED BY <3>1, <3>2
  <2>8. g[0] = <<>>
    BY <2>1, <2>2 DEF Joins
  <2>. HIDE DEF g
  <2>. QED BY <2>6, <2>7, <2>8 DEF Joins
<1>3. S = Nat
  <2>. HIDE DEF S
  <2>1. S \subseteq Nat
    BY DEF S
  <2>. QED BY <1>1, <1>2, <2>1, SetInduction
<1>4. n \in S
  <2>. HIDE DEF S
  <2>. QED BY <1>3
<1>5. n <= n
  OBVIOUS
<1>. QED BY <1>4, <1>5

\* FlattenSeq is the last of them.
LEMMA FlattenLemma ==
    ASSUME NEW B, NEW s \in Seq(Seq(B)), NEW at, Joins(at, s, Len(s), B)
    PROVE  FlattenSeq(s) = at[Len(s)]
<1>. DEFINE n == Len(s)
            flat == CHOOSE f : f = [i \in 1..n |-> IF i = 1 THEN s[i] ELSE f[i - 1] \o s[i]]
<1>1. n \in Nat /\ \A i \in 1..n : s[i] \in Seq(B)
  BY LenProperties, ElementOfSeq
<1>2. CASE n = 0
  <2>1. s = <<>>
    BY <1>2
  <2>. QED BY <1>2, <2>1 DEF FlattenSeq, Joins
<1>3. CASE n # 0
  <2>. DEFINE g == [i \in 1..n |-> at[i]]
  <2>1. \A i \in 1..n : at[i] = IF i = 1 THEN s[i] ELSE at[i - 1] \o s[i]
    <3>1. at[1] = s[1]
      <4>1. 1 \in 1..n
        BY <1>1, <1>3
      <4>2. at[1] = <<>> \o s[1]
        <5>1. at[1] = at[1 - 1] \o s[1] /\ at[0] = <<>>
          BY <4>1 DEF Joins
        <5>2. 1 - 1 = 0
          OBVIOUS
        <5>. QED BY <5>1, <5>2
      <4>. QED BY <1>1, <4>1, <4>2, JoinLemma
    <3>. QED BY <3>1 DEF Joins
  <2>2. g = [i \in 1..n |-> IF i = 1 THEN s[i] ELSE g[i - 1] \o s[i]]
    <3>1. \A i \in 1..n : i # 1 => i - 1 \in 1..n
      BY <1>1
    <3>. QED BY <2>1, <3>1
  <2>3. flat = [i \in 1..n |-> IF i = 1 THEN s[i] ELSE flat[i - 1] \o s[i]]
    BY <2>2
  <2>. HIDE DEF flat
  <2>. DEFINE S == {k \in Nat : k + 1 <= n => flat[k + 1] = at[k + 1]}
  <2>4. 0 \in S
    <3>1. 1 \in 1..n
      BY <1>1, <1>3
    <3>. QED BY <2>1, <2>3, <3>1
  <2>5. ASSUME NEW k \in S PROVE k + 1 \in S
    <3>. SUFFICES ASSUME k + 2 <= n PROVE flat[k + 2] = at[k + 2]
      OBVIOUS
    <3>1. k \in Nat /\ k + 1 <= n /\ flat[k + 1] = at[k + 1]
      BY <1>1
    <3>. HIDE DEF S
    <3>2. k + 2 \in 1..n /\ k + 2 # 1 /\ (k + 2) - 1 = k + 1
      BY <3>1
    <3>3. at[k + 2] = at[k + 1] \o s[k + 2]
      BY <2>1, <3>2
    <3>4. flat[k + 2] = flat[k + 1] \o s[k + 2]
      <4>1. \A i \in 1..n : flat[i] = IF i = 1 THEN s[i] ELSE flat[i - 1] \o s[i]
        BY <2>3
      <4>. QED BY <3>2, <4>1
    <3>. QED BY <3>1, <3>3, <3>4
  <2>6. S = Nat
    <3>. HIDE DEF S
    <3>1. S \subseteq Nat
      BY DEF S
    <3>. QED BY <2>4, <2>5, <3>1, SetInduction
  <2>7. n - 1 \in S
    <3>. HIDE DEF S
    <3>1. n - 1 \in Nat
      BY <1>1, <1>3
    <3>. QED BY <2>6, <3>1
  <2>8. flat[n] = at[n]
    <3>1. (n - 1) + 1 = n /\ n <= n
      BY <1>1
    <3>. QED BY <2>7, <3>1
  <2>9. FlattenSeq(s) = flat[n]
    BY <1>3 DEF FlattenSeq, flat
  <2>. QED BY <2>8, <2>9
<1>. QED BY <1>2, <1>3

\* It is one of sequences of B.
LEMMA FlattenType ==
    ASSUME NEW B, NEW s \in Seq(Seq(B))
    PROVE  FlattenSeq(s) \in Seq(B)
<1>. DEFINE n == Len(s)
<1>1. n \in Nat /\ s \in [1..n -> Seq(B)] /\ n \in 0..n
  BY LenProperties
<1>2. PICK at : Joins(at, s, n, B)
  BY <1>1, JoinsExist
<1>3. at[n] \in Seq(B)
  BY <1>1, <1>2 DEF Joins
<1>4. FlattenSeq(s) = at[n]
  BY <1>2, FlattenLemma
<1>. QED BY <1>3, <1>4

\* What is flattened one after the other is flattened together.
LEMMA FlattenConcat ==
    ASSUME NEW B, NEW s \in Seq(Seq(B)), NEW t \in Seq(Seq(B))
    PROVE  FlattenSeq(s \o t) = FlattenSeq(s) \o FlattenSeq(t)
<1>. DEFINE n == Len(s)
            m == Len(t)
            st == s \o t
<1>1. /\ n \in Nat /\ s \in [1..n -> Seq(B)] /\ n \in 0..n
      /\ m \in Nat /\ t \in [1..m -> Seq(B)] /\ m \in 0..m
  BY LenProperties
<1>2. PICK a : Joins(a, s, n, B)
  BY <1>1, JoinsExist
<1>3. PICK b : Joins(b, t, m, B)
  BY <1>1, JoinsExist
<1>. DEFINE c == [i \in 0..(n + m) |-> IF i <= n THEN a[i] ELSE a[n] \o b[i - n]]
<1>4. /\ st \in Seq(Seq(B)) /\ Len(st) = n + m
      /\ \A i \in 1..(n + m) : st[i] = IF i <= n THEN s[i] ELSE t[i - n]
  BY ConcatProperties
<1>5. a[n] \in Seq(B) /\ b[0] = <<>> /\ \A j \in 0..m : b[j] \in Seq(B)
  BY <1>1, <1>2, <1>3 DEF Joins
<1>6. \A i \in 0..m : c[n + i] = a[n] \o b[i]
  <2>. SUFFICES ASSUME NEW i \in 0..m PROVE c[n + i] = a[n] \o b[i]
    OBVIOUS
  <2>1. n + i \in 0..(n + m) /\ (n + i) - n = i
    BY <1>1
  <2>2. CASE i = 0
    <3>1. c[n + i] = a[n]
      BY <1>1, <2>1, <2>2
    <3>. QED BY <1>5, <2>2, <3>1, JoinLemma
  <2>3. CASE i # 0
    <3>1. ~(n + i <= n)
      BY <1>1, <2>3
    <3>. QED BY <2>1, <3>1
  <2>. QED BY <2>2, <2>3
<1>7. c \in [0..(n + m) -> Seq(B)]
  <2>. SUFFICES ASSUME NEW i \in 0..(n + m)
                PROVE (IF i <= n THEN a[i] ELSE a[n] \o b[i - n]) \in Seq(B)
    OBVIOUS
  <2>1. CASE i <= n
    <3>1. i \in 0..n
      BY <1>1, <2>1
    <3>. QED BY <1>2, <2>1, <3>1 DEF Joins
  <2>2. CASE ~(i <= n)
    <3>1. i - n \in 0..m
      BY <1>1, <2>2
    <3>2. a[n] \o b[i - n] \in Seq(B)
      BY <1>5, <3>1, JoinLemma
    <3>. QED BY <2>2, <3>2
  <2>. QED BY <2>1, <2>2
<1>8. \A i \in 0..n : c[i] = a[i]
  BY <1>1
<1>9. c[0] = <<>>
  BY <1>1, <1>2, <1>8 DEF Joins
<1>. HIDE DEF c, st
<1>10. ASSUME NEW i \in 1..(n + m) PROVE c[i] = c[i - 1] \o st[i]
  <2>1. CASE i <= n
    <3>1. i \in 1..n /\ i \in 0..n /\ i - 1 \in 0..n
      BY <1>1, <2>1
    <3>. QED BY <1>2, <1>4, <1>8, <2>1, <3>1 DEF Joins
  <2>2. CASE ~(i <= n)
    <3>1. PICK j \in 1..m : i = n + j
      <4>1. i - n \in 1..m /\ i = n + (i - n)
        BY <1>1, <2>2
      <4>. QED BY <4>1
    <3>2. j \in 0..m /\ j - 1 \in 0..m /\ i - 1 = n + (j - 1) /\ i - n = j
      BY <1>1, <3>1
    <3>3. c[i] = a[n] \o b[j] /\ c[i - 1] = a[n] \o b[j - 1]
      BY <1>6, <3>1, <3>2
    <3>4. b[j] = b[j - 1] \o t[j] /\ t[j] \in Seq(B)
      BY <1>1, <1>3, <3>1 DEF Joins
    <3>5. st[i] = t[j]
      BY <1>4, <2>2, <3>2
    <3>6. a[n] \o (b[j - 1] \o t[j]) = (a[n] \o b[j - 1]) \o t[j]
      <4>1. b[j - 1] \in Seq(B)
        BY <1>5, <3>2
      <4>2. a[n] \in Seq(B) /\ t[j] \in Seq(B)
        BY <1>5, <3>4
      <4>3. Cat(a[n], Cat(b[j - 1], t[j])) = Cat(Cat(a[n], b[j - 1]), t[j])
        BY <4>1, <4>2, CatAssociative
      <4>. QED BY <4>3 DEF Cat
    <3>. QED BY <3>3, <3>4, <3>5, <3>6
  <2>. QED BY <2>1, <2>2
<1>11. Joins(c, st, n + m, B)
  BY <1>7, <1>9, <1>10 DEF Joins
<1>12. FlattenSeq(st) = c[n + m]
  BY <1>4, <1>11, FlattenLemma
<1>13. FlattenSeq(s) = a[n] /\ FlattenSeq(t) = b[m]
  BY <1>2, <1>3, FlattenLemma
<1>. QED BY <1>1, <1>6, <1>12, <1>13 DEF st

\* Of a single sequence it is that.
LEMMA FlattenOne ==
    ASSUME NEW B, NEW x \in Seq(B)
    PROVE  FlattenSeq(<<x>>) = x
<1>. DEFINE at == [i \in 0..1 |-> IF i = 0 THEN <<>> ELSE x]
<1>1. /\ <<x>> \in Seq(Seq(B)) /\ Len(<<x>>) = 1 /\ <<x>>[1] = x
  OBVIOUS
<1>2. at \in [0..1 -> Seq(B)] /\ at[0] = <<>> /\ at[1] = x
  OBVIOUS
<1>. HIDE DEF at
<1>3. \A i \in 1..1 : i = 1 /\ i - 1 = 0
  OBVIOUS
<1>4. at[1] = at[0] \o <<x>>[1]
  BY <1>1, <1>2, JoinLemma
<1>5. Joins(at, <<x>>, 1, B)
  BY <1>1, <1>2, <1>3, <1>4 DEF Joins
<1>. QED BY <1>1, <1>2, <1>5, FlattenLemma

\* Of nothing, and of sequences that have nothing, it is nothing.
LEMMA FlattenEmpty ==
    ASSUME NEW B, NEW s \in Seq(Seq(B)), \A i \in 1..Len(s) : s[i] = <<>>
    PROVE  FlattenSeq(s) = <<>>
<1>. DEFINE n == Len(s)
            at == [i \in 0..n |-> <<>>]
<1>1. n \in Nat
  BY LenProperties
<1>2. <<>> \in Seq(B) /\ <<>> \o <<>> = <<>>
  <2>1. <<>> \in Seq(B)
    OBVIOUS
  <2>. QED BY <2>1, JoinLemma
<1>3. \A i \in 0..n : at[i] = <<>>
  OBVIOUS
<1>4. at \in [0..n -> Seq(B)]
  BY <1>2
<1>. HIDE DEF at
<1>5. ASSUME NEW i \in 1..n PROVE at[i] = at[i - 1] \o s[i]
  <2>1. i \in 0..n /\ i - 1 \in 0..n
    BY <1>1
  <2>. QED BY <1>2, <1>3, <2>1
<1>6. 0 \in 0..n /\ n \in 0..n
  BY <1>1
<1>7. Joins(at, s, n, B)
  BY <1>3, <1>4, <1>5, <1>6 DEF Joins
<1>. QED BY <1>3, <1>6, <1>7, FlattenLemma

\* A part of a sequence, element by element.
LEMMA SliceLemma ==
    ASSUME NEW B, NEW d \in Seq(B), NEW m \in Nat \ {0}, NEW n \in Nat, n <= Len(d),
           NEW t \in Seq(B), Len(t) = n - m + 1, \A i \in 1..Len(t) : t[i] = d[m + i - 1]
    PROVE  SubSeq(d, m, n) = t
<1>1. Len(d) \in Nat /\ Len(t) \in Nat /\ \A i \in 1..Len(d) : d[i] \in B
  BY LenProperties, ElementOfSeq
<1>2. m \in Int /\ n \in Int /\ \A i \in m..n : d[i] \in B
  BY <1>1
<1>3. /\ SubSeq(d, m, n) \in Seq(B)
      /\ Len(SubSeq(d, m, n)) = IF m <= n THEN n - m + 1 ELSE 0
      /\ \A i \in 1..(n - m + 1) : SubSeq(d, m, n)[i] = d[m + i - 1]
  BY <1>2, SubSeqProperties
<1>4. Len(SubSeq(d, m, n)) = Len(t)
  BY <1>1, <1>3
<1>5. \A i \in 1..Len(SubSeq(d, m, n)) : SubSeq(d, m, n)[i] = t[i]
  BY <1>3, <1>4
<1>. QED BY <1>3, <1>4, <1>5, SeqEqual

\* What is sent first has gone, and the rest is left.
LEMMA PrefixLemma ==
    ASSUME NEW B, NEW s \in Seq(B), NEW t \in Seq(B)
    PROVE  IsPrefix(s, s \o t) /\ SubSeq(s \o t, Len(s) + 1, Len(s \o t)) = t
<1>. DEFINE n == Len(s)
            m == Len(t)
            d == s \o t
<1>1. n \in Nat /\ m \in Nat
  BY LenProperties
<1>2. /\ d \in Seq(B) /\ Len(d) = n + m
      /\ \A i \in 1..(n + m) : d[i] = IF i <= n THEN s[i] ELSE t[i - n]
  BY ConcatProperties
<1>3. s \in Seq(B) /\ t \in Seq(B) /\ Len(s) = n /\ Len(t) = m
  OBVIOUS
<1>. HIDE DEF n, m, d
<1>4. SubSeq(d, 1, n) = s
  <2>1. \A i \in 1..n : s[i] = d[1 + i - 1]
    BY <1>1, <1>2
  <2>2. 1 \in Nat \ {0} /\ n <= n + m /\ n = n - 1 + 1
    BY <1>1
  <2>. QED BY <1>1, <1>2, <1>3, <2>1, <2>2, SliceLemma
<1>5. SubSeq(s, 1, n) = s
  <2>1. \A i \in 1..n : s[i] = s[1 + i - 1]
    BY <1>1
  <2>2. 1 \in Nat \ {0} /\ n <= n /\ n = n - 1 + 1
    BY <1>1
  <2>. QED BY <1>1, <1>3, <2>1, <2>2, SliceLemma
<1>6. SubSeq(d, n + 1, n + m) = t
  <2>1. \A i \in 1..m : t[i] = d[(n + 1) + i - 1]
    <3>. SUFFICES ASSUME NEW i \in 1..m PROVE t[i] = d[(n + 1) + i - 1]
      OBVIOUS
    <3>1. (n + 1) + i - 1 = n + i /\ n + i \in 1..(n + m) /\ ~(n + i <= n) /\ (n + i) - n = i
      BY <1>1
    <3>. QED BY <1>2, <3>1
  <2>2. n + 1 \in Nat \ {0} /\ n + m \in Nat /\ m = (n + m) - (n + 1) + 1
    BY <1>1
  <2>3. n + m <= Len(d) /\ d \in Seq(B)
    BY <1>1, <1>2
  <2>4. \A i \in 1..Len(t) : t[i] = d[(n + 1) + i - 1]
    BY <1>3, <2>1
  <2>5. Len(t) = (n + m) - (n + 1) + 1
    BY <1>3, <2>2
  <2>. QED BY <1>3, <2>2, <2>3, <2>4, <2>5, SliceLemma
<1>7. IsPrefix(s, d)
  BY <1>1, <1>2, <1>4, <1>5, <1>3 DEF IsPrefix
<1>. QED BY <1>2, <1>3, <1>6, <1>7 DEF d
-----------------------------------------------------------------------------
(* What the steps of a handler will send                                   *)

Steps == ViewerSteps \cup PublisherSteps

\* A byte that the viewer is sent.
Octets == {"response", "header", "body", "size", "error"} \X Scopes \X Nat

\* Wanted, Sends and ToSend for a viewer with muxer m, given the start_pts p.
WantedBy(pkts, m, p) ==
    FlattenSeq([i \in DOMAIN pkts |->
                  IF pkts[i].time_stamp >= p[m]
                  THEN Tag(<<"tag", pkts[i].time_stamp>>, pkts[i].size) ELSE <<>>])

Said(e, m, p) ==
    IF e.op = "send" THEN Bytes(e.name[1], e.name[2], e.size)
    ELSE IF e.op = "call" /\ e.arg.muxer = m THEN WantedBy(<< e.arg.pkt >>, m, p) ELSE <<>>

Plan(steps, m, p) == FlattenSeq([i \in DOMAIN steps |-> Said(steps[i], m, p)])

\* Steps that send nothing, whoever the viewer is.
Silent(steps) == \A i \in DOMAIN steps : steps[i].op \notin {"send", "call"}

LEMMA BytesType ==
    ASSUME NEW name \in {"response", "header", "body", "size", "error"}, NEW of \in Scopes,
           NEW size \in Nat
    PROVE  /\ Bytes(name, of, size) \in Seq(Octets) /\ Len(Bytes(name, of, size)) = size
           /\ \A i \in 1..size : Bytes(name, of, size)[i] = <<name, of, i>>
<1>1. \A i \in 1..size : <<name, of, i>> \in Octets
  BY DEF Octets
<1>2. Bytes(name, of, size) = [i \in 1..size |-> <<name, of, i>>]
  BY DEF Bytes
<1>. HIDE DEF Octets
<1>. QED BY <1>1, <1>2

LEMMA TagType ==
    ASSUME NEW of \in Scopes, NEW size \in Nat
    PROVE  /\ Tag(of, size) \in Seq(Octets)
           /\ Tag(of, size) = Cat(Cat(Bytes("header", of, 1), Bytes("body", of, size)),
                                  Bytes("size", of, 1))
<1>1. Tag(of, size) = Cat(Cat(Bytes("header", of, 1), Bytes("body", of, size)),
                          Bytes("size", of, 1))
  BY DEF Tag, Cat
<1>2. /\ Bytes("header", of, 1) \in Seq(Octets) /\ Bytes("body", of, size) \in Seq(Octets)
      /\ Bytes("size", of, 1) \in Seq(Octets)
  BY BytesType
<1>. QED BY <1>1, <1>2, CatType

LEMMA PacketFacts ==
    ASSUME NEW pkt \in Packets
    PROVE  /\ pkt.time_stamp \in Nat /\ pkt.time_stamp >= 1 /\ pkt.size \in Nat
           /\ <<"tag", pkt.time_stamp>> \in Scopes
<1>1. pkt.time_stamp \in 1..MaxTags /\ pkt.size \in BodySizes
  BY DEF Packets
<1>2. pkt.time_stamp \in Nat /\ pkt.time_stamp >= 1 /\ pkt.size \in Nat
  <2>1. MaxTags \in Nat /\ BodySizes \subseteq Nat
    BY ConstantsAssumption
  <2>2. \A t \in 1..MaxTags : t \in Nat /\ t >= 1
    BY <2>1
  <2>3. \A z \in BodySizes : z \in Nat
    BY <2>1
  <2>. QED BY <1>1, <2>2, <2>3
<1>. QED BY <1>2 DEF Scopes

\* The tag of a packet, or nothing, as the viewer wants it.
LEMMA WantedOne ==
    ASSUME NEW pkt \in Packets, NEW m, NEW p
    PROVE  WantedBy(<< pkt >>, m, p) = IF pkt.time_stamp >= p[m]
                                       THEN Tag(<<"tag", pkt.time_stamp>>, pkt.size) ELSE <<>>
<1>. DEFINE x == IF pkt.time_stamp >= p[m]
                 THEN Tag(<<"tag", pkt.time_stamp>>, pkt.size) ELSE <<>>
<1>1. x \in Seq(Octets)
  <2>1. Tag(<<"tag", pkt.time_stamp>>, pkt.size) \in Seq(Octets)
    BY PacketFacts, TagType
  <2>2. <<>> \in Seq(Octets)
    OBVIOUS
  <2>. QED BY <2>1, <2>2
<1>2. [i \in DOMAIN << pkt >> |->
         IF << pkt >>[i].time_stamp >= p[m]
         THEN Tag(<<"tag", << pkt >>[i].time_stamp>>, << pkt >>[i].size) ELSE <<>>] = << x >>
  OBVIOUS
<1>3. WantedBy(<< pkt >>, m, p) = FlattenSeq(<< x >>)
  BY <1>2 DEF WantedBy
<1>. HIDE DEF x
<1>4. FlattenSeq(<< x >>) = x
  BY <1>1, FlattenOne
<1>. QED BY <1>3, <1>4 DEF x

LEMMA WantedType ==
    ASSUME NEW pkt \in Packets, NEW m, NEW p
    PROVE  WantedBy(<< pkt >>, m, p) \in Seq(Octets)
<1>1. Tag(<<"tag", pkt.time_stamp>>, pkt.size) \in Seq(Octets) /\ <<>> \in Seq(Octets)
  BY PacketFacts, TagType
<1>. QED BY <1>1, WantedOne

LEMMA StepKinds ==
    ASSUME NEW e \in Steps
    PROVE  /\ e.op = "send" => e \in Writes
           /\ e.op = "call" => e.arg.pkt \in Packets
           /\ e \in ViewerSteps => e.op # "call"
BY ViewerKinds, PublisherKinds DEF Steps

LEMMA SaidType ==
    ASSUME NEW e \in Steps, NEW m, NEW p
    PROVE  Said(e, m, p) \in Seq(Octets)
<1>1. CASE e.op = "send"
  <2>1. e \in Writes
    BY <1>1, StepKinds
  <2>2. /\ e.name[1] \in {"response", "header", "body", "size", "error"}
        /\ e.name[2] \in Scopes /\ e.size \in Nat
    BY <2>1 DEF Writes
  <2>. QED BY <1>1, <2>2, BytesType DEF Said
<1>2. CASE e.op = "call" /\ e.arg.muxer = m
  <2>1. e.arg.pkt \in Packets
    BY <1>2, StepKinds
  <2>. QED BY <1>2, <2>1, WantedType DEF Said
<1>3. CASE e.op # "send" /\ ~(e.op = "call" /\ e.arg.muxer = m)
  BY <1>3 DEF Said
<1>. QED BY <1>1, <1>2, <1>3

\* The list of what each of the steps sends.
LEMMA SaidList ==
    ASSUME NEW s \in Seq(Steps), NEW m, NEW p
    PROVE  /\ [i \in DOMAIN s |-> Said(s[i], m, p)] \in Seq(Seq(Octets))
           /\ Len([i \in DOMAIN s |-> Said(s[i], m, p)]) = Len(s)
           /\ DOMAIN s = 1..Len(s) /\ Len(s) \in Nat
<1>. DEFINE f(i) == Said(s[i], m, p)
<1>1. DOMAIN s = 1..Len(s) /\ Len(s) \in Nat /\ \A i \in 1..Len(s) : s[i] \in Steps
  BY LenProperties, ElementOfSeq
<1>2. \A i \in 1..Len(s) : f(i) \in Seq(Octets)
  BY <1>1, SaidType
<1>. HIDE DEF f
<1>3. [i \in 1..Len(s) |-> f(i)] \in Seq(Seq(Octets))
  BY <1>1, <1>2
<1>4. Len([i \in 1..Len(s) |-> f(i)]) = Len(s)
  BY <1>1
<1>. QED BY <1>1, <1>3, <1>4 DEF f

LEMMA PlanType ==
    ASSUME NEW s \in Seq(Steps), NEW m, NEW p
    PROVE  Plan(s, m, p) \in Seq(Octets)
BY SaidList, FlattenType DEF Plan

\* Steps one after the other send so what each would.
LEMMA PlanConcat ==
    ASSUME NEW s \in Seq(Steps), NEW t \in Seq(Steps), NEW m, NEW p
    PROVE  Plan(s \o t, m, p) = Cat(Plan(s, m, p), Plan(t, m, p))
<1>. DEFINE a == [i \in DOMAIN s |-> Said(s[i], m, p)]
            b == [i \in DOMAIN t |-> Said(t[i], m, p)]
            c == [i \in DOMAIN (s \o t) |-> Said((s \o t)[i], m, p)]
<1>1. /\ s \o t \in Seq(Steps) /\ Len(s) \in Nat /\ Len(t) \in Nat
      /\ Len(s \o t) = Len(s) + Len(t) /\ DOMAIN (s \o t) = 1..(Len(s) + Len(t))
      /\ \A i \in 1..Len(s) : (s \o t)[i] = s[i]
      /\ \A i \in 1..Len(t) : (s \o t)[Len(s) + i] = t[i]
  BY ConcatLemma
<1>2. /\ a \in Seq(Seq(Octets)) /\ Len(a) = Len(s) /\ DOMAIN s = 1..Len(s)
      /\ b \in Seq(Seq(Octets)) /\ Len(b) = Len(t) /\ DOMAIN t = 1..Len(t)
      /\ c \in Seq(Seq(Octets)) /\ Len(c) = Len(s) + Len(t)
  <2>1. a \in Seq(Seq(Octets)) /\ Len(a) = Len(s) /\ DOMAIN s = 1..Len(s)
    BY SaidList
  <2>2. b \in Seq(Seq(Octets)) /\ Len(b) = Len(t) /\ DOMAIN t = 1..Len(t)
    BY SaidList
  <2>3. c \in Seq(Seq(Octets)) /\ Len(c) = Len(s \o t)
    <3>. DEFINE st == s \o t
    <3>1. st \in Seq(Steps)
      BY <1>1
    <3>. HIDE DEF st
    <3>2. /\ [i \in DOMAIN st |-> Said(st[i], m, p)] \in Seq(Seq(Octets))
          /\ Len([i \in DOMAIN st |-> Said(st[i], m, p)]) = Len(st)
      BY <3>1, SaidList
    <3>. QED BY <3>2 DEF st
  <2>. QED BY <1>1, <2>1, <2>2, <2>3
<1>3. \A i \in 1..Len(s) : c[i] = a[i]
  BY <1>1, <1>2
<1>4. \A i \in 1..Len(t) : c[Len(s) + i] = b[i]
  BY <1>1, <1>2
<1>. HIDE DEF a, b, c
<1>5. c = a \o b
  <2>1. /\ a \o b \in Seq(Seq(Octets)) /\ Len(a \o b) = Len(a) + Len(b)
        /\ \A i \in 1..Len(a) : (a \o b)[i] = a[i]
        /\ \A i \in 1..Len(b) : (a \o b)[Len(a) + i] = b[i]
    <3>1. a \in Seq(Seq(Octets)) /\ b \in Seq(Seq(Octets))
      BY <1>2
    <3>. QED BY <3>1, ConcatLemma
  <2>2. ASSUME NEW i \in 1..Len(c) PROVE c[i] = (a \o b)[i]
    <3>1. CASE i <= Len(s)
      <4>1. i \in 1..Len(s)
        BY <1>1, <1>2, <3>1
      <4>. QED BY <1>2, <1>3, <2>1, <4>1
    <3>2. CASE ~(i <= Len(s))
      <4>1. i - Len(s) \in 1..Len(t) /\ i = Len(s) + (i - Len(s))
        BY <1>1, <1>2, <3>2
      <4>. QED BY <1>2, <1>4, <2>1, <4>1
    <3>. QED BY <3>1, <3>2
  <2>. QED BY <1>2, <2>1, <2>2, SeqEqual
<1>6. FlattenSeq(c) = FlattenSeq(a) \o FlattenSeq(b)
  BY <1>2, <1>5, FlattenConcat
<1>. QED BY <1>6 DEF Plan, Cat, a, b, c

\* The two handlers are asked for as much by steps that say the same.
LEMMA PlanSame ==
    ASSUME NEW s, NEW t, DOMAIN s = DOMAIN t, NEW m, NEW p, NEW n, NEW q,
           \A i \in DOMAIN s : Said(s[i], m, p) = Said(t[i], n, q)
    PROVE  Plan(s, m, p) = Plan(t, n, q)
<1>. DEFINE f(i) == Said(s[i], m, p)
            g(i) == Said(t[i], n, q)
<1>1. \A i \in DOMAIN s : f(i) = g(i)
  OBVIOUS
<1>. HIDE DEF f, g
<1>2. [i \in DOMAIN s |-> f(i)] = [i \in DOMAIN t |-> g(i)]
  BY <1>1
<1>. QED BY <1>2 DEF Plan, f, g

LEMMA PlanNothing ==
    ASSUME NEW s \in Seq(Steps), NEW m, NEW p, \A i \in DOMAIN s : Said(s[i], m, p) = <<>>
    PROVE  Plan(s, m, p) = <<>>
<1>. DEFINE a == [i \in DOMAIN s |-> Said(s[i], m, p)]
<1>1. a \in Seq(Seq(Octets)) /\ Len(a) = Len(s) /\ DOMAIN s = 1..Len(s)
  BY SaidList
<1>2. \A i \in 1..Len(a) : a[i] = <<>>
  BY <1>1
<1>. HIDE DEF a
<1>3. FlattenSeq(a) = <<>>
  BY <1>1, <1>2, FlattenEmpty
<1>. QED BY <1>3 DEF Plan, a

LEMMA PlanSilent ==
    ASSUME NEW s \in Seq(Steps), Silent(s), NEW m, NEW p
    PROVE  Plan(s, m, p) = <<>>
<1>1. \A i \in DOMAIN s : Said(s[i], m, p) = <<>>
  BY DEF Silent, Said
<1>. QED BY <1>1, PlanNothing

LEMMA PlanOne ==
    ASSUME NEW e \in Steps, NEW m, NEW p
    PROVE  << e >> \in Seq(Steps) /\ Plan(<< e >>, m, p) = Said(e, m, p)
<1>. DEFINE x == Said(e, m, p)
<1>1. x \in Seq(Octets)
  BY SaidType
<1>2. [i \in DOMAIN << e >> |-> Said(<< e >>[i], m, p)] = << x >>
  OBVIOUS
<1>3. Plan(<< e >>, m, p) = FlattenSeq(<< x >>)
  BY <1>2 DEF Plan
<1>. HIDE DEF x
<1>4. FlattenSeq(<< x >>) = x
  BY <1>1, FlattenOne
<1>. QED BY <1>3, <1>4 DEF x

\* The first step, and then the others.
LEMMA PlanHead ==
    ASSUME NEW s \in Seq(Steps), s # <<>>, NEW m, NEW p
    PROVE  /\ s[1] \in Steps /\ Tail(s) \in Seq(Steps)
           /\ Plan(s, m, p) = Cat(Said(s[1], m, p), Plan(Tail(s), m, p))
<1>1. s[1] \in Steps /\ Tail(s) \in Seq(Steps)
  BY TailLemma
<1>2. s = << s[1] >> \o Tail(s)
  <2>. DEFINE t == Tail(s)
              h == << s[1] >>
  <2>1. /\ Len(s) \in Nat /\ Len(s) >= 1 /\ Len(t) = Len(s) - 1
        /\ \A i \in 1..(Len(s) - 1) : t[i] = s[i + 1]
    BY TailLemma
  <2>2. h \in Seq(Steps) /\ Len(h) = 1 /\ h[1] = s[1] /\ t \in Seq(Steps)
    BY <1>1
  <2>. HIDE DEF t, h
  <2>3. /\ h \o t \in Seq(Steps) /\ Len(h \o t) = Len(h) + Len(t)
        /\ \A i \in 1..Len(h) : (h \o t)[i] = h[i]
        /\ \A i \in 1..Len(t) : (h \o t)[Len(h) + i] = t[i]
    <3>1. h \in Seq(Steps) /\ t \in Seq(Steps)
      BY <2>2
    <3>. QED BY <3>1, ConcatLemma
  <2>4. ASSUME NEW i \in 1..Len(s) PROVE s[i] = (h \o t)[i]
    <3>1. CASE i = 1
      BY <2>2, <2>3, <3>1
    <3>2. CASE i # 1
      <4>1. i - 1 \in 1..Len(t) /\ i = 1 + (i - 1) /\ (i - 1) + 1 = i
        BY <2>1, <3>2
      <4>2. (h \o t)[1 + (i - 1)] = t[i - 1]
        BY <2>2, <2>3, <4>1
      <4>3. t[i - 1] = s[(i - 1) + 1]
        BY <2>1, <4>1
      <4>. QED BY <4>1, <4>2, <4>3
    <3>. QED BY <3>1, <3>2
  <2>5. Len(h \o t) = Len(s)
    BY <2>1, <2>2, <2>3
  <2>6. s = h \o t
    <3>1. h \o t \in Seq(Steps)
      BY <2>3
    <3>. QED BY <2>4, <2>5, <3>1, SeqEqual
  <2>. QED BY <2>6 DEF t, h
<1>3. Plan(<< s[1] >> \o Tail(s), m, p) = Cat(Plan(<< s[1] >>, m, p), Plan(Tail(s), m, p))
  <2>. DEFINE h == << s[1] >>
              t == Tail(s)
  <2>1. h \in Seq(Steps) /\ t \in Seq(Steps)
    BY <1>1, PlanOne
  <2>. HIDE DEF h, t
  <2>2. Plan(h \o t, m, p) = Cat(Plan(h, m, p), Plan(t, m, p))
    BY <2>1, PlanConcat
  <2>. QED BY <2>2 DEF h, t
<1>. QED BY <1>1, <1>2, <1>3, PlanOne

-----------------------------------------------------------------------------
(* The order of the steps                                                  *)

\* A write that is still to be started.
Fresh(e) == e.left = e.size /\ e.mem # "dead" /\ ~e.ec

Has(steps, ops) == \E i \in DOMAIN steps : steps[i].op \in ops

\* StepsInTurn of the two strands.
ViewerTurn(v) ==
    /\ \A i \in DOMAIN v : v[i].op = "send" => Fresh(v[i])
    /\ Before(v, {"send", "create", "regist"}, {"regist"})

PublisherTurn(p) ==
    /\ \A i \in DOMAIN p : p[i].op = "send" => Fresh(p[i]) /\ ~p[i].is_close
    /\ Before(p, {"send", "call"}, {"old clients", "new clients"})

LEMMA TurnLemma ==
    StepsInTurn <=> ViewerTurn(todo["viewer"]) /\ PublisherTurn(todo["publisher"])
BY DEF StepsInTurn, ViewerTurn, PublisherTurn, Fresh, Strands

\* What is left of the steps v when the first is done.
After(v, w) ==
    /\ Len(w) = Len(v) - 1
    /\ \A i \in 1..Len(w) : w[i] = v[i + 1] \/ (w[i].op = "return" /\ v[i + 1].op = "return")

LEMMA AfterFacts ==
    ASSUME NEW v \in Seq(Steps), v # <<>>, NEW w \in Seq(Steps), After(v, w)
    PROVE  /\ ViewerTurn(v) => ViewerTurn(w)
           /\ PublisherTurn(v) => PublisherTurn(w)
           /\ Closes(w) => Closes(v)
           /\ Closes(v) => Closes(w) \/ (v[1].op = "send" /\ v[1].is_close)
           /\ \A ops : Has(w, ops) => Has(v, ops)
           /\ \A ops, late : Before(v, ops, late) /\ v[1].op \in late => ~Has(w, ops)
<1>1. /\ DOMAIN v = 1..Len(v) /\ DOMAIN w = 1..Len(w) /\ Len(v) \in Nat /\ Len(w) \in Nat
      /\ Len(w) = Len(v) - 1 /\ 1 \in DOMAIN v
  <2>1. Len(v) >= 1
    BY TailLemma
  <2>. QED BY <2>1, LenProperties DEF After
<1>2. ASSUME NEW i \in DOMAIN w
      PROVE  /\ i + 1 \in DOMAIN v /\ i + 1 # 1 /\ i \in Nat
             /\ w[i].op = v[i + 1].op
             /\ w[i].op = "send" => w[i] = v[i + 1]
  BY <1>1 DEF After
<1>3. ASSUME NEW i \in DOMAIN v, i # 1
      PROVE  /\ i - 1 \in DOMAIN w
             /\ v[i].op = "send" => w[i - 1] = v[i]
  <2>1. i - 1 \in DOMAIN w /\ (i - 1) + 1 = i
    BY <1>1, <1>3
  <2>2. w[i - 1] = v[i] \/ (w[i - 1].op = "return" /\ v[i].op = "return")
    BY <1>1, <2>1 DEF After
  <2>. QED BY <2>1, <2>2
<1>4. \A ops, late : Before(v, ops, late) => Before(w, ops, late)
  <2>. SUFFICES ASSUME NEW ops, NEW late, Before(v, ops, late),
                       NEW i \in DOMAIN w, NEW j \in DOMAIN w,
                       w[i].op \in late, w[j].op \in ops
                PROVE  j <= i
    BY DEF Before
  <2>1. j + 1 <= i + 1
    BY <1>2 DEF Before
  <2>. QED BY <1>2, <2>1
<1>5. ViewerTurn(v) => ViewerTurn(w)
  BY <1>2, <1>4 DEF ViewerTurn
<1>6. PublisherTurn(v) => PublisherTurn(w)
  BY <1>2, <1>4 DEF PublisherTurn
<1>7. Closes(w) => Closes(v)
  BY <1>2 DEF Closes
<1>8. Closes(v) => Closes(w) \/ (v[1].op = "send" /\ v[1].is_close)
  BY <1>3 DEF Closes
<1>9. \A ops : Has(w, ops) => Has(v, ops)
  BY <1>2 DEF Has
<1>10. \A ops, late : Before(v, ops, late) /\ v[1].op \in late => ~Has(w, ops)
  <2>. SUFFICES ASSUME NEW ops, NEW late, Before(v, ops, late), v[1].op \in late,
                       NEW i \in DOMAIN w, w[i].op \in ops
                PROVE  FALSE
    BY DEF Has
  <2>1. i + 1 <= 1
    BY <1>1, <1>2 DEF Before
  <2>. QED BY <1>1, <2>1
<1>. QED BY <1>5, <1>6, <1>7, <1>8, <1>9, <1>10

\* They send what they would have sent.
LEMMA AfterPlan ==
    ASSUME NEW v \in Seq(Steps), v # <<>>, NEW w \in Seq(Steps), After(v, w), NEW m, NEW p
    PROVE  Plan(v, m, p) = Cat(Said(v[1], m, p), Plan(w, m, p)) /\ v[1] \in Steps
<1>. DEFINE t == Tail(v)
<1>1. Plan(v, m, p) = Cat(Said(v[1], m, p), Plan(t, m, p)) /\ v[1] \in Steps
  BY PlanHead
<1>2. /\ DOMAIN t = 1..(Len(v) - 1) /\ \A i \in 1..(Len(v) - 1) : t[i] = v[i + 1]
  BY TailLemma
<1>3. DOMAIN w = 1..(Len(v) - 1) /\ Len(w) = Len(v) - 1
  BY LenProperties DEF After
<1>. HIDE DEF t
<1>4. ASSUME NEW i \in DOMAIN w PROVE Said(w[i], m, p) = Said(t[i], m, p)
  <2>1. w[i] = v[i + 1] \/ (w[i].op = "return" /\ v[i + 1].op = "return")
    BY <1>3 DEF After
  <2>2. t[i] = v[i + 1]
    BY <1>2, <1>3
  <2>. QED BY <2>1, <2>2 DEF Said
<1>5. Plan(w, m, p) = Plan(t, m, p)
  BY <1>2, <1>3, <1>4, PlanSame
<1>. QED BY <1>1, <1>5

\* A step that sends nothing is done.
LEMMA AfterQuiet ==
    ASSUME NEW v \in Seq(Steps), v # <<>>, NEW w \in Seq(Steps), After(v, w), NEW m, NEW p,
           Said(v[1], m, p) = <<>>
    PROVE  Plan(w, m, p) = Plan(v, m, p)
<1>1. Plan(v, m, p) = Cat(<<>>, Plan(w, m, p))
  BY AfterPlan
<1>2. Plan(w, m, p) \in Seq(Octets)
  BY PlanType
<1>. QED BY <1>1, <1>2, CatEmpty

\* The first of the steps v says nothing to this viewer, and w are the others.
Quietly(v, w, m, p) ==
    /\ v \in Seq(Steps) /\ v # <<>> /\ w \in Seq(Steps) /\ After(v, w)
    /\ Said(v[1], m, p) = <<>>

LEMMA QuietlyPlan ==
    \A v, w, m, p : Quietly(v, w, m, p) => Plan(w, m, p) = Plan(v, m, p)
BY AfterQuiet DEF Quietly

\* What the order of the steps asks for, it asks for of those that are left.
Turns(v, w) == v \in Seq(Steps) /\ v # <<>> /\ w \in Seq(Steps) /\ After(v, w)

LEMMA TurnsKept ==
    \A v, w : Turns(v, w) => /\ ViewerTurn(v) => ViewerTurn(w)
                             /\ PublisherTurn(v) => PublisherTurn(w)
BY AfterFacts DEF Turns

LEMMA TurnsPlan ==
    \A v, w, m, p : Turns(v, w) => Plan(v, m, p) = Cat(Said(v[1], m, p), Plan(w, m, p))
BY AfterPlan DEF Turns

\* The tail is what is left, also with a block for some returns in it.
LEMMA AfterTail ==
    ASSUME NEW S \in {ViewerSteps, PublisherSteps}, NEW v \in Seq(S), v # <<>>
    PROVE  /\ v \in Seq(Steps) /\ Tail(v) \in Seq(Steps) /\ After(v, Tail(v))
           /\ \A scope : \A block \in (0..MaxRequests) \X Nat :
                Lent(Tail(v), scope, block) \in Seq(Steps) /\ After(v, Lent(Tail(v), scope, block))
<1>1. /\ Tail(v) \in Seq(S) /\ Len(Tail(v)) = Len(v) - 1
      /\ DOMAIN Tail(v) = 1..(Len(v) - 1)
      /\ \A i \in 1..(Len(v) - 1) : Tail(v)[i] = v[i + 1]
  BY TailLemma
<1>2. \A q \in Seq(S) : q \in Seq(Steps)
  <2>1. S \subseteq Steps
    BY DEF Steps
  <2>. QED BY <2>1, SeqMonotonic
<1>. DEFINE t == Tail(v)
<1>3. After(v, t)
  BY <1>1 DEF After
<1>. HIDE DEF t
<1>4. ASSUME NEW scope, NEW block \in (0..MaxRequests) \X Nat
      PROVE  Lent(t, scope, block) \in Seq(Steps) /\ After(v, Lent(t, scope, block))
  <2>. DEFINE u == Lent(t, scope, block)
  <2>1. /\ u \in Seq(S) /\ Len(u) = Len(t)
        /\ \A i \in 1..Len(t) : u[i].op = t[i].op
    <3>1. t \in Seq(S)
      BY <1>1 DEF t
    <3>. QED BY <3>1, LentLemma
  <2>2. \A i \in DOMAIN t : u[i] = t[i] \/ t[i].op = "return"
    BY DEF Lent
  <2>3. /\ DOMAIN t = 1..(Len(v) - 1) /\ Len(t) = Len(v) - 1
        /\ \A i \in 1..(Len(v) - 1) : t[i] = v[i + 1]
    BY <1>1 DEF t
  <2>. HIDE DEF u
  <2>4. After(v, u)
    BY <2>1, <2>2, <2>3 DEF After
  <2>. QED BY <1>2, <2>1, <2>4 DEF u
<1>. QED BY <1>1, <1>2, <1>3, <1>4 DEF t

\* Steps before others.
LEMMA HasConcat ==
    ASSUME NEW u \in Seq(Steps), NEW v \in Seq(Steps)
    PROVE  /\ \A ops : Has(u \o v, ops) => Has(u, ops) \/ Has(v, ops)
           /\ Closes(u \o v) => Closes(u) \/ Closes(v)
           /\ \A ops, late : ~Has(u, late) /\ Before(v, ops, late) => Before(u \o v, ops, late)
           /\ \A ops, late : Before(u, ops, late) /\ ~Has(v, ops) => Before(u \o v, ops, late)
<1>1. /\ Len(u) \in Nat /\ Len(v) \in Nat /\ DOMAIN (u \o v) = 1..(Len(u) + Len(v))
      /\ \A i \in 1..Len(u) : (u \o v)[i] = u[i]
      /\ \A i \in 1..Len(v) : (u \o v)[Len(u) + i] = v[i]
      /\ DOMAIN u = 1..Len(u) /\ DOMAIN v = 1..Len(v)
  <2>1. /\ Len(u) \in Nat /\ Len(v) \in Nat /\ DOMAIN (u \o v) = 1..(Len(u) + Len(v))
        /\ \A i \in 1..Len(u) : (u \o v)[i] = u[i]
        /\ \A i \in 1..Len(v) : (u \o v)[Len(u) + i] = v[i]
    BY ConcatLemma
  <2>2. DOMAIN u = 1..Len(u) /\ DOMAIN v = 1..Len(v)
    BY LenProperties
  <2>. QED BY <2>1, <2>2
<1>. DEFINE w == u \o v
<1>. HIDE DEF w
<1>2. ASSUME NEW i \in DOMAIN w
      PROVE  \/ i \in DOMAIN u /\ w[i] = u[i]
             \/ i - Len(u) \in DOMAIN v /\ w[i] = v[i - Len(u)] /\ i > Len(u)
  <2>1. CASE i <= Len(u)
    BY <1>1, <2>1 DEF w
  <2>2. CASE ~(i <= Len(u))
    <3>1. i - Len(u) \in 1..Len(v) /\ i = Len(u) + (i - Len(u)) /\ i > Len(u)
      BY <1>1, <2>2 DEF w
    <3>2. w[Len(u) + (i - Len(u))] = v[i - Len(u)]
      BY <1>1, <3>1 DEF w
    <3>. QED BY <1>1, <3>1, <3>2
  <2>. QED BY <2>1, <2>2
<1>3. \A ops : Has(w, ops) => Has(u, ops) \/ Has(v, ops)
  BY <1>2 DEF Has
<1>4. Closes(w) => Closes(u) \/ Closes(v)
  BY <1>2 DEF Closes
<1>5. ASSUME NEW ops, NEW late, ~Has(u, late), Before(v, ops, late) PROVE Before(w, ops, late)
  <2>. SUFFICES ASSUME NEW i \in DOMAIN w, NEW j \in DOMAIN w,
                       w[i].op \in late, w[j].op \in ops
                PROVE  j <= i
    BY DEF Before
  <2>1. i - Len(u) \in DOMAIN v /\ w[i] = v[i - Len(u)] /\ i > Len(u)
    BY <1>2, <1>5 DEF Has
  <2>2. i \in Nat /\ j \in Nat
    BY <1>1 DEF w
  <2>3. CASE j \in DOMAIN u
    BY <1>1, <2>1, <2>2, <2>3
  <2>4. CASE j - Len(u) \in DOMAIN v /\ w[j] = v[j - Len(u)]
    <3>1. j - Len(u) <= i - Len(u)
      BY <1>5, <2>1, <2>4 DEF Before
    <3>. QED BY <1>1, <2>2, <3>1
  <2>. QED BY <1>2, <2>3, <2>4
<1>6. ASSUME NEW ops, NEW late, Before(u, ops, late), ~Has(v, ops) PROVE Before(w, ops, late)
  <2>. SUFFICES ASSUME NEW i \in DOMAIN w, NEW j \in DOMAIN w,
                       w[i].op \in late, w[j].op \in ops
                PROVE  j <= i
    BY DEF Before
  <2>1. j \in DOMAIN u /\ w[j] = u[j]
    BY <1>2, <1>6 DEF Has
  <2>2. i \in Nat /\ j \in Nat /\ j <= Len(u)
    BY <1>1, <2>1 DEF w
  <2>3. CASE i \in DOMAIN u /\ w[i] = u[i]
    BY <1>6, <2>1, <2>3 DEF Before
  <2>4. CASE i > Len(u)
    BY <1>1, <2>2, <2>4
  <2>. QED BY <1>2, <2>3, <2>4
<1>. QED BY <1>3, <1>4, <1>5, <1>6 DEF w

-----------------------------------------------------------------------------
(* What a handler sends                                                    *)

\* Steps of the kinds ops that send b, each write of them whole; one of them
\* closes the session only if c.
Part(u, b, ops, c) ==
    /\ u \in Seq(Steps) /\ b \in Seq(Octets) /\ \A m, p : Plan(u, m, p) = b
    /\ \A i \in DOMAIN u : /\ u[i].op \in ops
                           /\ u[i].op = "send" => Fresh(u[i]) /\ (u[i].is_close => c)

LEMMA PartConcat ==
    \A u, b, v, d, ops, c :
        Part(u, b, ops, c) /\ Part(v, d, ops, c) => Part(Cat(u, v), Cat(b, d), ops, c)
<1>. SUFFICES ASSUME NEW u, NEW b, NEW v, NEW d, NEW ops, NEW c,
                     Part(u, b, ops, c), Part(v, d, ops, c)
              PROVE  Part(u \o v, Cat(b, d), ops, c)
  BY DEF Cat
<1>1. u \in Seq(Steps) /\ v \in Seq(Steps) /\ b \in Seq(Octets) /\ d \in Seq(Octets)
  BY DEF Part
<1>2. u \o v \in Seq(Steps)
  BY <1>1, ConcatProperties
<1>3. Cat(b, d) \in Seq(Octets)
  BY <1>1, CatType
<1>4. ASSUME NEW m, NEW p PROVE Plan(u \o v, m, p) = Cat(b, d)
  <2>1. Plan(u, m, p) = b /\ Plan(v, m, p) = d
    BY DEF Part
  <2>. QED BY <1>1, <2>1, PlanConcat
<1>. DEFINE Good(e) == e.op \in ops /\ (e.op = "send" => Fresh(e) /\ (e.is_close => c))
<1>5. (\A i \in DOMAIN u : Good(u[i])) /\ (\A i \in DOMAIN v : Good(v[i]))
  BY DEF Part
<1>. HIDE DEF Good
<1>6. ASSUME NEW i \in DOMAIN (u \o v) PROVE Good((u \o v)[i])
  <2>1. /\ Len(u) \in Nat /\ Len(v) \in Nat /\ DOMAIN (u \o v) = 1..(Len(u) + Len(v))
        /\ \A j \in 1..Len(u) : (u \o v)[j] = u[j]
        /\ \A j \in 1..Len(v) : (u \o v)[Len(u) + j] = v[j]
    BY <1>1, ConcatLemma
  <2>2. DOMAIN u = 1..Len(u) /\ DOMAIN v = 1..Len(v)
    BY <1>1, LenProperties
  <2>3. CASE i <= Len(u)
    BY <1>5, <2>1, <2>2, <2>3
  <2>4. CASE ~(i <= Len(u))
    <3>1. i - Len(u) \in DOMAIN v /\ i = Len(u) + (i - Len(u))
      BY <2>1, <2>2, <2>4
    <3>2. (u \o v)[i] = v[i - Len(u)]
      BY <2>1, <2>2, <3>1
    <3>. QED BY <1>5, <3>1, <3>2
  <2>. QED BY <2>3, <2>4
<1>. QED BY <1>2, <1>3, <1>4, <1>6 DEF Part, Good

LEMMA PartEmpty ==
    \A ops, c : Part(<<>>, <<>>, ops, c)
<1>1. Silent(<<>>) /\ <<>> \in Seq(Steps) /\ <<>> \in Seq(Octets)
  BY DEF Silent
<1>2. \A m, p : Plan(<<>>, m, p) = <<>>
  BY <1>1, PlanSilent
<1>. QED BY <1>1, <1>2 DEF Part

\* A single step that sends nothing.
LEMMA PartOther ==
    ASSUME NEW e \in Steps, e.op \notin {"send", "call"}, NEW ops, e.op \in ops, NEW c
    PROVE  Part(<< e >>, <<>>, ops, c)
<1>1. /\ << e >> \in Seq(Steps) /\ DOMAIN << e >> = {1} /\ << e >>[1] = e
      /\ <<>> \in Seq(Octets)
  OBVIOUS
<1>2. Silent(<< e >>)
  BY <1>1 DEF Silent
<1>3. \A m, p : Plan(<< e >>, m, p) = <<>>
  BY <1>1, <1>2, PlanSilent
<1>. QED BY <1>1, <1>3 DEF Part

\* A single write.
LEMMA PartWrite ==
    ASSUME NEW e \in Writes, e.op = "send", Fresh(e), NEW ops, "send" \in ops,
           NEW c, e.is_close => c, NEW b, b = Bytes(e.name[1], e.name[2], e.size)
    PROVE  Part(<< e >>, b, ops, c)
<1>1. e \in Steps
  BY DEF Steps, ViewerSteps, WriteSteps
<1>2. << e >> \in Seq(Steps) /\ DOMAIN << e >> = {1} /\ << e >>[1] = e
  BY <1>1
<1>3. \A m, p : Said(e, m, p) = b
  BY DEF Said
<1>4. \A m, p : Plan(<< e >>, m, p) = b
  BY <1>1, <1>3, PlanOne
<1>5. b \in Seq(Octets)
  <2>1. /\ e.name[1] \in {"response", "header", "body", "size", "error"}
        /\ e.name[2] \in Scopes /\ e.size \in Nat
    BY DEF Writes
  <2>. QED BY <2>1, BytesType
<1>. QED BY <1>2, <1>4, <1>5 DEF Part

\* The writes that the handlers start are whole; one closes the session, or not.
LEMMA FreshWrite ==
    ASSUME NEW name \in {"response", "header", "body", "size", "error"}, NEW of \in Scopes,
           NEW size \in Nat, NEW mem \in {"stack", "pool", "packet", "config", "static"},
           NEW scope \in Scopes, NEW ops, "send" \in ops
    PROVE  /\ \A c : Part(<< Write(name, of, size, mem, scope, FALSE) >>,
                          Bytes(name, of, size), ops, c)
           /\ Part(<< Write(name, of, size, mem, scope, TRUE) >>,
                   Bytes(name, of, size), ops, TRUE)
<1>1. NoBlock \in (0..MaxRequests) \X Nat
  BY ConstantsAssumption DEF NoBlock
<1>2. ASSUME NEW e, e = Write(name, of, size, mem, scope, FALSE)
      PROVE  /\ e \in Writes /\ e.op = "send" /\ Fresh(e) /\ ~e.is_close
             /\ Bytes(e.name[1], e.name[2], e.size) = Bytes(name, of, size)
  BY <1>1, <1>2 DEF Write, Writes, Fresh
<1>3. ASSUME NEW e, e = Write(name, of, size, mem, scope, TRUE)
      PROVE  /\ e \in Writes /\ e.op = "send" /\ Fresh(e)
             /\ Bytes(e.name[1], e.name[2], e.size) = Bytes(name, of, size)
  BY <1>1, <1>3 DEF Write, Writes, Fresh
<1>. QED BY <1>2, <1>3, PartWrite

\* A step behind others; two and four of them.
LEMMA BehindLemma ==
    ASSUME NEW S, NEW s \in Seq(S), NEW x \in S
    PROVE  /\ s \o << x >> \in Seq(S) /\ Len(s \o << x >>) = Len(s) + 1
           /\ \A i \in 1..Len(s) : (s \o << x >>)[i] = s[i]
           /\ (s \o << x >>)[Len(s) + 1] = x
<1>. DEFINE t == << x >>
<1>1. t \in Seq(S) /\ Len(t) = 1 /\ t[1] = x
  OBVIOUS
<1>. HIDE DEF t
<1>2. /\ s \o t \in Seq(S) /\ Len(s \o t) = Len(s) + Len(t)
      /\ \A i \in 1..Len(s) : (s \o t)[i] = s[i]
      /\ \A i \in 1..Len(t) : (s \o t)[Len(s) + i] = t[i]
  BY <1>1, ConcatLemma
<1>. QED BY <1>1, <1>2 DEF t

LEMMA TwoLemma ==
    \A w, x : << w, x >> = Cat(<< w >>, << x >>)
<1>. SUFFICES ASSUME NEW w, NEW x PROVE << w, x >> = << w >> \o << x >>
  BY DEF Cat
<1>. DEFINE S == {w, x}
            a == << w >>
            b == a \o << x >>
            u == << w, x >>
<1>0. w \in S /\ x \in S
  OBVIOUS
<1>. HIDE DEF S
<1>1. a \in Seq(S) /\ Len(a) = 1 /\ a[1] = w
  BY <1>0
<1>2. u \in Seq(S) /\ Len(u) = 2 /\ u[1] = w /\ u[2] = x
  BY <1>0
<1>. HIDE DEF a, u
<1>3. b \in Seq(S) /\ Len(b) = 2 /\ b[1] = w /\ b[2] = x
  <2>1. /\ b \in Seq(S) /\ Len(b) = Len(a) + 1 /\ b[Len(a) + 1] = x
        /\ \A i \in 1..Len(a) : b[i] = a[i]
    <3>1. a \in Seq(S)
      BY <1>1
    <3>. QED BY <1>0, <3>1, BehindLemma
  <2>. HIDE DEF b
  <2>. QED BY <1>1, <2>1
<1>. HIDE DEF b
<1>4. \A i \in 1..2 : i = 1 \/ i = 2
  OBVIOUS
<1>5. u = b
  BY <1>2, <1>3, <1>4, SeqEqual
<1>. QED BY <1>5 DEF a, b, u

LEMMA FourLemma ==
    \A w, x, y, z : << w, x, y, z >> = Cat(Cat(Cat(<< w >>, << x >>), << y >>), << z >>)
<1>. SUFFICES ASSUME NEW w, NEW x, NEW y, NEW z
              PROVE  << w, x, y, z >> = ((<< w >> \o << x >>) \o << y >>) \o << z >>
  BY DEF Cat
<1>. DEFINE S == {w, x, y, z}
<1>0. w \in S /\ x \in S /\ y \in S /\ z \in S
  OBVIOUS
<1>. HIDE DEF S
<1>. DEFINE a == << w >>
            b == a \o << x >>
            c == b \o << y >>
            d == c \o << z >>
            u == << w, x, y, z >>
<1>1. a \in Seq(S) /\ Len(a) = 1 /\ a[1] = w
  BY <1>0
<1>2. /\ u \in Seq(S) /\ Len(u) = 4
      /\ u[1] = w /\ u[2] = x /\ u[3] = y /\ u[4] = z
  BY <1>0
<1>. HIDE DEF a, u
<1>3. b \in Seq(S) /\ Len(b) = 2 /\ b[1] = w /\ b[2] = x
  <2>1. /\ b \in Seq(S) /\ Len(b) = Len(a) + 1 /\ b[Len(a) + 1] = x
        /\ \A i \in 1..Len(a) : b[i] = a[i]
    <3>1. a \in Seq(S)
      BY <1>1
    <3>. QED BY <1>0, <3>1, BehindLemma
  <2>. HIDE DEF b
  <2>. QED BY <1>1, <2>1
<1>. HIDE DEF b
<1>4. c \in Seq(S) /\ Len(c) = 3 /\ c[1] = w /\ c[2] = x /\ c[3] = y
  <2>1. /\ c \in Seq(S) /\ Len(c) = Len(b) + 1 /\ c[Len(b) + 1] = y
        /\ \A i \in 1..Len(b) : c[i] = b[i]
    <3>1. b \in Seq(S)
      BY <1>3
    <3>. QED BY <1>0, <3>1, BehindLemma
  <2>. HIDE DEF c
  <2>. QED BY <1>3, <2>1
<1>. HIDE DEF c
<1>5. d \in Seq(S) /\ Len(d) = 4 /\ d[1] = w /\ d[2] = x /\ d[3] = y /\ d[4] = z
  <2>1. /\ d \in Seq(S) /\ Len(d) = Len(c) + 1 /\ d[Len(c) + 1] = z
        /\ \A i \in 1..Len(c) : d[i] = c[i]
    <3>1. c \in Seq(S)
      BY <1>4
    <3>. QED BY <1>0, <3>1, BehindLemma
  <2>. HIDE DEF d
  <2>. QED BY <1>4, <2>1
<1>. HIDE DEF d
<1>6. \A i \in 1..4 : i = 1 \/ i = 2 \/ i = 3 \/ i = 4
  OBVIOUS
<1>7. u = d
  BY <1>2, <1>5, <1>6, SeqEqual
<1>. QED BY <1>7 DEF a, b, c, d, u

\* write_flv: a tag, of whatever body it is given.
LEMMA WriteFlvPart ==
    ASSUME NEW of \in Scopes, NEW size \in Nat, NEW body \in Writes, body.op = "send", Fresh(body),
           Bytes(body.name[1], body.name[2], body.size) = Bytes("body", of, size), ~body.is_close,
           NEW ops, {"send", "return"} \subseteq ops, NEW cl
    PROVE  Part(write_flv(of, body), Tag(of, size), ops, cl)
<1>. DEFINE a == << Write("header", of, 1, "pool", of, FALSE) >>
            c == << Write("size", of, 1, "stack", of, FALSE) >>
            d == << Return(of) >>
            k == << body >>
            h == Bytes("header", of, 1)
            z == Bytes("size", of, 1)
            y == Bytes("body", of, size)
<1>1. Part(a, h, ops, cl) /\ Part(c, z, ops, cl)
  BY FreshWrite
<1>2. Part(d, <<>>, ops, cl)
  BY ReturnLemma, PartOther DEF Steps, ViewerSteps
<1>3. Part(k, y, ops, cl)
  BY PartWrite
<1>4. Tag(of, size) = Cat(Cat(h, y), z) /\ Tag(of, size) \in Seq(Octets)
  BY TagType
<1>5. write_flv(of, body) = Cat(Cat(Cat(a, k), c), d)
  <2>. DEFINE w1 == Write("header", of, 1, "pool", of, FALSE)
              w2 == Write("size", of, 1, "stack", of, FALSE)
              w3 == Return(of)
  <2>1. write_flv(of, body) = << w1, body, w2, w3 >>
    BY DEF write_flv
  <2>. HIDE DEF w1, w2, w3
  <2>2. << w1, body, w2, w3 >> = Cat(Cat(Cat(<< w1 >>, << body >>), << w2 >>), << w3 >>)
    BY FourLemma
  <2>. QED BY <2>1, <2>2 DEF w1, w2, w3
<1>. HIDE DEF a, c, d, k, h, z, y
<1>6. Part(Cat(Cat(Cat(a, k), c), d), Cat(Cat(Cat(h, y), z), <<>>), ops, cl)
  BY <1>1, <1>2, <1>3, PartConcat
<1>7. Cat(Cat(Cat(h, y), z), <<>>) = Tag(of, size)
  BY <1>4, CatEmpty
<1>. QED BY <1>5, <1>6, <1>7

\* send_response: the header, which may close the session, and nothing else,
LEMMA ResponsePart ==
    ASSUME NEW status \in {"200", "400", "405", "500"}, NEW r \in Nat,
           NEW ops, {"send", "return"} \subseteq ops
    PROVE  /\ \A c : Part(send_response(status, r, FALSE),
                          Bytes("response", <<status, r>>, 1), ops, c)
           /\ Part(send_response(status, r, TRUE), Bytes("response", <<status, r>>, 1), ops, TRUE)
<1>. DEFINE of == <<status, r>>
            a(cl) == << Write("response", of, 1, "stack", of, cl) >>
            d == << Return(of) >>
            h == Bytes("response", of, 1)
<1>1. of \in Scopes
  BY DEF Scopes
<1>2. \A cl : send_response(status, r, cl) = (a(cl) \o <<>>) \o d
  BY DEF send_response
<1>. HIDE DEF of
<1>3. Part(a(TRUE), h, ops, TRUE) /\ \A c : Part(a(FALSE), h, ops, c)
  BY <1>1, FreshWrite
<1>4. \A c : Part(d, <<>>, ops, c) /\ Part(<<>>, <<>>, ops, c)
  BY <1>1, ReturnLemma, PartOther, PartEmpty DEF Steps, ViewerSteps
<1>5. h \in Seq(Octets)
  BY <1>3 DEF Part
<1>. HIDE DEF a, d, h
<1>6. Cat(Cat(h, <<>>), <<>>) = h
  BY <1>5, CatEmpty
<1>7. \A c : Part(Cat(Cat(a(FALSE), <<>>), d), Cat(Cat(h, <<>>), <<>>), ops, c)
  BY <1>3, <1>4, PartConcat
<1>8. Part(Cat(Cat(a(TRUE), <<>>), d), Cat(Cat(h, <<>>), <<>>), ops, TRUE)
  BY <1>3, <1>4, PartConcat
<1>. QED BY <1>2, <1>6, <1>7, <1>8 DEF Cat, h, of

\* or the header and the body of a 404, both of which close it.
LEMMA NotFoundPart ==
    ASSUME NEW r \in Nat, NEW ops, {"send", "return"} \subseteq ops
    PROVE  Part(send_response("404", r, TRUE),
                Cat(Bytes("response", <<"404", r>>, 1), Bytes("body", <<"404", r>>, 1)), ops, TRUE)
<1>. DEFINE of == <<"404", r>>
            a == << Write("response", of, 1, "stack", of, TRUE) >>
            k == << Write("body", of, 1, "static", of, TRUE) >>
            d == << Return(of) >>
            h == Bytes("response", of, 1)
            y == Bytes("body", of, 1)
<1>1. of \in Scopes
  BY DEF Scopes
<1>2. send_response("404", r, TRUE) = (a \o k) \o d
  BY DEF send_response
<1>. HIDE DEF of
<1>3. Part(a, h, ops, TRUE) /\ Part(k, y, ops, TRUE)
  BY <1>1, FreshWrite
<1>4. Part(d, <<>>, ops, TRUE)
  BY <1>1, ReturnLemma, PartOther DEF Steps, ViewerSteps
<1>. HIDE DEF a, k, d, h, y
<1>5. Part(Cat(Cat(a, k), d), Cat(Cat(h, y), <<>>), ops, TRUE)
  BY <1>3, <1>4, PartConcat
<1>6. Cat(Cat(h, y), <<>>) = Cat(h, y)
  BY <1>3, CatType, CatEmpty DEF Part
<1>. QED BY <1>2, <1>5, <1>6 DEF Cat, h, y, of

\* The FLV header, and the script and config tags.
LEMMA HeadersPart ==
    ASSUME NEW r \in Nat, NEW ops, {"send", "return"} \subseteq ops, NEW cl,
           NEW u, u = << Write("header", <<"flv", r>>, 1, "pool", <<"flv", r>>, FALSE),
                         Write("size", <<"flv", r>>, 1, "stack", <<"flv", r>>, FALSE) >>
                      \o write_flv(<<"script", r>>, [Body(<<"script", r>>, 1, "stack")
                                                        EXCEPT !.scope = <<"flv", r>>])
                      \o write_flv(<<"config", r>>, Body(<<"config", r>>, 1, "config"))
    PROVE  Part(u, Cat(Cat(Cat(Bytes("header", <<"flv", r>>, 1), Bytes("size", <<"flv", r>>, 1)),
                           Tag(<<"script", r>>, 1)), Tag(<<"config", r>>, 1)), ops, cl)
<1>. DEFINE of == <<"flv", r>>
            sc == <<"script", r>>
            cf == <<"config", r>>
            w1 == Write("header", of, 1, "pool", of, FALSE)
            w2 == Write("size", of, 1, "stack", of, FALSE)
            x == [Body(sc, 1, "stack") EXCEPT !.scope = of]
            y == Body(cf, 1, "config")
            h == Bytes("header", of, 1)
            z == Bytes("size", of, 1)
<1>1. of \in Scopes /\ sc \in Scopes /\ cf \in Scopes
  BY DEF Scopes
<1>2. u = (<< w1, w2 >> \o write_flv(sc, x)) \o write_flv(cf, y)
  OBVIOUS
<1>. HIDE DEF of, sc, cf
<1>3. NoBlock \in (0..MaxRequests) \X Nat
  BY ConstantsAssumption DEF NoBlock
<1>4. /\ x \in Writes /\ x.op = "send" /\ Fresh(x) /\ ~x.is_close
      /\ Bytes(x.name[1], x.name[2], x.size) = Bytes("body", sc, 1)
  BY <1>1, <1>3 DEF Write, Writes, Fresh, Body
<1>5. /\ y \in Writes /\ y.op = "send" /\ Fresh(y) /\ ~y.is_close
      /\ Bytes(y.name[1], y.name[2], y.size) = Bytes("body", cf, 1)
  BY <1>1, <1>3 DEF Write, Writes, Fresh, Body
<1>6. Part(<< w1 >>, h, ops, cl) /\ Part(<< w2 >>, z, ops, cl)
  BY <1>1, FreshWrite
<1>. HIDE DEF w1, w2, x, y, h, z
<1>7. Part(write_flv(sc, x), Tag(sc, 1), ops, cl)
  BY <1>1, <1>4, WriteFlvPart
<1>8. Part(write_flv(cf, y), Tag(cf, 1), ops, cl)
  BY <1>1, <1>5, WriteFlvPart
<1>9. Part(Cat(<< w1 >>, << w2 >>), Cat(h, z), ops, cl)
  BY <1>6, PartConcat
<1>10. Part(Cat(Cat(Cat(<< w1 >>, << w2 >>), write_flv(sc, x)), write_flv(cf, y)),
            Cat(Cat(Cat(h, z), Tag(sc, 1)), Tag(cf, 1)), ops, cl)
  BY <1>7, <1>8, <1>9, PartConcat
<1>11. << w1, w2 >> = Cat(<< w1 >>, << w2 >>)
  BY TwoLemma
<1>12. u = Cat(Cat(<< w1, w2 >>, write_flv(sc, x)), write_flv(cf, y))
  BY <1>2 DEF Cat
<1>. QED BY <1>10, <1>11, <1>12 DEF h, z, of, sc, cf

\* Regrouping.
LEMMA CatGroups ==
    \A B : \A a, b, c, d \in Seq(B) :
        /\ Cat(Cat(a, Cat(b, c)), d) = Cat(Cat(a, b), Cat(c, d))
        /\ \A e \in Seq(B) :
             Cat(a, Cat(Cat(Cat(b, c), d), e)) = Cat(Cat(Cat(Cat(a, b), c), d), e)
<1>. SUFFICES ASSUME NEW B, NEW a \in Seq(B), NEW b \in Seq(B), NEW c \in Seq(B),
                     NEW d \in Seq(B)
              PROVE  /\ Cat(Cat(a, Cat(b, c)), d) = Cat(Cat(a, b), Cat(c, d))
                     /\ \A e \in Seq(B) :
                          Cat(a, Cat(Cat(Cat(b, c), d), e)) = Cat(Cat(Cat(Cat(a, b), c), d), e)
  OBVIOUS
<1>1. /\ Cat(b, c) \in Seq(B) /\ Cat(Cat(b, c), d) \in Seq(B) /\ Cat(a, b) \in Seq(B)
  BY CatType
<1>2. \A e \in Seq(B) : Cat(a, Cat(Cat(Cat(b, c), d), e)) = Cat(Cat(a, Cat(Cat(b, c), d)), e)
  BY <1>1, CatAssociative
<1>3. Cat(a, Cat(Cat(b, c), d)) = Cat(Cat(a, Cat(b, c)), d)
  BY <1>1, CatAssociative
<1>4. Cat(a, Cat(b, c)) = Cat(Cat(a, b), c)
  BY CatAssociative
<1>5. Cat(Cat(Cat(a, b), c), d) = Cat(Cat(a, b), Cat(c, d))
  BY <1>1, CatAssociative
<1>. QED BY <1>2, <1>3, <1>4, <1>5

\* The handler of a request that is given no muxer, or none that is started.
LEMMA AnswerPart ==
    ASSUME NEW kind \in Kinds \ {"flv"}, NEW r \in Nat, NEW start,
           NEW v, v = Handler(kind, r, start) \o << Do("do_read") >>
    PROVE  Part(v, Answer(kind, r), {"send", "return", "create", "do_read"}, TRUE)
<1>. DEFINE ops == {"send", "return", "create", "do_read"}
            P(u, b) == Part(u, b, ops, TRUE)
            dr == << Do("do_read") >>
            cr == << Do("create") >>
            R(status) == Bytes("response", <<status, r>>, 1)
<1>1. \A u, b, w, d : P(u, b) /\ P(w, d) => P(Cat(u, w), Cat(b, d))
  BY PartConcat
<1>2. P(dr, <<>>) /\ P(cr, <<>>)
  BY PartOther DEF Do, Steps, ViewerSteps
<1>3. \A b : (\E u : P(u, b)) => Cat(b, <<>>) = b /\ Cat(<<>>, b) = b
  BY CatEmpty DEF Part
<1>4. /\ P(send_response("400", r, TRUE), R("400")) /\ P(send_response("405", r, TRUE), R("405"))
      /\ P(send_response("500", r, TRUE), R("500")) /\ P(send_response("200", r, FALSE), R("200"))
      /\ P(send_response("404", r, TRUE), Cat(R("404"), Bytes("body", <<"404", r>>, 1)))
  BY ResponsePart, NotFoundPart
<1>5. v = Cat(Handler(kind, r, start), dr)
  BY DEF Cat
<1>. HIDE DEF P, dr, R, ops
<1>6. CASE kind = "unparsable"
  <2>1. Handler(kind, r, start) = send_response("400", r, TRUE) /\ Answer(kind, r) = R("400")
    BY <1>6 DEF Handler, Answer, R
  <2>2. P(Cat(send_response("400", r, TRUE), dr), Cat(R("400"), <<>>))
    BY <1>1, <1>2, <1>4
  <2>3. Cat(R("400"), <<>>) = R("400")
    BY <1>3, <1>4
  <2>. QED BY <1>5, <2>1, <2>2, <2>3 DEF P, ops
<1>7. CASE kind = "not GET"
  <2>1. Handler(kind, r, start) = send_response("405", r, TRUE) /\ Answer(kind, r) = R("405")
    BY <1>7 DEF Handler, Answer, R
  <2>2. P(Cat(send_response("405", r, TRUE), dr), Cat(R("405"), <<>>))
    BY <1>1, <1>2, <1>4
  <2>3. Cat(R("405"), <<>>) = R("405")
    BY <1>3, <1>4
  <2>. QED BY <1>5, <2>1, <2>2, <2>3 DEF P, ops
<1>8. CASE kind = "no source"
  <2>. DEFINE b == Cat(R("404"), Bytes("body", <<"404", r>>, 1))
  <2>1. Handler(kind, r, start) = send_response("404", r, TRUE) /\ Answer(kind, r) = b
    BY <1>8 DEF Handler, Answer, R, Cat
  <2>2. P(Cat(send_response("404", r, TRUE), dr), Cat(b, <<>>))
    BY <1>1, <1>2, <1>4
  <2>3. Cat(b, <<>>) = b
    BY <1>3, <1>4
  <2>. QED BY <1>5, <2>1, <2>2, <2>3 DEF P, ops
<1>9. CASE kind = "lost source"
  <2>1. /\ Handler(kind, r, start)
             = Cat(Cat(send_response("200", r, FALSE), cr), send_response("500", r, TRUE))
        /\ Answer(kind, r) = Cat(R("200"), R("500"))
    BY <1>9 DEF Handler, Answer, R, Cat
  <2>. HIDE DEF cr
  <2>2. P(Cat(Cat(Cat(send_response("200", r, FALSE), cr), send_response("500", r, TRUE)), dr),
          Cat(Cat(Cat(R("200"), <<>>), R("500")), <<>>))
    BY <1>1, <1>2, <1>4
  <2>3. Cat(R("200"), <<>>) = R("200")
    BY <1>3, <1>4
  <2>4. P(Cat(send_response("200", r, FALSE), send_response("500", r, TRUE)),
          Cat(R("200"), R("500")))
    BY <1>1, <1>4
  <2>5. Cat(Cat(R("200"), R("500")), <<>>) = Cat(R("200"), R("500"))
    BY <1>3, <2>4
  <2>. QED BY <1>5, <2>1, <2>2, <2>3, <2>5 DEF P, ops
<1>. QED BY <1>6, <1>7, <1>8, <1>9 DEF Kinds

\* The handler of a request that is answered with the broadcast: the muxer is
\* given its reader when all that start_muxing sends has been sent.
LEMMA MuxingPart ==
    ASSUME NEW r \in Nat, NEW start \in Nat,
           NEW v, v = Handler("flv", r, start) \o << Do("do_read") >>
    PROVE  /\ Part(v, Answer("flv", r), {"send", "return", "create", "regist", "do_read"}, FALSE)
           /\ Before(v, {"send", "create", "regist"}, {"regist"})
<1>. DEFINE early == {"send", "create", "regist"}
            some == {"send", "return", "create"}
            ops == {"send", "return", "create", "regist", "do_read"}
            of == <<"flv", r>>
            w1 == Write("header", of, 1, "pool", of, FALSE)
            w2 == Write("size", of, 1, "stack", of, FALSE)
            X == << w1, w2 >>
                 \o write_flv(<<"script", r>>,
                              [Body(<<"script", r>>, 1, "stack") EXCEPT !.scope = of])
                 \o write_flv(<<"config", r>>, Body(<<"config", r>>, 1, "config"))
            g == With("regist", start)
            d == Return(of)
            G == Cat(<< g >>, << d >>)
            D == << Do("do_read") >>
            C == << Do("create") >>
            A == send_response("200", r, FALSE)
            R == Bytes("response", <<"200", r>>, 1)
            H == Bytes("header", of, 1)
            Z == Bytes("size", of, 1)
            T1 == Tag(<<"script", r>>, 1)
            T2 == Tag(<<"config", r>>, 1)
            M == Cat(Cat(Cat(H, Z), T1), T2)
<1>1. v = Cat(Cat(Cat(A, C), Cat(X, G)), D)
  <2>1. Handler("flv", r, start) = (A \o C) \o start_muxing(r, start)
    BY DEF Handler
  <2>2. << g, d >> = G
    BY TwoLemma
  <2>3. start_muxing(r, start) = X \o << g, d >>
    BY DEF start_muxing
  <2>. HIDE DEF A, C, X, G, D, g, d
  <2>. QED BY <2>1, <2>2, <2>3 DEF Cat, D
<1>2. of \in Scopes
  BY DEF Scopes
<1>3. Answer("flv", r) = Cat(Cat(Cat(Cat(R, H), Z), T1), T2)
  BY DEF Answer, Cat
<1>4. g \in Steps /\ g.op = "regist" /\ d \in Steps /\ d.op = "return"
  <2>1. d \in WriteSteps /\ d.op = "return"
    BY <1>2, ReturnLemma
  <2>. QED BY <2>1 DEF With, Steps, ViewerSteps
<1>5. Do("do_read") \in Steps /\ Do("create") \in Steps
  BY DEF Do, Steps, ViewerSteps
<1>6. \A o : {"send", "return"} \subseteq o => Part(A, R, o, FALSE)
  BY ResponsePart
<1>7. \A o : {"send", "return"} \subseteq o => Part(X, M, o, FALSE)
  BY HeadersPart
<1>8. Part(C, <<>>, ops, FALSE) /\ Part(C, <<>>, some, FALSE) /\ Part(D, <<>>, ops, FALSE)
  BY <1>5, PartOther DEF Do
<1>9. Part(<< g >>, <<>>, ops, FALSE) /\ Part(<< d >>, <<>>, ops, FALSE)
  BY <1>4, PartOther
<1>10. g.op \in {"regist"} /\ DOMAIN << g >> = {1} /\ DOMAIN << d >> = {1} /\ DOMAIN D = {1}
       /\ << d >>[1] = d /\ D[1] = Do("do_read") /\ Do("do_read").op = "do_read"
  BY <1>4 DEF Do
<1>11. Before(<< g >>, early, {"regist"}) /\ ~Has(<< d >>, early) /\ ~Has(D, early)
  BY <1>4, <1>10 DEF Before, Has
<1>12. \A b \in Seq(Octets) : Cat(b, <<>>) = b /\ Cat(<<>>, b) = b
  BY CatEmpty
<1>. HIDE DEF X, g, d, D, C, A, R, H, Z, T1, T2, w1, w2, of
<1>13. /\ Part(A, R, ops, FALSE) /\ Part(X, M, ops, FALSE)
       /\ Part(A, R, some, FALSE) /\ Part(X, M, some, FALSE)
  BY <1>6, <1>7
<1>14. Part(Cat(Cat(A, C), X), Cat(Cat(R, <<>>), M), some, FALSE)
  BY <1>8, <1>13, PartConcat
<1>15. Part(v, Cat(Cat(Cat(R, <<>>), Cat(M, Cat(<<>>, <<>>))), <<>>), ops, FALSE)
  <2>1. Part(G, Cat(<<>>, <<>>), ops, FALSE)
    BY <1>9, PartConcat
  <2>. HIDE DEF G, M, ops
  <2>2. Part(Cat(A, C), Cat(R, <<>>), ops, FALSE)
    BY <1>8, <1>13, PartConcat
  <2>3. Part(Cat(X, G), Cat(M, Cat(<<>>, <<>>)), ops, FALSE)
    BY <1>13, <2>1, PartConcat
  <2>4. Part(Cat(Cat(A, C), Cat(X, G)), Cat(Cat(R, <<>>), Cat(M, Cat(<<>>, <<>>))), ops, FALSE)
    BY <2>2, <2>3, PartConcat
  <2>. QED BY <1>1, <1>8, <2>4, PartConcat
<1>16. Cat(Cat(Cat(R, <<>>), Cat(M, Cat(<<>>, <<>>))), <<>>) = Answer("flv", r)
  <2>1. R \in Seq(Octets) /\ M \in Seq(Octets) /\ <<>> \in Seq(Octets)
    BY <1>13 DEF Part
  <2>2. H \in Seq(Octets) /\ Z \in Seq(Octets) /\ T1 \in Seq(Octets) /\ T2 \in Seq(Octets)
    <3>1. <<"script", r>> \in Scopes /\ <<"config", r>> \in Scopes
      BY DEF Scopes
    <3>. QED BY <1>2, <3>1, BytesType, TagType DEF H, Z, T1, T2
  <2>3. Cat(R, M) = Answer("flv", r)
    BY <1>3, <2>1, <2>2, CatGroups
  <2>. HIDE DEF M
  <2>4. Cat(R, M) \in Seq(Octets)
    BY <2>1, CatType
  <2>5. Cat(R, <<>>) = R /\ Cat(<<>>, <<>>) = <<>> /\ Cat(M, <<>>) = M
    BY <1>12, <2>1
  <2>6. Cat(Cat(R, M), <<>>) = Cat(R, M)
    BY <1>12, <2>4
  <2>. QED BY <2>3, <2>5, <2>6
<1>17. Before(v, early, {"regist"})
  <2>. DEFINE U == Cat(Cat(A, C), X)
              V == Cat(G, D)
  <2>1. << g >> \in Seq(Steps) /\ << d >> \in Seq(Steps) /\ D \in Seq(Steps)
        /\ A \in Seq(Steps) /\ C \in Seq(Steps) /\ X \in Seq(Steps)
    BY <1>8, <1>9, <1>13 DEF Part
  <2>2. Before(G, early, {"regist"})
    BY <1>11, <2>1, HasConcat DEF Cat
  <2>3. G \in Seq(Steps) /\ Cat(A, C) \in Seq(Steps) /\ U \in Seq(Steps)
    BY <2>1, CatType
  <2>. HIDE DEF G
  <2>4. Before(V, early, {"regist"})
    BY <1>11, <2>1, <2>2, <2>3, HasConcat DEF Cat
  <2>5. ~Has(U, {"regist"})
    BY <1>14 DEF Part, Has
  <2>6. V \in Seq(Steps)
    BY <2>1, <2>3, CatType
  <2>7. v = Cat(U, V)
    <3>. DEFINE Q == Cat(A, C)
    <3>1. Q \in Seq(Steps) /\ X \in Seq(Steps) /\ G \in Seq(Steps) /\ D \in Seq(Steps)
      BY <2>1, <2>3
    <3>. HIDE DEF Q
    <3>2. Cat(Cat(Q, Cat(X, G)), D) = Cat(Cat(Q, X), Cat(G, D))
      BY <3>1, CatGroups
    <3>. QED BY <1>1, <3>2 DEF Q
  <2>. HIDE DEF U, V
  <2>. QED BY <2>3, <2>4, <2>5, <2>6, <2>7, HasConcat DEF Cat
<1>. QED BY <1>15, <1>16, <1>17

\* A request's handler sends the answer, in order, and either closes the
\* session or gives the muxer its reader.
LEMMA HandlerLemma ==
    ASSUME NEW kind \in Kinds, NEW r \in Nat, NEW start \in Nat,
           NEW v, v = Handler(kind, r, start) \o << Do("do_read") >>
    PROVE  /\ v \in Seq(Steps) /\ ViewerTurn(v) /\ \A m, p : Plan(v, m, p) = Answer(kind, r)
           /\ Answer(kind, r) \in Seq(Octets)
           /\ Closes(v) => ~Has(v, {"regist"})
<1>1. CASE kind = "flv"
  <2>1. /\ Part(v, Answer("flv", r), {"send", "return", "create", "regist", "do_read"}, FALSE)
        /\ Before(v, {"send", "create", "regist"}, {"regist"})
    BY <1>1, MuxingPart
  <2>2. ~Closes(v)
    BY <2>1 DEF Part, Closes
  <2>. QED BY <1>1, <2>1, <2>2 DEF Part, ViewerTurn
<1>2. CASE kind # "flv"
  <2>1. Part(v, Answer(kind, r), {"send", "return", "create", "do_read"}, TRUE)
    BY <1>2, AnswerPart
  <2>2. ~Has(v, {"regist"})
    BY <2>1 DEF Part, Has
  <2>3. Before(v, {"send", "create", "regist"}, {"regist"})
    BY <2>2 DEF Before, Has
  <2>. QED BY <2>1, <2>2, <2>3 DEF Part, ViewerTurn
<1>. QED BY <1>1, <1>2

\* The calls of the viewer's reader send the tags of the packets that it wants,
LEMMA CallsPlan ==
    ASSUME NEW pkts \in Seq(Packets), NEW m, pkts # <<>> => m \in 1..MaxRequests, NEW p
    PROVE  /\ Calls(m, pkts) \in Seq(Steps) /\ Plan(Calls(m, pkts), m, p) = WantedBy(pkts, m, p)
           /\ \A ops : "call" \notin ops => ~Has(Calls(m, pkts), ops)
<1>. DEFINE c == Calls(m, pkts)
            x(i) == IF pkts[i].time_stamp >= p[m]
                    THEN Tag(<<"tag", pkts[i].time_stamp>>, pkts[i].size) ELSE <<>>
<1>1. /\ DOMAIN pkts = 1..Len(pkts) /\ \A i \in DOMAIN pkts : pkts[i] \in Packets
  BY LenProperties, ElementOfSeq
<1>2. c \in Seq(Steps)
  <2>1. c \in Seq(LoopSteps)
    BY CallsLemma
  <2>2. LoopSteps \subseteq Steps
    BY DEF Steps, PublisherSteps
  <2>. QED BY <2>1, <2>2, SeqMonotonic
<1>3. /\ DOMAIN c = DOMAIN pkts
      /\ \A i \in DOMAIN pkts : /\ c[i].op = "call" /\ c[i].arg.muxer = m
                                /\ c[i].arg.pkt = pkts[i]
  BY DEF Calls, With
<1>. HIDE DEF c
<1>4. ASSUME NEW i \in DOMAIN pkts PROVE Said(c[i], m, p) = x(i)
  <2>1. Said(c[i], m, p) = WantedBy(<< pkts[i] >>, m, p)
    BY <1>3 DEF Said
  <2>. QED BY <1>1, <2>1, WantedOne
<1>. DEFINE s(i) == Said(c[i], m, p)
<1>5. \A i \in DOMAIN pkts : s(i) = x(i)
  BY <1>4
<1>. HIDE DEF s, x
<1>6. [i \in DOMAIN c |-> s(i)] = [i \in DOMAIN pkts |-> x(i)]
  BY <1>3, <1>5
<1>7. Plan(c, m, p) = WantedBy(pkts, m, p)
  BY <1>6 DEF Plan, WantedBy, s, x
<1>8. \A ops : "call" \notin ops => ~Has(c, ops)
  BY <1>3 DEF Has
<1>. QED BY <1>2, <1>7, <1>8 DEF c

\* those of readers that leave() left behind nothing.
LEMMA OrphansPlan ==
    ASSUME Inv, muxer \notin orphans, NEW pkt \in Packets, NEW p
    PROVE  /\ OrphanCalls(pkt) \in Seq(Steps) /\ Plan(OrphanCalls(pkt), muxer, p) = <<>>
           /\ \A ops : "call" \notin ops => ~Has(OrphanCalls(pkt), ops)
           /\ orphans = {} => OrphanCalls(pkt) = <<>>
<1>. DEFINE c == OrphanCalls(pkt)
            ms == SetToSeq(orphans)
            n == Cardinality(orphans)
<1>1. c \in Seq(Steps)
  <2>1. c \in Seq(LoopSteps)
    BY OrphanLemma
  <2>2. LoopSteps \subseteq Steps
    BY DEF Steps, PublisherSteps
  <2>. QED BY <2>1, <2>2, SeqMonotonic
<1>2. IsFiniteSet(orphans) /\ n \in Nat
  <2>1. IsFiniteSet(1..MaxRequests)
    BY FS_Interval, ConstantsAssumption
  <2>. QED BY <2>1, RestFacts, FS_Subset, FS_CardinalityType DEF RestOK
<1>3. \E f \in [1..n -> orphans] : IsInjective(f)
  <2>1. ExistsBijection(1..n, orphans)
    BY <1>2, FS_CardinalityType
  <2>. QED BY <2>1 DEF ExistsBijection, Bijection, Injection
<1>4. ms \in [1..n -> orphans]
  BY <1>3 DEF SetToSeq
<1>5. /\ DOMAIN c = 1..n
      /\ \A i \in 1..n : c[i].op = "call" /\ c[i].arg.muxer \in orphans
  BY <1>4 DEF OrphanCalls, With
<1>6. orphans = {} => n = 0
  BY FS_EmptySet
<1>. HIDE DEF c, ms, n
<1>7. \A i \in DOMAIN c : Said(c[i], muxer, p) = <<>>
  BY <1>5 DEF Said
<1>8. Plan(c, muxer, p) = <<>>
  BY <1>1, <1>7, PlanNothing
<1>9. \A ops : "call" \notin ops => ~Has(c, ops)
  BY <1>5 DEF Has
<1>10. orphans = {} => c = <<>>
  <2>1. orphans = {} => DOMAIN c = {}
    BY <1>5, <1>6
  <2>. QED BY <1>1, <2>1
<1>. QED BY <1>1, <1>8, <1>9, <1>10 DEF c

\* read_cb: the tag of the packet.
LEMMA TagPart ==
    ASSUME NEW pkt \in Packets, NEW of, of = <<"tag", pkt.time_stamp>>,
           NEW u, u = write_flv(of, Body(of, pkt.size, "packet")) \o << Do("release") >>
    PROVE  Part(u, Tag(of, pkt.size), {"send", "return", "release"}, FALSE)
<1>. DEFINE ops == {"send", "return", "release"}
            b == Body(of, pkt.size, "packet")
<1>1. of \in Scopes /\ pkt.size \in Nat
  BY PacketFacts
<1>2. NoBlock \in (0..MaxRequests) \X Nat
  BY ConstantsAssumption DEF NoBlock
<1>3. /\ b \in Writes /\ b.op = "send" /\ Fresh(b) /\ ~b.is_close
      /\ Bytes(b.name[1], b.name[2], b.size) = Bytes("body", of, pkt.size)
  BY <1>1, <1>2 DEF Write, Writes, Fresh, Body
<1>. HIDE DEF b
<1>4. Part(write_flv(of, b), Tag(of, pkt.size), ops, FALSE)
  BY <1>1, <1>3, WriteFlvPart
<1>5. Part(<< Do("release") >>, <<>>, ops, FALSE)
  BY PartOther DEF Do, Steps, PublisherSteps
<1>6. Part(Cat(write_flv(of, b), << Do("release") >>), Cat(Tag(of, pkt.size), <<>>), ops, FALSE)
  BY <1>4, <1>5, PartConcat
<1>7. Cat(Tag(of, pkt.size), <<>>) = Tag(of, pkt.size)
  BY <1>4, CatEmpty DEF Part
<1>. QED BY <1>6, <1>7 DEF Cat, b

-----------------------------------------------------------------------------
(* What is due, and in which order                                         *)

\* The two cases of OneAtATime: the viewer has no reader yet, or has it.
Unread ==
    /\ reader = "none" /\ orphans = {} /\ ~Has(todo["publisher"], {"send", "call"})
    /\ Closes(todo["viewer"]) \/ Closes(posted) => ~Has(todo["viewer"], {"regist"})
    /\ requests = 0 => ~Closes(posted)

Announced ==
    requests # 0 /\ ~Has(todo["viewer"], {"send", "create", "regist"}) /\ ~Closes(posted)

NoError(q) == \A i \in DOMAIN q : ~q[i].ec

\* What is still to be sent.
Left(s) == Plan(todo[s], muxer, start_pts)

Open == ~split /\ life = "open"

\* DeliveryInv and AnsweredInFull, by the two strands.
Delivery ==
    /\ ViewerTurn(todo["viewer"]) /\ PublisherTurn(todo["publisher"]) /\ MuxersInOrder
    /\ ~split => ~garbled /\ "cut off" \notin fate
    /\ Open => /\ cpus > 1 => Unread \/ Announced
               /\ NoError(posted)
               /\ due = Cat(Left("viewer"), Left("publisher"))

LEMMA DeliveryLemma ==
    Delivery <=> DeliveryInv /\ AnsweredInFull
<1>1. OneAtATime <=> Unread \/ Announced
  BY DEF OneAtATime, Unread, Announced, Has, Pending
<1>2. /\ ToSend(todo["viewer"]) = Left("viewer")
      /\ ToSend(todo["publisher"]) = Left("publisher")
  BY DEF ToSend, Sends, Wanted, Left, Plan, Said, WantedBy
<1>. HIDE DEF OneAtATime, Unread, Announced
<1>. QED BY <1>1, <1>2, TurnLemma DEF Delivery, DeliveryInv, AnsweredInFull, Open, NoError, Cat

LEMMA TodoSteps ==
    ASSUME Inv
    PROVE  /\ todo["viewer"] \in Seq(Steps) /\ todo["publisher"] \in Seq(Steps)
           /\ Left("viewer") \in Seq(Octets) /\ Left("publisher") \in Seq(Octets)
           /\ ~Has(todo["viewer"], {"call"})
           /\ cpus \in Nat /\ (cpus = 1 \/ cpus > 1)
<1>1. todo["viewer"] \in Seq(Steps) /\ todo["publisher"] \in Seq(Steps)
  <2>1. ViewerSteps \subseteq Steps /\ PublisherSteps \subseteq Steps
    BY DEF Steps
  <2>. QED BY <2>1, TodoFacts, SeqMonotonic
<1>2. Left("viewer") \in Seq(Octets) /\ Left("publisher") \in Seq(Octets)
  BY <1>1, PlanType DEF Left
<1>3. ~Has(todo["viewer"], {"call"})
  <2>1. \A i \in DOMAIN todo["viewer"] : todo["viewer"][i] \in ViewerSteps
    BY TodoFacts, ElementOfSeq
  <2>. QED BY <2>1, ViewerKinds DEF Has
<1>4. cpus \in 1..MaxCpus /\ MaxCpus \in Nat
  BY ConstantsAssumption DEF Inv, ConnectionInv, TypeOK
<1>. QED BY <1>1, <1>2, <1>3, <1>4

\* A strand whose steps have no write and no call sends nothing.
LEMMA QuietLemma ==
    ASSUME NEW v \in Seq(Steps), ~Has(v, {"send", "call"}), NEW m, NEW p
    PROVE  Plan(v, m, p) = <<>>
BY PlanSilent DEF Silent, Has

\* Until the viewer has a reader nothing that the publisher does is for it.
LEMMA QuietPublisher ==
    ASSUME Inv, cpus = 1 => todo["publisher"] = <<>>, cpus > 1 => Unread
    PROVE  /\ ~Has(todo["publisher"], {"send", "call"})
           /\ \A m, p : Plan(todo["publisher"], m, p) = <<>>
<1>1. ~Has(todo["publisher"], {"send", "call"})
  <2>1. CASE cpus = 1
    BY <2>1 DEF Has
  <2>2. CASE cpus > 1
    BY <2>2 DEF Unread
  <2>. QED BY <2>1, <2>2, TodoSteps
<1>. QED BY <1>1, TodoSteps, QuietLemma

-----------------------------------------------------------------------------
(* Steps that send nothing                                                 *)

\* The muxers, if no request creates one.
LEMMA SameMuxers ==
    ASSUME Delivery, Has(todo'["viewer"], {"create"}) => Has(todo["viewer"], {"create"}),
           UNCHANGED <<muxer, requests>>, orphans' \subseteq orphans
    PROVE  MuxersInOrder'
<1>1. CreatePending <=> Has(todo["viewer"], {"create"})
  BY DEF CreatePending, Has
<1>2. CreatePending' <=> Has(todo'["viewer"], {"create"})
  BY DEF CreatePending, Has
<1>3. MuxersInOrder
  BY DEF Delivery
<1>. QED BY <1>1, <1>2, <1>3 DEF MuxersInOrder

\* What a step does that neither sends nor finds the viewer another muxer.
LEMMA KeepOrder ==
    ASSUME Inv, Delivery,
           ViewerTurn(todo'["viewer"]), PublisherTurn(todo'["publisher"]),
           \A ops : Has(todo'["viewer"], ops) => Has(todo["viewer"], ops),
           Closes(todo'["viewer"]) => Closes(todo["viewer"]),
           Has(todo'["publisher"], {"send", "call"}) => Has(todo["publisher"], {"send", "call"}),
           UNCHANGED <<cpus, muxer, requests, start_pts>>,
           orphans' \subseteq orphans, reader = "none" => reader' = "none",
           Closes(posted') => Closes(posted), NoError(posted) => NoError(posted'),
           life' = life, ~split' => ~split, garbled' = garbled,
           "cut off" \in fate' => "cut off" \in fate,
           Open => due' = due,
           Plan(todo'["viewer"], muxer, start_pts) = Left("viewer"),
           Plan(todo'["publisher"], muxer, start_pts) = Left("publisher")
    PROVE  Delivery'
<1>1. MuxersInOrder'
  BY SameMuxers
<1>2. ~split' => ~garbled' /\ "cut off" \notin fate'
  BY DEF Delivery
<1>3. ASSUME Open'
      PROVE  /\ (cpus > 1 => Unread \/ Announced)' /\ NoError(posted')
             /\ due' = Cat(Left("viewer")', Left("publisher")')
  <2>1. /\ cpus > 1 => Unread \/ Announced
        /\ NoError(posted) /\ due = Cat(Left("viewer"), Left("publisher")) /\ due' = due
    BY <1>3 DEF Open, Delivery
  <2>2. Unread => Unread'
    BY DEF Unread
  <2>3. Announced => Announced'
    BY DEF Announced
  <2>4. Left("viewer")' = Left("viewer") /\ Left("publisher")' = Left("publisher")
    <3>1. /\ Left("viewer")' = Plan(todo'["viewer"], muxer', start_pts')
          /\ Left("publisher")' = Plan(todo'["publisher"], muxer', start_pts')
      BY DEF Left
    <3>2. muxer' = muxer /\ start_pts' = start_pts
      OBVIOUS
    <3>. QED BY <3>1, <3>2
  <2>5. cpus' = cpus /\ NoError(posted')
    BY <2>1
  <2>. QED BY <2>1, <2>2, <2>3, <2>4, <2>5
<1>. QED BY <1>1, <1>2, <1>3 DEF Delivery

\* The session is not open, or a write not taken whole, after the step.
LEMMA KeepClosed ==
    ASSUME ~Open', ViewerTurn(todo'["viewer"]), PublisherTurn(todo'["publisher"]), MuxersInOrder',
           ~split' => ~garbled' /\ "cut off" \notin fate'
    PROVE  Delivery'
BY DEF Delivery

\* Neither handler goes on.
LEMMA KeepIdle ==
    ASSUME Inv, Delivery, todo' = todo, UNCHANGED <<cpus, muxer, requests, start_pts>>,
           orphans' \subseteq orphans, reader = "none" => reader' = "none",
           Closes(posted') => Closes(posted), NoError(posted) => NoError(posted'),
           life' = life, split' = split, garbled' = garbled, fate' = fate, due' = due
    PROVE  Delivery'
<1>1. ViewerTurn(todo["viewer"]) /\ PublisherTurn(todo["publisher"])
  BY DEF Delivery
<1>2. /\ Plan(todo'["viewer"], muxer, start_pts) = Left("viewer")
      /\ Plan(todo'["publisher"], muxer, start_pts) = Left("publisher")
  BY DEF Left
<1>. QED BY <1>1, <1>2, KeepOrder

\* What a strand does that says nothing: it goes on with the rest of its steps.
LEMMA QuietStep ==
    ASSUME Inv, Delivery, NEW s \in Strands, todo[s] # <<>>, todo'[s] \in Seq(Steps),
           After(todo[s], todo'[s]), \A t \in Strands \ {s} : todo'[t] = todo[t],
           Said(todo[s][1], muxer, start_pts) = <<>>,
           UNCHANGED <<cpus, muxer, requests, start_pts, orphans>>,
           reader = "none" => reader' = "none",
           Closes(posted') => Closes(posted), NoError(posted) => NoError(posted'),
           life' = life, ~split' => ~split, garbled' = garbled,
           "cut off" \in fate' => "cut off" \in fate, Open => due' = due
    PROVE  Delivery'
<1>1. /\ todo["viewer"] \in Seq(Steps) /\ todo["publisher"] \in Seq(Steps)
      /\ ViewerTurn(todo["viewer"]) /\ PublisherTurn(todo["publisher"])
  BY TodoSteps DEF Delivery
<1>2. todo[s] \in Seq(Steps)
  BY <1>1 DEF Strands
<1>3. Plan(todo'[s], muxer, start_pts) = Left(s)
  <2>1. Quietly(todo[s], todo'[s], muxer, start_pts)
    BY <1>2 DEF Quietly
  <2>2. Plan(todo'[s], muxer, start_pts) = Plan(todo[s], muxer, start_pts)
    BY ONLY <2>1, QuietlyPlan
  <2>3. Left(s) = Plan(todo[s], muxer, start_pts)
    BY DEF Left
  <2>. QED BY <2>2, <2>3
<1>4. /\ ViewerTurn(todo[s]) => ViewerTurn(todo'[s])
      /\ PublisherTurn(todo[s]) => PublisherTurn(todo'[s])
      /\ Closes(todo'[s]) => Closes(todo[s])
      /\ \A ops : Has(todo'[s], ops) => Has(todo[s], ops)
  BY <1>2, AfterFacts
<1>5. CASE s = "viewer"
  <2>1. todo'["publisher"] = todo["publisher"]
    BY <1>5 DEF Strands
  <2>2. /\ Plan(todo'["viewer"], muxer, start_pts) = Left("viewer")
        /\ Plan(todo'["publisher"], muxer, start_pts) = Left("publisher")
        /\ ViewerTurn(todo'["viewer"]) /\ PublisherTurn(todo'["publisher"])
        /\ \A ops : Has(todo'["viewer"], ops) => Has(todo["viewer"], ops)
        /\ Closes(todo'["viewer"]) => Closes(todo["viewer"])
        /\ Has(todo'["publisher"], {"send", "call"}) => Has(todo["publisher"], {"send", "call"})
    BY <1>1, <1>3, <1>4, <1>5, <2>1 DEF Left
  <2>. QED BY <2>2, KeepOrder
<1>6. CASE s = "publisher"
  <2>1. todo'["viewer"] = todo["viewer"]
    BY <1>6 DEF Strands
  <2>2. /\ Plan(todo'["viewer"], muxer, start_pts) = Left("viewer")
        /\ Plan(todo'["publisher"], muxer, start_pts) = Left("publisher")
        /\ ViewerTurn(todo'["viewer"]) /\ PublisherTurn(todo'["publisher"])
        /\ \A ops : Has(todo'["viewer"], ops) => Has(todo["viewer"], ops)
        /\ Closes(todo'["viewer"]) => Closes(todo["viewer"])
        /\ Has(todo'["publisher"], {"send", "call"}) => Has(todo["publisher"], {"send", "call"})
    BY <1>1, <1>3, <1>4, <1>6, <2>1 DEF Left
  <2>. QED BY <2>2, KeepOrder
<1>. QED BY <1>5, <1>6 DEF Strands

\* Freed memory changes neither errors nor who closes.
LEMMA FreedKeeps ==
    ASSUME NEW q \in Seq(Writes), NEW dead, NEW r, r = Freed(q, dead)
    PROVE  (Closes(r) => Closes(q)) /\ (NoError(q) => NoError(r))
<1>1. DOMAIN r = DOMAIN q
  BY DEF Freed
<1>2. ASSUME NEW i \in DOMAIN q
      PROVE  r[i].is_close = q[i].is_close /\ r[i].ec = q[i].ec /\ r[i].op = q[i].op
  <2>1. q[i] \in Writes
    BY ElementOfSeq, LenProperties
  <2>2. r[i] = q[i] \/ r[i] = [q[i] EXCEPT !.mem = "dead"]
    BY DEF Freed
  <2>. QED BY <2>1, <2>2 DEF Writes
<1>. QED BY <1>1, <1>2 DEF Closes, NoError

\* The steps of a strand, and its first.
LEMMA StrandSteps ==
    ASSUME Inv, NEW s \in Strands, todo[s] # <<>>
    PROVE  /\ todo[s] \in Seq(Steps) /\ Head(todo[s]) = todo[s][1] /\ todo[s][1] \in Steps
           /\ Tail(todo[s]) \in Seq(Steps) /\ After(todo[s], Tail(todo[s]))
           /\ \E S \in {ViewerSteps, PublisherSteps} : todo[s] \in Seq(S)
           /\ \A steps : Goes(s, steps) => /\ todo'[s] = steps \o Tail(todo[s])
                                           /\ \A t \in Strands \ {s} : todo'[t] = todo[t]
           /\ \A steps : steps = <<>> => steps \o Tail(todo[s]) = Tail(todo[s])
<1>1. \E S \in {ViewerSteps, PublisherSteps} : todo[s] \in Seq(S)
  BY TodoFacts DEF Strands
<1>2. PICK S \in {ViewerSteps, PublisherSteps} : todo[s] \in Seq(S)
  BY <1>1
<1>3. todo[s] \in Seq(Steps) /\ Tail(todo[s]) \in Seq(Steps) /\ After(todo[s], Tail(todo[s]))
  BY <1>2, AfterTail
<1>4. Head(todo[s]) = todo[s][1] /\ todo[s][1] \in Steps
  BY <1>3, TailLemma
<1>5. <<>> \o Tail(todo[s]) = Tail(todo[s])
  BY <1>2, PopLemma
<1>6. \A steps : Goes(s, steps) => /\ todo'[s] = steps \o Tail(todo[s])
                                   /\ \A t \in Strands \ {s} : todo'[t] = todo[t]
  BY GoesLemma
<1>. QED BY <1>1, <1>3, <1>4, <1>5, <1>6

\* A call returns, on either strand.
LEMMA ReturnDelivery ==
    ASSUME Inv, Delivery, NEW s \in Strands, todo[s] # <<>>, ReturnStep(s),
           UNCHANGED <<cpus, requests>>
    PROVE  Delivery'
<1>1. /\ todo'[s] = <<>> \o Tail(todo[s]) /\ \A t \in Strands \ {s} : todo'[t] = todo[t]
      /\ todo[s][1].op = "return"
  BY StrandSteps DEF ReturnStep
<1>2. todo'[s] \in Seq(Steps) /\ After(todo[s], todo'[s])
  BY <1>1, StrandSteps
<1>3. Said(todo[s][1], muxer, start_pts) = <<>>
  BY <1>1 DEF Said
<1>4. (Closes(posted') => Closes(posted)) /\ (NoError(posted) => NoError(posted'))
  BY QueueFacts, FreedKeeps DEF ReturnStep, FreeMemory
<1>5. UNCHANGED <<life, muxer, reader, orphans, start_pts, due, garbled, split, fate>>
  BY DEF ReturnStep, connection
<1>. QED BY <1>1, <1>2, <1>3, <1>4, <1>5, QuietStep

\* distribute() goes on with whole writes, and then with what it had to do.
LEMMA BehindTurn ==
    ASSUME NEW u \in Seq(Steps), NEW t \in Seq(Steps), PublisherTurn(t),
           \A i \in DOMAIN u : /\ u[i].op \notin {"old clients", "new clients"}
                               /\ u[i].op = "send" => Fresh(u[i]) /\ ~u[i].is_close
    PROVE  PublisherTurn(u \o t)
<1>1. u \in Seq(Steps) /\ \A i \in DOMAIN u : u[i].op = "send" => Fresh(u[i]) /\ ~u[i].is_close
  OBVIOUS
<1>2. ~Has(u, {"old clients", "new clients"})
  BY DEF Has
<1>3. Before(u \o t, {"send", "call"}, {"old clients", "new clients"})
  BY <1>1, <1>2, HasConcat DEF PublisherTurn
<1>. DEFINE Good == {e \in Steps : e.op = "send" => Fresh(e) /\ ~e.is_close}
<1>4. u \in Seq(Good) /\ t \in Seq(Good)
  <2>1. (\A i \in 1..Len(u) : u[i] \in Good) /\ \A i \in 1..Len(t) : t[i] \in Good
    <3>1. u \in Seq(Steps) /\ t \in Seq(Steps)
      BY <1>1
    <3>2. /\ DOMAIN u = 1..Len(u) /\ \A i \in 1..Len(u) : u[i] \in Steps
          /\ DOMAIN t = 1..Len(t) /\ \A i \in 1..Len(t) : t[i] \in Steps
      BY <3>1, LenProperties, ElementOfSeq
    <3>. QED BY <1>1, <3>2 DEF PublisherTurn
  <2>2. /\ Len(u) \in Nat /\ u = [i \in 1..Len(u) |-> u[i]]
    <3>1. u \in Seq(Steps)
      BY <1>1
    <3>. QED BY <3>1, LenProperties
  <2>3. /\ Len(t) \in Nat /\ t = [i \in 1..Len(t) |-> t[i]]
    <3>1. t \in Seq(Steps)
      OBVIOUS
    <3>. QED BY <3>1, LenProperties
  <2>. HIDE DEF Good
  <2>4. ASSUME NEW q, NEW n, n = Len(q), n \in Nat, q = [i \in 1..n |-> q[i]],
               \A i \in 1..n : q[i] \in Good
        PROVE  q \in Seq(Good)
    <3>1. q \in [1..n -> Good]
      BY ONLY <2>4
    <3>. QED BY ONLY <2>4, <3>1
  <2>. QED BY <2>1, <2>2, <2>3, <2>4
<1>5. u \o t \in Seq(Good)
  BY <1>4, JoinLemma
<1>6. ASSUME NEW i \in DOMAIN (u \o t) PROVE (u \o t)[i] \in Good
  <2>. DEFINE w == u \o t
  <2>1. w \in Seq(Good) /\ i \in DOMAIN w
    BY <1>5
  <2>. HIDE DEF Good, w
  <2>2. w[i] \in Good
    BY ONLY <2>1, LenProperties, ElementOfSeq
  <2>. QED BY <2>2 DEF w
<1>. QED BY <1>3, <1>6 DEF PublisherTurn


\* The handler waits for the next request, if the session is open.
LEMMA DoReadDelivery ==
    ASSUME Inv, Delivery, todo["viewer"] # <<>>, do_read, UNCHANGED <<cpus, source, requests>>
    PROVE  Delivery'
<1>1. "viewer" \in Strands
  BY DEF Strands
<1>2. /\ todo'["viewer"] = <<>> \o Tail(todo["viewer"])
      /\ \A t \in Strands \ {"viewer"} : todo'[t] = todo[t]
      /\ todo["viewer"][1].op = "do_read"
  BY <1>1, StrandSteps DEF do_read
<1>3. todo'["viewer"] \in Seq(Steps) /\ After(todo["viewer"], todo'["viewer"])
  BY <1>1, <1>2, StrandSteps
<1>4. Said(todo["viewer"][1], muxer, start_pts) = <<>>
  BY <1>2 DEF Said
<1>5. UNCHANGED <<life, muxer, reader, orphans, start_pts, due, garbled, split, fate, posted>>
  BY DEF do_read, muxing, socket
<1>. QED BY <1>1, <1>2, <1>3, <1>4, <1>5, QuietStep

\* A step of distribute() that reads or writes no queue of the viewer's: it
\* takes the place of the first step, and sends nothing.
LEMMA LoopDelivery ==
    ASSUME Inv, Delivery, todo["publisher"] # <<>>, Goes("publisher", <<>>),
           Said(todo["publisher"][1], muxer, start_pts) = <<>>,
           UNCHANGED <<cpus, muxer, requests, start_pts, orphans, life, due, garbled, split>>,
           reader = "none" => reader' = "none", "cut off" \in fate' => "cut off" \in fate,
           Closes(posted') => Closes(posted), NoError(posted) => NoError(posted')
    PROVE  Delivery'
<1>1. "publisher" \in Strands
  BY DEF Strands
<1>2. /\ todo'["publisher"] = <<>> \o Tail(todo["publisher"])
      /\ \A t \in Strands \ {"publisher"} : todo'[t] = todo[t]
  BY <1>1, StrandSteps
<1>3. todo'["publisher"] \in Seq(Steps) /\ After(todo["publisher"], todo'["publisher"])
  BY <1>1, <1>2, StrandSteps
<1>. QED BY <1>1, <1>2, <1>3, QuietStep

LEMMA FirstStep ==
    ASSUME Inv, NEW s \in Strands, todo[s] # <<>>, Head(todo[s]).op \notin {"send", "call"}
    PROVE  Said(todo[s][1], muxer, start_pts) = <<>>
BY StrandSteps DEF Said

LEMMA CacheDelivery ==
    ASSUME Inv, Delivery, todo["publisher"] # <<>>, Cache,
           UNCHANGED <<cpus, broadcast, tags, requests>>
    PROVE  Delivery'
<1>1. Said(todo["publisher"][1], muxer, start_pts) = <<>> /\ Goes("publisher", <<>>)
  BY FirstStep DEF Cache, Strands
<1>2. (Closes(posted') => Closes(posted)) /\ (NoError(posted) => NoError(posted'))
  BY QueueFacts, FreedKeeps DEF Cache, FreeMemory
<1>3. UNCHANGED <<life, muxer, reader, orphans, start_pts, due, garbled, split, fate>>
  BY DEF Cache, connection, muxing
<1>. QED BY <1>1, <1>2, <1>3, LoopDelivery

LEMMA MergeDelivery ==
    ASSUME Inv, Delivery, todo["publisher"] # <<>>, Merge,
           UNCHANGED <<cpus, broadcast, tags, requests>>
    PROVE  Delivery'
<1>1. Said(todo["publisher"][1], muxer, start_pts) = <<>> /\ Goes("publisher", <<>>)
  BY FirstStep DEF Merge, Strands
<1>2. UNCHANGED <<life, muxer, orphans, start_pts, due, garbled, split, fate, posted>>
  BY DEF Merge, connection, socket
<1>3. reader = "none" => reader' = "none"
  BY DEF Merge
<1>. QED BY <1>1, <1>2, <1>3, LoopDelivery

LEMMA ReleaseDelivery ==
    ASSUME Inv, Delivery, todo["publisher"] # <<>>, Release,
           UNCHANGED <<cpus, broadcast, tags, requests>>
    PROVE  Delivery'
<1>1. Said(todo["publisher"][1], muxer, start_pts) = <<>> /\ Goes("publisher", <<>>)
  BY FirstStep DEF Release, Strands
<1>2. UNCHANGED <<life, muxer, reader, orphans, start_pts, due, garbled, split, posted>>
  BY DEF Release, connection, muxing, socket
<1>3. "cut off" \in fate' => "cut off" \in fate
  BY DEF Release
<1>. QED BY <1>1, <1>2, <1>3, LoopDelivery

\* read_cb leaves a packet out, or puts the writes of its tag in its place.
LEMMA ReadCbDelivery ==
    ASSUME Inv, Delivery, todo["publisher"] # <<>>, read_cb,
           UNCHANGED <<cpus, broadcast, tags, requests>>
    PROVE  Delivery'
<1>. DEFINE e == todo["publisher"][1]
            pkt == e.arg.pkt
            m == e.arg.muxer
            of == <<"tag", pkt.time_stamp>>
<1>1. /\ "publisher" \in Strands /\ "viewer" \in Strands /\ "viewer" # "publisher"
      /\ Head(todo["publisher"]) = e /\ e.op = "call"
  BY StrandSteps DEF Strands, read_cb
<1>2. pkt \in Packets /\ m \in 1..MaxRequests /\ m # 0
  <2>1. e \in Steps
    BY <1>1, StrandSteps
  <2>2. e.arg \in [pkt : Packets, muxer : 1..MaxRequests]
    <3>1. e \in PublisherSteps
      BY PublisherHead
    <3>. HIDE DEF e
    <3>. QED BY <1>1, <3>1 DEF PublisherSteps, LoopSteps, WriteSteps, Writes
  <2>3. \A n \in 1..MaxRequests : n # 0
    BY ConstantsAssumption
  <2>. QED BY <2>2, <2>3
<1>3. UNCHANGED <<life, muxer, reader, orphans, start_pts, due, garbled, split, posted, fate>>
  BY DEF read_cb, connection, muxing, socket
<1>4. Said(e, muxer, start_pts)
        = IF muxer = m /\ pkt.time_stamp >= start_pts[m] THEN Tag(of, pkt.size) ELSE <<>>
  BY <1>1, <1>2, WantedOne DEF Said
<1>5. Skipped(m, pkt) <=> ~(pkt.time_stamp >= start_pts[m])
  <2>1. start_pts[m] \in Nat
    BY <1>2 DEF Inv, ConnectionInv, TypeOK
  <2>2. pkt.time_stamp \in Nat /\ pkt.time_stamp >= 1
    BY <1>2, PacketFacts
  <2>. DEFINE x == pkt.time_stamp
              y == start_pts[m]
  <2>3. Skipped(m, pkt) <=> y > 0 /\ x < y
    BY DEF Skipped
  <2>4. x \in Nat /\ x >= 1 /\ y \in Nat
    BY <2>1, <2>2
  <2>. HIDE DEF x, y
  <2>5. (y > 0 /\ x < y) <=> ~(x >= y)
    BY <2>4
  <2>. QED BY <2>3, <2>5 DEF x, y
<1>6. CASE Skipped(m, pkt) \/ Lock(m) = 0
  <2>1. Goes("publisher", <<>>)
    BY <1>1, <1>6 DEF read_cb
  <2>2. Said(e, muxer, start_pts) = <<>>
    BY <1>2, <1>4, <1>5, <1>6 DEF Lock
  <2>. QED BY <1>3, <2>1, <2>2, LoopDelivery
<1>7. CASE ~(Skipped(m, pkt) \/ Lock(m) = 0)
  <2>. DEFINE u == write_flv(of, Body(of, pkt.size, "packet")) \o << Do("release") >>
              t == Tail(todo["publisher"])
  <2>1. Goes("publisher", u)
    BY <1>1, <1>7 DEF read_cb
  <2>2. /\ todo'["publisher"] = u \o t /\ todo'["viewer"] = todo["viewer"]
        /\ t \in Seq(Steps) /\ After(todo["publisher"], t)
        /\ todo["publisher"] \in Seq(Steps) /\ todo["viewer"] \in Seq(Steps)
    BY <1>1, <2>1, StrandSteps, TodoSteps
  <2>3. Said(e, muxer, start_pts) = Tag(of, pkt.size)
    BY <1>4, <1>5, <1>7 DEF Lock
  <2>4. Part(u, Tag(of, pkt.size), {"send", "return", "release"}, FALSE)
    BY <1>2, TagPart
  <2>. HIDE DEF u, t, e
  <2>5. Left("publisher") = Cat(Tag(of, pkt.size), Plan(t, muxer, start_pts))
    BY <2>2, <2>3, AfterPlan DEF Left, e
  <2>6. u \in Seq(Steps) /\ Plan(u, muxer, start_pts) = Tag(of, pkt.size)
    BY <2>4 DEF Part
  <2>7. Plan(u \o t, muxer, start_pts) = Left("publisher")
    BY <2>2, <2>5, <2>6, PlanConcat
  <2>8. PublisherTurn(t)
    <3>1. Turns(todo["publisher"], t)
      BY <2>2 DEF Turns
    <3>2. PublisherTurn(todo["publisher"])
      BY DEF Delivery
    <3>. QED BY ONLY <3>1, <3>2, TurnsKept
  <2>9. PublisherTurn(u \o t)
    <3>1. \A i \in DOMAIN u : /\ u[i].op \notin {"old clients", "new clients"}
                              /\ u[i].op = "send" => Fresh(u[i]) /\ ~u[i].is_close
      BY <2>4 DEF Part
    <3>2. t \in Seq(Steps)
      BY <2>2
    <3>. QED BY <2>6, <2>8, <3>1, <3>2, BehindTurn
  <2>10. ViewerTurn(todo["viewer"]) /\ Has(todo["publisher"], {"send", "call"})
    <3>1. 1 \in DOMAIN todo["publisher"]
      BY TodoFacts, TailLemma, <2>2
    <3>. QED BY <1>1, <3>1 DEF Delivery, Has, e
  <2>11. Plan(todo'["viewer"], muxer, start_pts) = Left("viewer")
    BY <2>2 DEF Left
  <2>. QED BY <1>3, <2>2, <2>7, <2>9, <2>10, <2>11, KeepOrder
<1>. QED BY <1>6, <1>7

-----------------------------------------------------------------------------
(* Steps of the socket, and the end of the session                         *)

\* The first completion of those posted is taken out.
LEMMA PopKeeps ==
    ASSUME NEW q \in Seq(Writes), q # <<>>
    PROVE  /\ Closes(Tail(q)) => Closes(q)
           /\ NoError(q) => NoError(Tail(q)) /\ ~Head(q).ec
           /\ Head(q).is_close => Closes(q)
           /\ Head(q) \in Writes
<1>1. /\ DOMAIN q = 1..Len(q) /\ Len(q) \in Nat /\ 1 \in DOMAIN q /\ Head(q) = q[1]
      /\ DOMAIN Tail(q) = 1..(Len(q) - 1) /\ \A i \in 1..(Len(q) - 1) : Tail(q)[i] = q[i + 1]
      /\ q[1] \in Writes
  BY LenProperties, TailLemma
<1>2. \A i \in DOMAIN Tail(q) : i + 1 \in DOMAIN q
  BY <1>1
<1>3. q[1].op = "send"
  BY <1>1 DEF Writes
<1>. QED BY <1>1, <1>2, <1>3 DEF Closes, NoError

\* The parts of the order that only the handlers' steps change.
LEMMA SameTurns ==
    ASSUME Delivery, todo' = todo
    PROVE  ViewerTurn(todo'["viewer"]) /\ PublisherTurn(todo'["publisher"])
BY DEF Delivery

\* More of a waiting write is taken: one waited, so not every write was whole.
LEMMA WritableDelivery ==
    ASSUME Inv, Delivery, Writable
    PROVE  Delivery'
<1>1. /\ split' = split /\ todo' = todo /\ waiting # <<>>
      /\ UNCHANGED <<muxer, requests, orphans>>
  BY DEF Writable, muxing
<1>2. split'
  BY <1>1, QueueFacts
<1>3. MuxersInOrder'
  BY <1>1, SameMuxers
<1>. QED BY <1>1, <1>2, <1>3, SameTurns, KeepClosed DEF Open

\* The viewer reads.
LEMMA DrainDelivery ==
    ASSUME Inv, Delivery, Drain
    PROVE  Delivery'
<1>1. UNCHANGED <<cpus, life, muxer, reader, orphans, start_pts, todo, posted, due, garbled,
                  split, requests, fate>>
  BY DEF Drain, connection, muxing
<1>. QED BY <1>1, KeepIdle

\* The session is shut down.
LEMMA ThrowsDelivery ==
    ASSUME Inv, Delivery, ParserThrows
    PROVE  Delivery'
<1>1. /\ UNCHANGED <<muxer, orphans, todo, garbled, split, requests, fate>>
      /\ life' = "closed"
  BY DEF ParserThrows, muxing
<1>2. MuxersInOrder'
  BY <1>1, SameMuxers
<1>3. ~split' => ~garbled' /\ "cut off" \notin fate'
  BY <1>1 DEF Delivery
<1>. QED BY <1>1, <1>2, <1>3, SameTurns, KeepClosed DEF Open

\* The source goes: that shuts the session down, if it has a reader.
LEMMA DetachDelivery ==
    ASSUME Inv, Delivery, detach_all_readers
    PROVE  Delivery'
<1>. DEFINE dead == {w \in InFlight : w.mem \in {"packet", "config"}}
<1>1. /\ UNCHANGED <<cpus, muxer, start_pts, todo, requests, fate, due, garbled, split>>
      /\ reader' = "none" /\ orphans' = {}
  BY DEF detach_all_readers
<1>2. life' = "closed" \/ (life' = life /\ FreeMemory(dead))
  BY DEF detach_all_readers
<1>3. CASE life' = "closed"
  <2>1. MuxersInOrder'
    BY <1>1, SameMuxers
  <2>2. ~split' => ~garbled' /\ "cut off" \notin fate'
    BY <1>1 DEF Delivery
  <2>. QED BY <1>1, <1>3, <2>1, <2>2, SameTurns, KeepClosed DEF Open
<1>. HIDE DEF dead
<1>4. CASE life' = life /\ FreeMemory(dead)
  <2>1. (Closes(posted') => Closes(posted)) /\ (NoError(posted) => NoError(posted'))
    BY <1>4, QueueFacts, FreedKeeps DEF FreeMemory
  <2>. QED BY <1>1, <1>4, <2>1, KeepIdle
<1>. QED BY <1>2, <1>3, <1>4

\* The numbers of the muxers are those of requests.
LEMMA MuxerFacts ==
    ASSUME Inv, Delivery
    PROVE  /\ orphans \subseteq 1..requests /\ muxer \in 0..requests /\ muxer \notin orphans
           /\ CreatePending => requests \notin orphans /\ muxer # requests
           /\ requests \in Nat /\ 0 \in 0..requests /\ 0 \notin 1..requests
           /\ reader = "old" => muxer \in 1..requests
<1>1. /\ orphans \subseteq 1..requests /\ muxer \in 0..requests /\ muxer \notin orphans
      /\ CreatePending => requests \notin orphans /\ muxer # requests
  BY DEF Delivery, MuxersInOrder
<1>2. requests \in Nat
  BY ConstantsAssumption DEF Inv, ConnectionInv, TypeOK
<1>3. reader = "old" => muxer # 0
  BY RestFacts DEF AliveOK
<1>4. \A n \in Nat : 0 \in 0..n /\ 0 \notin 1..n /\ \A k \in 0..n : k # 0 => k \in 1..n
  OBVIOUS
<1>. QED BY ONLY <1>1, <1>2, <1>3, <1>4

\* session_manager::stop, by a handler that finds nothing left to send.
LEMMA StopDelivery ==
    ASSUME Inv, Delivery, todo["viewer"] = <<>>, NEW q, NEW what, StopSession(q, what),
           UNCHANGED <<todo, requests>>, ~split => "cut off" \notin what
    PROVE  Delivery'
<1>1. /\ life' = "destroyed" /\ muxer' = 0 /\ ReleaseMuxer
      /\ fate' = fate \cup what \cup (IF header_ THEN {} ELSE {"crashed"})
      /\ garbled' = garbled /\ split' = split /\ todo' = todo /\ requests' = requests
  BY DEF StopSession
<1>2. MuxersInOrder'
  <2>1. /\ orphans \subseteq 1..requests
        /\ reader = "old" => muxer \in 1..requests
    BY MuxerFacts
  <2>2. orphans' \subseteq 1..requests
    BY <1>1, <2>1 DEF ReleaseMuxer
  <2>3. 0 \in 0..requests /\ 0 \notin 1..requests
    BY MuxerFacts
  <2>4. ~CreatePending'
    <3>1. todo'["viewer"] = <<>>
      BY <1>1
    <3>2. DOMAIN todo'["viewer"] = {}
      BY ONLY <3>1
    <3>. QED BY ONLY <3>2 DEF CreatePending
  <2>. QED BY <1>1, <2>2, <2>3, <2>4 DEF MuxersInOrder
<1>3. ~split' => ~garbled' /\ "cut off" \notin fate'
  BY <1>1 DEF Delivery
<1>. QED BY <1>1, <1>2, <1>3, SameTurns, KeepClosed DEF Open

LEMMA ReadFailsDelivery ==
    ASSUME Inv, Delivery, ReadFails
    PROVE  Delivery'
<1>. DEFINE what == {}
<1>1. /\ CanRun("viewer") /\ StopSession(posted, what) /\ UNCHANGED <<todo, requests>>
      /\ "cut off" \notin what
  BY DEF ReadFails
<1>2. todo["viewer"] = <<>>
  BY <1>1, CanRunLemma
<1>. HIDE DEF what
<1>. QED BY <1>1, <1>2, StopDelivery

\* A completion stops an open session, and nothing is due.
LEMMA NothingCutOff ==
    ASSUME Inv, Delivery, Open, CanRun("viewer"), posted # <<>>, StopsSession(Head(posted))
    PROVE  due = <<>>
<1>1. todo["viewer"] = <<>> /\ (cpus = 1 => todo["publisher"] = <<>>)
  BY CanRunLemma
<1>2. /\ NoError(posted) /\ (cpus > 1 => Unread \/ Announced)
      /\ due = Cat(Left("viewer"), Left("publisher"))
  BY DEF Delivery
<1>3. Closes(posted)
  BY <1>2, QueueFacts, PopKeeps DEF StopsSession
<1>4. cpus > 1 => Unread
  BY <1>2, <1>3 DEF Announced
<1>5. Left("publisher") = <<>>
  <2>1. \A m, p : Plan(todo["publisher"], m, p) = <<>>
    BY <1>1, <1>4, QuietPublisher
  <2>. QED BY <2>1 DEF Left
<1>6. Left("viewer") = <<>>
  <2>1. todo["viewer"] \in Seq(Steps) /\ ~Has(todo["viewer"], {"send", "call"})
    BY <1>1, TodoSteps DEF Has
  <2>2. Plan(todo["viewer"], muxer, start_pts) = <<>>
    BY <2>1, QuietLemma
  <2>. QED BY <2>2 DEF Left
<1>. QED BY <1>2, <1>5, <1>6 DEF Cat

\* A completion: with every write taken whole, it stops the session or does
\* nothing.
LEMMA WriteDoneDelivery ==
    ASSUME Inv, Delivery, WriteDone
    PROVE  Delivery'
<1>. DEFINE w == Head(posted)
            what == IF life = "open" /\ due # <<>> THEN {"cut off"} ELSE {}
<1>1. /\ CanRun("viewer") /\ posted # <<>> /\ todo' = todo /\ requests' = requests /\ cpus' = cpus
  BY DEF WriteDone
<1>2. \/ /\ w.left > 0 /\ ~w.ec /\ UNCHANGED <<life, muxer, orphans>>
         /\ split' = split \/ (split' = TRUE) \/ Start(w, Tail(posted))
      \/ StopsSession(w) /\ StopSession(Tail(posted), what)
      \/ /\ posted' = Tail(posted)
         /\ UNCHANGED <<life, muxer, reader, orphans, start_pts, due, garbled, split, fate>>
  BY DEF WriteDone, connection, muxing
<1>3. CASE /\ w.left > 0 /\ ~w.ec /\ UNCHANGED <<life, muxer, orphans>>
           /\ split' = split \/ (split' = TRUE) \/ Start(w, Tail(posted))
  <2>1. split
    <3>1. w.left # 0
      BY <1>3, ZeroLemma
    <3>2. w \in Range(posted)
      BY <1>1, QueueFacts, RangeLemma
    <3>. HIDE DEF w
    <3>. QED BY <3>1, <3>2, QueueFacts
  <2>2. split'
    BY <1>3, <2>1, Zenon DEF Start
  <2>3. MuxersInOrder'
    BY <1>1, <1>3, SameMuxers
  <2>. QED BY <1>1, <2>2, <2>3, SameTurns, KeepClosed DEF Open
<1>4. CASE StopsSession(w) /\ StopSession(Tail(posted), what)
  <2>1. ~split => "cut off" \notin what
    BY <1>1, <1>4, NothingCutOff DEF Open
  <2>2. todo["viewer"] = <<>>
    BY <1>1, CanRunLemma
  <2>. HIDE DEF what
  <2>. QED BY <1>1, <1>4, <2>1, <2>2, StopDelivery
<1>5. CASE /\ posted' = Tail(posted)
           /\ UNCHANGED <<life, muxer, reader, orphans, start_pts, due, garbled, split, fate>>
  <2>1. (Closes(posted') => Closes(posted)) /\ (NoError(posted) => NoError(posted'))
    BY <1>1, <1>5, QueueFacts, PopKeeps
  <2>. QED BY <1>1, <1>5, <2>1, KeepIdle
<1>. HIDE DEF w, what
<1>. QED BY <1>2, <1>3, <1>4, <1>5

-----------------------------------------------------------------------------
(* Steps that send                                                         *)

\* The bytes that the kernel takes of a write.
LEMMA NameLemma ==
    \A a, b, i : <<a, b>> \o <<i>> = <<a, b, i>>
<1>. SUFFICES ASSUME NEW a, NEW b, NEW i PROVE <<a, b>> \o <<i>> = <<a, b, i>>
  OBVIOUS
<1>. DEFINE S == {a, b, i}
            x == <<a, b>>
            y == <<a, b, i>>
            z == x \o <<i>>
<1>1. a \in S /\ b \in S /\ i \in S
  OBVIOUS
<1>. HIDE DEF S
<1>2. x \in Seq(S) /\ Len(x) = 2 /\ x[1] = a /\ x[2] = b
  BY <1>1
<1>3. y \in Seq(S) /\ Len(y) = 3 /\ y[1] = a /\ y[2] = b /\ y[3] = i
  BY <1>1
<1>. HIDE DEF x, y
<1>4. /\ z \in Seq(S) /\ Len(z) = Len(x) + 1 /\ z[Len(x) + 1] = i
      /\ \A k \in 1..Len(x) : z[k] = x[k]
  <2>1. x \in Seq(S)
    BY <1>2
  <2>. QED BY <1>1, <2>1, BehindLemma
<1>. HIDE DEF z
<1>5. z \in Seq(S) /\ Len(z) = 3 /\ z[1] = a /\ z[2] = b /\ z[3] = i
  BY ONLY <1>2, <1>4
<1>6. \A k \in 1..3 : k = 1 \/ k = 2 \/ k = 3
  OBVIOUS
<1>7. y = z
  BY ONLY <1>3, <1>5, <1>6, SeqEqual
<1>. QED BY <1>7 DEF x, y, z

\* Of a write that is taken whole, while its memory lives, they are its own.
LEMMA WholeBytes ==
    ASSUME NEW w \in Writes, w.left = w.size, w.mem # "dead"
    PROVE  [i \in 1..w.size |-> IF w.mem = "dead" THEN <<"junk">>
                                ELSE w.name \o <<(w.size - w.left) + i>>]
             = Bytes(w.name[1], w.name[2], w.size)
<1>1. w.size \in Nat /\ w.name \in {"response", "header", "body", "size", "error"} \X Scopes
  BY DEF Writes
<1>2. w.size - w.left = 0
  BY <1>1
<1>3. w.name = <<w.name[1], w.name[2]>>
  BY <1>1
<1>4. ASSUME NEW i \in 1..w.size
      PROVE  (IF w.mem = "dead" THEN <<"junk">> ELSE w.name \o <<(w.size - w.left) + i>>)
               = <<w.name[1], w.name[2], i>>
  <2>1. (w.size - w.left) + i = i
    BY <1>1, <1>2
  <2>2. <<w.name[1], w.name[2]>> \o <<i>> = <<w.name[1], w.name[2], i>>
    BY NameLemma
  <2>. QED BY <1>3, <2>1, <2>2
<1>. DEFINE f(i) == IF w.mem = "dead" THEN <<"junk">> ELSE w.name \o <<(w.size - w.left) + i>>
            g(i) == <<w.name[1], w.name[2], i>>
<1>5. \A i \in 1..w.size : f(i) = g(i)
  BY <1>4
<1>. HIDE DEF f, g
<1>6. [i \in 1..w.size |-> f(i)] = [i \in 1..w.size |-> g(i)]
  BY ONLY <1>5
<1>. QED BY <1>6 DEF f, g, Bytes

LEMMA WriteBytes ==
    ASSUME NEW w \in Writes
    PROVE  /\ Bytes(w.name[1], w.name[2], w.size) \in Seq(Octets)
           /\ Len(Bytes(w.name[1], w.name[2], w.size)) = w.size
<1>1. /\ w.name[1] \in {"response", "header", "body", "size", "error"}
      /\ w.name[2] \in Scopes /\ w.size \in Nat
  BY DEF Writes
<1>2. \A name \in {"response", "header", "body", "size", "error"}, of \in Scopes, size \in Nat :
        Bytes(name, of, size) \in Seq(Octets) /\ Len(Bytes(name, of, size)) = size
  BY BytesType
<1>. QED BY ONLY <1>1, <1>2

\* A write that is taken whole when it is started is what comes next.
LEMMA StartWhole ==
    ASSUME Inv, NEW w \in Writes, w.left = w.size, w.mem # "dead", ~w.ec, Start(w, posted), ~split',
           NEW rest \in Seq(Octets), due = Cat(Bytes(w.name[1], w.name[2], w.size), rest), ~garbled
    PROVE  /\ due' = rest /\ ~garbled' /\ ~split
           /\ Closes(posted') => Closes(posted) \/ w.is_close
           /\ NoError(posted) => NoError(posted')
<1>. DEFINE n == Takes(w)
            s == Bytes(w.name[1], w.name[2], w.size)
            r == Rest(w)
<1>1. ~(waiting # <<>> \/ room = 0)
  BY DEF Start
<1>2. /\ Taken(w, n) /\ posted' = Posted(posted, r) /\ split' = (split \/ n < w.left)
  BY <1>1 DEF Start, Rest
<1>3. ~split /\ ~(n < w.left)
  BY <1>2, QueueFacts, Zenon
<1>4. /\ r \in Writes /\ r.left = w.left - n /\ n \in Nat /\ n <= w.left /\ w.left \in Nat
  BY QueueFacts, LessLeft
<1>5. n = w.size /\ n = w.left
  BY <1>3, <1>4
<1>6. s \in Seq(Octets) /\ Len(s) = n
  <2>2. s \in Seq(Octets) /\ Len(s) = w.size
    BY WriteBytes
  <2>. HIDE DEF s, n
  <2>. QED BY ONLY <1>5, <2>2
<1>7. IsPrefix(s, due) /\ SubSeq(due, n + 1, Len(due)) = rest
  <2>1. due = s \o rest
    BY DEF Cat
  <2>. HIDE DEF s, n
  <2>2. IsPrefix(s, s \o rest) /\ SubSeq(s \o rest, Len(s) + 1, Len(s \o rest)) = rest
    BY <1>6, PrefixLemma
  <2>. QED BY <1>6, <2>1, <2>2
<1>8. due' = rest /\ ~garbled'
  <2>. DEFINE b == [i \in 1..n |-> IF w.mem = "dead" THEN <<"junk">>
                                   ELSE w.name \o <<(w.size - w.left) + i>>]
  <2>1. IF ~garbled /\ IsPrefix(b, due)
        THEN due' = SubSeq(due, n + 1, Len(due)) /\ UNCHANGED garbled
        ELSE due' = <<>> /\ garbled' = TRUE
    BY <1>2 DEF Taken
  <2>. HIDE DEF n, s
  <2>2. b = s
    BY <1>5, WholeBytes DEF s
  <2>. HIDE DEF b
  <2>. QED BY <1>7, <2>1, <2>2
<1>9. r.is_close = w.is_close /\ r.ec = w.ec /\ r.op = "send"
  BY DEF Rest, Writes
<1>. HIDE DEF r, n
<1>10. posted' = posted \/ posted' = Append(posted, r)
  BY <1>2 DEF Posted
<1>11. posted' = Append(posted, r) => w.is_close \/ posted' = posted
  <2>1. r.left = 0
    BY <1>4, <1>5
  <2>. QED BY <1>2, <1>9, <2>1 DEF Posted
<1>12. /\ Closes(posted') => Closes(posted) \/ w.is_close
       /\ NoError(posted) => NoError(posted')
  <2>1. CASE posted' = posted
    BY <2>1
  <2>2. CASE posted' = Append(posted, r) /\ w.is_close
    <3>1. /\ DOMAIN posted = 1..Len(posted) /\ Len(posted) \in Nat
          /\ DOMAIN posted' = 1..(Len(posted) + 1)
          /\ \A i \in 1..Len(posted) : posted'[i] = posted[i]
          /\ posted'[Len(posted) + 1] = r
      BY <1>4, <2>2, QueueFacts, AppendProperties, LenProperties
    <3>2. \A i \in DOMAIN posted' : i \in DOMAIN posted \/ i = Len(posted) + 1
      BY ONLY <3>1
    <3>. QED BY <1>9, <2>2, <3>1, <3>2 DEF NoError
  <2>. QED BY <1>10, <1>11, <2>1, <2>2
<1>. QED BY <1>3, <1>8, <1>12

\* send(), on either strand: the strand goes on, and an open session starts the
\* write.
LEMMA SendFacts ==
    ASSUME Inv, NEW s \in Strands, NEW S \in {ViewerSteps, PublisherSteps},
           todo[s] \in Seq(S), todo[s] # <<>>, Send(s),
           NEW w \in Writes, w = Head(todo[s]), w.mem = "pool" => Pool(s) \in 1..MaxRequests
    PROVE  /\ todo'[s] \in Seq(Steps) /\ After(todo[s], todo'[s])
           /\ \A t \in Strands \ {s} : todo'[t] = todo[t]
           /\ life' = life /\ UNCHANGED <<muxer, reader, orphans, start_pts>>
           /\ "cut off" \in fate' <=> "cut off" \in fate
           /\ life # "open" => UNCHANGED <<posted, due, garbled, split>>
           /\ life = "open" => \E x \in Writes :
                /\ Start(x, posted) /\ x.name = w.name /\ x.size = w.size /\ x.left = w.left
                /\ x.mem = w.mem /\ x.is_close = w.is_close /\ x.ec = w.ec
<1>. DEFINE m == Pool(s)
            pooled == w.mem = "pool" /\ objs_[m] # <<>>
            block == IF pooled THEN Last(objs_[m]) ELSE NoBlock
            x == [w EXCEPT !.block = block]
<1>1. /\ w.op = "send"
      /\ IF ~Alive
         THEN fate' = fate \cup {"use after free"}
              /\ UNCHANGED <<waiting, posted, room, due, garbled, split, life>>
         ELSE do_write(x) /\ UNCHANGED fate
      /\ todo' = [todo EXCEPT ![s] = IF pooled THEN Lent(Tail(@), w.scope, block) ELSE Tail(@)]
      /\ UNCHANGED <<muxer, reader, orphans, start_pts>>
  BY DEF Send
<1>2. block \in (0..MaxRequests) \X Nat
  <2>1. CASE pooled
    <3>1. objs_[m] \in Seq((1..MaxRequests) \X Nat) /\ objs_[m] # <<>>
      BY <2>1, PoolFacts
    <3>2. Len(objs_[m]) \in 1..Len(objs_[m])
      BY <3>1, TailLemma
    <3>3. Last(objs_[m]) \in (1..MaxRequests) \X Nat
      BY <3>1, <3>2, ElementOfSeq DEF Last
    <3>4. (1..MaxRequests) \X Nat \subseteq (0..MaxRequests) \X Nat
      BY ConstantsAssumption
    <3>. QED BY <2>1, <3>3, <3>4
  <2>2. CASE ~pooled
    BY <2>2, ConstantsAssumption DEF NoBlock
  <2>. QED BY <2>1, <2>2
<1>. HIDE DEF block, pooled, m
<1>3. todo'[s] = (IF pooled THEN Lent(Tail(todo[s]), w.scope, block) ELSE Tail(todo[s]))
      /\ \A t \in Strands \ {s} : todo'[t] = todo[t]
  BY <1>1, TodoFacts
<1>4. /\ Tail(todo[s]) \in Seq(Steps) /\ After(todo[s], Tail(todo[s]))
      /\ \A scope : \A b \in (0..MaxRequests) \X Nat :
           /\ Lent(Tail(todo[s]), scope, b) \in Seq(Steps)
           /\ After(todo[s], Lent(Tail(todo[s]), scope, b))
  BY AfterTail
<1>5. todo'[s] \in Seq(Steps) /\ After(todo[s], todo'[s])
  <2>. DEFINE t == Tail(todo[s])
  <2>1. t \in Seq(Steps) /\ After(todo[s], t)
    BY <1>4
  <2>2. Lent(t, w.scope, block) \in Seq(Steps) /\ After(todo[s], Lent(t, w.scope, block))
    BY <1>2, <1>4
  <2>3. todo'[s] = (IF pooled THEN Lent(t, w.scope, block) ELSE t)
    BY <1>3
  <2>. HIDE DEF t
  <2>. QED BY ONLY <2>1, <2>2, <2>3
<1>6. "cut off" \in fate' <=> "cut off" \in fate
  <2>1. fate' = fate \cup {"use after free"} \/ fate' = fate
    BY <1>1
  <2>. QED BY ONLY <2>1
<1>7. life' = life /\ (life # "open" => UNCHANGED <<posted, due, garbled, split>>)
  BY <1>1 DEF do_write
<1>8. /\ x \in Writes /\ x.name = w.name /\ x.size = w.size /\ x.left = w.left
      /\ x.mem = w.mem /\ x.is_close = w.is_close /\ x.ec = w.ec
  BY <1>2 DEF Writes
<1>. HIDE DEF x
<1>9. life = "open" => Start(x, posted)
  BY <1>1 DEF do_write, Alive
<1>. QED BY <1>1, <1>3, <1>5, <1>6, <1>7, <1>8, <1>9

\* An answer, or the headers of start_muxing, is on its way: nobody has a
\* reader yet, and the publisher sends nothing.
LEMMA ViewerFirst ==
    ASSUME Inv, Delivery, todo["viewer"] # <<>>, Open,
           todo["viewer"][1].op \in {"send", "create", "regist"}
    PROVE  /\ cpus = 1 => todo["publisher"] = <<>>
           /\ cpus > 1 => Unread
           /\ requests # 0 /\ Has(todo["viewer"], {todo["viewer"][1].op})
           /\ ~Has(todo["publisher"], {"send", "call"})
           /\ \A m, p : Plan(todo["publisher"], m, p) = <<>>
           /\ due = Cat(Left("viewer"), <<>>)
<1>1. cpus = 1 => todo["publisher"] = <<>>
  BY DEF Inv, ConnectionInv, PublisherInOrder
<1>2. 1 \in DOMAIN todo["viewer"] /\ requests # 0
  BY ViewerHead, RestFacts DEF AliveOK
<1>3. /\ Has(todo["viewer"], {"send", "create", "regist"})
      /\ Has(todo["viewer"], {todo["viewer"][1].op})
  BY <1>2 DEF Has
<1>4. cpus > 1 => Unread
  BY <1>3 DEF Delivery, Announced
<1>5. /\ ~Has(todo["publisher"], {"send", "call"})
      /\ \A m, p : Plan(todo["publisher"], m, p) = <<>>
  BY <1>1, <1>4, QuietPublisher
<1>6. due = Cat(Left("viewer"), Left("publisher")) /\ Left("publisher") = <<>>
  BY <1>5 DEF Delivery, Left
<1>. QED BY <1>1, <1>2, <1>3, <1>4, <1>5, <1>6

\* A send() on a strand, as far as both have it in common.
LEMMA SendTurns ==
    ASSUME Inv, Delivery, NEW s \in Strands, todo[s] # <<>>,
           todo'[s] \in Seq(Steps), After(todo[s], todo'[s]),
           \A t \in Strands \ {s} : todo'[t] = todo[t],
           UNCHANGED <<muxer, requests, orphans>>
    PROVE  /\ ViewerTurn(todo'["viewer"]) /\ PublisherTurn(todo'["publisher"]) /\ MuxersInOrder'
           /\ \A t \in Strands : /\ \A ops : Has(todo'[t], ops) => Has(todo[t], ops)
                                 /\ Closes(todo'[t]) => Closes(todo[t])
<1>1. todo[s] \in Seq(Steps)
  BY TodoSteps DEF Strands
<1>2. /\ ViewerTurn(todo[s]) => ViewerTurn(todo'[s])
      /\ PublisherTurn(todo[s]) => PublisherTurn(todo'[s])
      /\ Closes(todo'[s]) => Closes(todo[s])
      /\ \A ops : Has(todo'[s], ops) => Has(todo[s], ops)
  BY <1>1, AfterFacts
<1>3. ViewerTurn(todo["viewer"]) /\ PublisherTurn(todo["publisher"])
  BY DEF Delivery
<1>4. \A t \in Strands : t = s \/ todo'[t] = todo[t]
  OBVIOUS
<1>5. "viewer" \in Strands /\ "publisher" \in Strands
  BY DEF Strands
<1>6. \A t \in Strands : /\ \A ops : Has(todo'[t], ops) => Has(todo[t], ops)
                         /\ Closes(todo'[t]) => Closes(todo[t])
  <2>. SUFFICES ASSUME NEW t \in Strands
                PROVE  /\ \A ops : Has(todo'[t], ops) => Has(todo[t], ops)
                       /\ Closes(todo'[t]) => Closes(todo[t])
    OBVIOUS
  <2>1. CASE t = s
    BY ONLY <1>2, <2>1
  <2>2. CASE todo'[t] = todo[t]
    BY ONLY <2>2
  <2>. QED BY <1>4, <2>1, <2>2
<1>7. ViewerTurn(todo'["viewer"])
  BY ONLY <1>2, <1>3, <1>4, <1>5
<1>8. PublisherTurn(todo'["publisher"])
  BY ONLY <1>2, <1>3, <1>4, <1>5
<1>9. MuxersInOrder'
  BY <1>5, <1>6, SameMuxers
<1>. QED BY <1>6, <1>7, <1>8, <1>9

\* The session is closed, or the write is not taken whole.
LEMMA SendShut ==
    ASSUME Inv, Delivery, ~Open', life' = life,
           ViewerTurn(todo'["viewer"]), PublisherTurn(todo'["publisher"]), MuxersInOrder',
           "cut off" \in fate' <=> "cut off" \in fate,
           life # "open" => UNCHANGED <<posted, due, garbled, split>>
    PROVE  Delivery'
<1>1. ~split' => ~garbled' /\ "cut off" \notin fate'
  BY DEF Delivery, Open
<1>. QED BY <1>1, KeepClosed

\* The first write of a strand is whole, its memory lives, and its bytes are said.
LEMMA FirstWrite ==
    ASSUME Inv, NEW s \in Strands, todo[s] # <<>>, NEW w, w = todo[s][1], w.op = "send",
           ViewerTurn(todo[s]) \/ PublisherTurn(todo[s])
    PROVE  /\ w \in Writes /\ w.left = w.size /\ w.mem # "dead" /\ ~w.ec
           /\ Said(w, muxer, start_pts) = Bytes(w.name[1], w.name[2], w.size)
           /\ w = Head(todo[s])
           /\ PublisherTurn(todo[s]) => ~w.is_close
<1>1. todo[s] \in Seq(Steps) /\ w \in Steps /\ w = Head(todo[s])
  BY StrandSteps
<1>2. w \in Writes
  BY <1>1, StepKinds
<1>3. 1 \in DOMAIN todo[s]
  <2>1. \A q \in Seq(Steps) : q # <<>> => 1 \in DOMAIN q
    BY LenProperties, TailLemma
  <2>. QED BY <1>1, <2>1
<1>4. Fresh(w) /\ (PublisherTurn(todo[s]) => ~w.is_close)
  BY <1>3 DEF ViewerTurn, PublisherTurn
<1>5. Said(w, muxer, start_pts) = Bytes(w.name[1], w.name[2], w.size)
  BY DEF Said
<1>. QED BY <1>1, <1>2, <1>4, <1>5 DEF Fresh

\* send() in a request's handler: the write is the first of what is due.
LEMMA ViewerSendDelivery ==
    ASSUME Inv, Delivery, todo["viewer"] # <<>>, Send("viewer"), UNCHANGED <<cpus, requests>>
    PROVE  Delivery'
<1>. DEFINE v == todo["viewer"]
            u == todo'["viewer"]
            w == todo["viewer"][1]
<1>1. w = Head(v) /\ w.op = "send" /\ "viewer" \in Strands /\ "publisher" \in Strands
  BY ViewerHead DEF Send
<1>2. ViewerTurn(v) /\ PublisherTurn(todo["publisher"])
  BY DEF Delivery
<1>3. /\ w \in Writes /\ w.left = w.size /\ w.mem # "dead" /\ ~w.ec
      /\ Said(w, muxer, start_pts) = Bytes(w.name[1], w.name[2], w.size)
  BY <1>1, <1>2, FirstWrite
<1>4. w.mem = "pool" => Pool("viewer") \in 1..MaxRequests
  BY <1>1, ViewerHead DEF Pool, NeedsMuxer
<1>. HIDE DEF w
<1>5. /\ u \in Seq(Steps) /\ After(v, u)
      /\ \A t \in Strands \ {"viewer"} : todo'[t] = todo[t]
      /\ life' = life /\ UNCHANGED <<muxer, reader, orphans, start_pts>>
      /\ "cut off" \in fate' <=> "cut off" \in fate
      /\ life # "open" => UNCHANGED <<posted, due, garbled, split>>
      /\ life = "open" => \E x \in Writes :
           /\ Start(x, posted) /\ x.name = w.name /\ x.size = w.size /\ x.left = w.left
           /\ x.mem = w.mem /\ x.is_close = w.is_close /\ x.ec = w.ec
  BY <1>1, <1>3, <1>4, TodoFacts, SendFacts
<1>6. /\ ViewerTurn(u) /\ PublisherTurn(todo'["publisher"]) /\ MuxersInOrder'
      /\ \A ops : Has(u, ops) => Has(v, ops)
      /\ Closes(u) => Closes(v)
  BY <1>1, <1>5, SendTurns
<1>7. CASE ~Open'
  BY <1>5, <1>6, <1>7, SendShut
<1>8. CASE Open'
  <2>1. life = "open" /\ ~split'
    BY <1>5, <1>8 DEF Open
  <2>2. PICK x \in Writes :
           /\ Start(x, posted) /\ x.name = w.name /\ x.size = w.size /\ x.left = w.left
           /\ x.mem = w.mem /\ x.is_close = w.is_close /\ x.ec = w.ec
    BY <1>5, <2>1
  <2>3. ~split
    BY <2>1, <2>2, QueueFacts, Zenon DEF Start
  <2>4. Open
    BY <2>1, <2>3 DEF Open
  <2>5. /\ cpus = 1 => todo["publisher"] = <<>>
        /\ cpus > 1 => Unread
        /\ requests # 0
        /\ \A m, p : Plan(todo["publisher"], m, p) = <<>>
        /\ due = Cat(Left("viewer"), <<>>)
    BY <1>1, <2>4, ViewerFirst DEF w
  <2>6. ~garbled /\ "cut off" \notin fate /\ NoError(posted)
    BY <2>3, <2>4 DEF Delivery
  <2>. DEFINE said == Bytes(w.name[1], w.name[2], w.size)
              rest == Plan(u, muxer, start_pts)
  <2>7. v \in Seq(Steps) /\ rest \in Seq(Octets)
    BY <1>5, TodoSteps, PlanType
  <2>8. Left("viewer") = Cat(said, rest)
    <3>1. Turns(v, u)
      BY <1>5, <2>7 DEF Turns
    <3>2. Plan(v, muxer, start_pts) = Cat(Said(v[1], muxer, start_pts), Plan(u, muxer, start_pts))
      BY ONLY <3>1, TurnsPlan
    <3>. QED BY <1>3, <3>2 DEF Left, w
  <2>9. due = Cat(said, rest)
    BY <2>5, <2>8, TodoSteps, CatEmpty
  <2>10. /\ x.left = x.size /\ x.mem # "dead" /\ ~x.ec
         /\ due = Cat(Bytes(x.name[1], x.name[2], x.size), rest)
    BY <1>3, <2>2, <2>9
  <2>. HIDE DEF rest, said
  <2>11. /\ due' = rest /\ ~garbled'
         /\ Closes(posted') => Closes(posted) \/ x.is_close
         /\ NoError(posted) => NoError(posted')
    BY <2>1, <2>2, <2>6, <2>7, <2>10, StartWhole
  <2>12. todo'["publisher"] = todo["publisher"]
    BY <1>1, <1>5
  <2>13. Left("viewer")' = rest /\ Left("publisher")' = <<>>
    <3>1. /\ Left("viewer")' = Plan(u, muxer', start_pts')
          /\ Left("publisher")' = Plan(todo'["publisher"], muxer', start_pts')
      BY DEF Left
    <3>2. muxer' = muxer /\ start_pts' = start_pts
      BY <1>5
    <3>. QED BY <2>5, <2>12, <3>1, <3>2 DEF rest
  <2>14. due' = Cat(Left("viewer")', Left("publisher")')
    BY <2>7, <2>11, <2>13, CatEmpty
  <2>15. Closes(posted') => Closes(posted) \/ Closes(v)
    <3>1. x.is_close => Closes(v)
      <4>1. 1 \in DOMAIN v /\ v[1].op = "send" /\ (x.is_close => v[1].is_close)
        BY <1>1, <2>2, ViewerHead DEF w
      <4>. QED BY <4>1 DEF Closes
    <3>. QED BY <2>11, <3>1
  <2>16. cpus > 1 => Unread'
    BY <1>5, <1>6, <2>5, <2>12, <2>15 DEF Unread
  <2>. QED BY <1>5, <1>6, <2>6, <2>11, <2>14, <2>16 DEF Delivery
<1>. QED BY <1>7, <1>8

\* send() in a read_cb: with one io thread no handler of the viewer is in
\* progress; with more, none that sends is.
LEMMA PublisherSendDelivery ==
    ASSUME Inv, Delivery, todo["publisher"] # <<>>, Send("publisher"), UNCHANGED <<cpus, requests>>
    PROVE  Delivery'
<1>. DEFINE v == todo["publisher"]
            u == todo'["publisher"]
            w == todo["publisher"][1]
<1>1. w = Head(v) /\ w.op = "send" /\ "viewer" \in Strands /\ "publisher" \in Strands
  BY PublisherHead DEF Send
<1>2. PublisherTurn(v)
  BY DEF Delivery
<1>3. /\ w \in Writes /\ w.left = w.size /\ w.mem # "dead" /\ ~w.ec /\ ~w.is_close
      /\ Said(w, muxer, start_pts) = Bytes(w.name[1], w.name[2], w.size)
  BY <1>1, <1>2, FirstWrite
<1>4. Pool("publisher") \in 1..MaxRequests
  <2>1. PICK n \in 0..Len(todo["publisher"]) :
          InReadCb(todo["publisher"], n) /\ (holding # 0 <=> n # 0)
    BY DEF Inv, ConnectionInv, PublisherInOrder
  <2>2. 1 \in DOMAIN todo["publisher"]
    BY TodoFacts, TailLemma
  <2>3. 1 < n
    BY <1>1, <2>1, <2>2 DEF InReadCb
  <2>4. holding # 0
    BY <2>1, <2>3
  <2>. QED BY <2>4, TodoFacts DEF Pool
<1>. HIDE DEF w
<1>5. /\ u \in Seq(Steps) /\ After(v, u)
      /\ \A t \in Strands \ {"publisher"} : todo'[t] = todo[t]
      /\ life' = life /\ UNCHANGED <<muxer, reader, orphans, start_pts>>
      /\ "cut off" \in fate' <=> "cut off" \in fate
      /\ life # "open" => UNCHANGED <<posted, due, garbled, split>>
      /\ life = "open" => \E x \in Writes :
           /\ Start(x, posted) /\ x.name = w.name /\ x.size = w.size /\ x.left = w.left
           /\ x.mem = w.mem /\ x.is_close = w.is_close /\ x.ec = w.ec
  BY <1>1, <1>3, <1>4, TodoFacts, SendFacts
<1>6. /\ ViewerTurn(todo'["viewer"]) /\ PublisherTurn(u) /\ MuxersInOrder'
  BY <1>1, <1>5, SendTurns
<1>7. CASE ~Open'
  BY <1>5, <1>6, <1>7, SendShut
<1>8. CASE Open'
  <2>1. life = "open" /\ ~split'
    BY <1>5, <1>8 DEF Open
  <2>2. PICK x \in Writes :
           /\ Start(x, posted) /\ x.name = w.name /\ x.size = w.size /\ x.left = w.left
           /\ x.mem = w.mem /\ x.is_close = w.is_close /\ x.ec = w.ec
    BY <1>5, <2>1
  <2>3. ~split
    BY <2>1, <2>2, QueueFacts, Zenon DEF Start
  <2>4. Open
    BY <2>1, <2>3 DEF Open
  <2>5. /\ ~garbled /\ "cut off" \notin fate /\ NoError(posted)
        /\ due = Cat(Left("viewer"), Left("publisher"))
        /\ cpus > 1 => Unread \/ Announced
    BY <2>3, <2>4 DEF Delivery
  <2>6. cpus > 1 => Announced
    <3>1. 1 \in DOMAIN v /\ v[1].op = "send"
      BY <1>1, TodoFacts, TailLemma DEF w
    <3>2. Has(todo["publisher"], {"send", "call"})
      BY <3>1 DEF Has
    <3>. QED BY <2>5, <3>2 DEF Unread
  <2>7. ~Has(todo["viewer"], {"send", "call"})
    <3>1. CASE cpus = 1
      <4>1. todo["viewer"] = <<>>
        BY <3>1 DEF Inv, ConnectionInv, PublisherInOrder
      <4>. QED BY <4>1 DEF Has
    <3>2. CASE cpus > 1
      BY <2>6, <3>2, TodoSteps DEF Announced, Has
    <3>. QED BY <3>1, <3>2, TodoSteps
  <2>8. todo["viewer"] \in Seq(Steps) /\ v \in Seq(Steps) /\ Left("publisher") \in Seq(Octets)
    BY TodoSteps
  <2>9. \A m, p : Plan(todo["viewer"], m, p) = <<>>
    BY <2>7, <2>8, QuietLemma
  <2>. DEFINE said == Bytes(w.name[1], w.name[2], w.size)
              rest == Plan(u, muxer, start_pts)
  <2>10. rest \in Seq(Octets)
    BY <1>5, PlanType
  <2>11. Left("publisher") = Cat(said, rest)
    <3>1. Turns(v, u)
      BY <1>5, <2>8 DEF Turns
    <3>2. Plan(v, muxer, start_pts) = Cat(Said(v[1], muxer, start_pts), Plan(u, muxer, start_pts))
      BY ONLY <3>1, TurnsPlan
    <3>. QED BY <1>3, <3>2 DEF Left, w
  <2>12. due = Cat(said, rest)
    <3>1. Left("viewer") = <<>>
      BY <2>9 DEF Left
    <3>. QED BY <2>5, <2>8, <2>11, <3>1, CatEmpty
  <2>13. x.left = x.size /\ x.mem # "dead" /\ ~x.ec /\ ~x.is_close
         /\ due = Cat(Bytes(x.name[1], x.name[2], x.size), rest)
    BY <1>3, <2>2, <2>12
  <2>. HIDE DEF rest, said
  <2>14. /\ due' = rest /\ ~garbled'
         /\ Closes(posted') => Closes(posted)
         /\ NoError(posted) => NoError(posted')
    BY <2>1, <2>2, <2>5, <2>10, <2>13, StartWhole
  <2>15. todo'["viewer"] = todo["viewer"]
    BY <1>1, <1>5
  <2>16. Left("publisher")' = rest /\ Left("viewer")' = <<>>
    <3>1. /\ Left("publisher")' = Plan(u, muxer', start_pts')
          /\ Left("viewer")' = Plan(todo'["viewer"], muxer', start_pts')
      BY DEF Left
    <3>2. muxer' = muxer /\ start_pts' = start_pts
      BY <1>5
    <3>. QED BY <2>9, <2>15, <3>1, <3>2 DEF rest
  <2>17. due' = Cat(Left("viewer")', Left("publisher")')
    BY <2>10, <2>14, <2>16, CatEmpty
  <2>18. cpus > 1 => Announced'
    BY <2>6, <2>14, <2>15 DEF Announced
  <2>. QED BY <1>5, <1>6, <2>5, <2>14, <2>17, <2>18 DEF Delivery
<1>. QED BY <1>7, <1>8

-----------------------------------------------------------------------------
(* The viewer's handlers                                                   *)

\* Steps without a call send the same, whoever the viewer is.
LEMMA NoCallPlan ==
    ASSUME NEW v \in Seq(Steps), ~Has(v, {"call"})
    PROVE  \A m, p, n, q : Plan(v, m, p) = Plan(v, n, q)
<1>. SUFFICES ASSUME NEW m, NEW p, NEW n, NEW q PROVE Plan(v, m, p) = Plan(v, n, q)
  OBVIOUS
<1>1. \A i \in DOMAIN v : Said(v[i], m, p) = Said(v[i], n, q)
  BY DEF Has, Said
<1>. QED BY <1>1, PlanSame

\* What a step of the viewer's handler does that sends nothing, but changes the
\* muxer or what it is given.
LEMMA ViewerGoesDelivery ==
    ASSUME Inv, Delivery, todo["viewer"] # <<>>,
           todo["viewer"][1].op \in {"create", "regist"}, Goes("viewer", <<>>),
           UNCHANGED <<cpus, requests, life, due, garbled, split, posted, fate>>,
           MuxersInOrder', Open /\ cpus > 1 => Unread' \/ Announced'
    PROVE  Delivery'
<1>. DEFINE v == todo["viewer"]
            u == todo'["viewer"]
<1>1. "viewer" \in Strands /\ "publisher" \in Strands /\ "publisher" # "viewer"
  BY DEF Strands
<1>2. u = <<>> \o Tail(v) /\ todo'["publisher"] = todo["publisher"]
  BY <1>1, StrandSteps
<1>3. v \in Seq(Steps) /\ u \in Seq(Steps) /\ After(v, u)
  BY <1>1, <1>2, StrandSteps
<1>4. Turns(v, u)
  BY <1>3 DEF Turns
<1>5. ViewerTurn(u) /\ PublisherTurn(todo'["publisher"])
  BY <1>2, <1>4, TurnsKept DEF Delivery
<1>6. ASSUME Open
      PROVE  due' = Cat(Left("viewer")', Left("publisher")') /\ NoError(posted')
  <2>1. /\ \A m, p : Plan(todo["publisher"], m, p) = <<>>
        /\ due = Cat(Left("viewer"), <<>>) /\ NoError(posted)
    BY <1>6, ViewerFirst DEF Delivery
  <2>2. \A m, p, n, q : Plan(v, m, p) = Plan(v, n, q)
    BY TodoSteps, NoCallPlan
  <2>3. \A m, p : Said(v[1], m, p) = <<>>
    BY DEF Said
  <2>4. \A m, p : Quietly(v, u, m, p)
    BY <1>3, <2>3 DEF Quietly
  <2>5. \A m, p : Plan(u, m, p) = Plan(v, m, p)
    BY ONLY <2>4, QuietlyPlan
  <2>6. /\ Left("viewer")' = Plan(u, muxer', start_pts')
        /\ Left("publisher")' = Plan(todo'["publisher"], muxer', start_pts')
        /\ Left("viewer") = Plan(v, muxer, start_pts)
    BY DEF Left
  <2>. HIDE DEF u, v
  <2>7. Left("viewer")' = Left("viewer")
    BY ONLY <2>2, <2>5, <2>6
  <2>8. Left("publisher")' = <<>>
    BY <1>2, <2>1, <2>6
  <2>. QED BY <2>1, <2>7, <2>8
<1>7. (Open' <=> Open) /\ (~split' => ~garbled' /\ "cut off" \notin fate')
  BY DEF Open, Delivery
<1>8. Open => (cpus > 1 => Unread \/ Announced)'
  BY <1>1
<1>. QED BY <1>5, <1>6, <1>7, <1>8 DEF Delivery

\* flv_muxer::create(): the viewer has no reader until regist_reader.
LEMMA CreateDelivery ==
    ASSUME Inv, Delivery, todo["viewer"] # <<>>, create, UNCHANGED <<cpus, requests>>
    PROVE  Delivery'
<1>. DEFINE v == todo["viewer"]
            u == todo'["viewer"]
<1>1. /\ v[1].op = "create" /\ Goes("viewer", <<>>) /\ ReleaseMuxer /\ muxer' = requests
      /\ UNCHANGED <<life, due, garbled, split, posted, fate>>
  BY ViewerHead DEF create, connection, socket
<1>2. "viewer" \in Strands /\ "publisher" \in Strands /\ "publisher" # "viewer"
  BY DEF Strands
<1>3. u = <<>> \o Tail(v) /\ todo'["publisher"] = todo["publisher"]
  BY <1>1, <1>2, StrandSteps
<1>4. v \in Seq(Steps) /\ u \in Seq(Steps) /\ After(v, u)
  BY <1>2, <1>3, StrandSteps
<1>5. /\ Closes(u) => Closes(v)
      /\ \A ops : Has(u, ops) => Has(v, ops)
      /\ \A ops, late : Before(v, ops, late) /\ v[1].op \in late => ~Has(u, ops)
  BY <1>4, AfterFacts
<1>6. ~Has(u, {"create"})
  <2>1. Before(v, {"create"}, {"create"})
    BY DEF Inv, ConnectionInv, ViewerInOrder, Before
  <2>. QED BY <1>1, <1>5, <2>1
<1>7. CreatePending /\ ~CreatePending'
  <2>1. CreatePending' <=> Has(u, {"create"})
    BY DEF CreatePending, Has
  <2>2. CreatePending
    BY <1>1, ViewerHead DEF CreatePending
  <2>. QED BY <1>6, <2>1, <2>2
<1>8. MuxersInOrder'
  <2>1. /\ orphans' \subseteq orphans \cup {muxer}
        /\ reader = "old" \/ orphans' = orphans
    BY <1>1 DEF ReleaseMuxer
  <2>2. /\ orphans \subseteq 1..requests /\ requests \notin orphans /\ muxer # requests
        /\ reader = "old" => muxer \in 1..requests
    BY <1>7, MuxerFacts
  <2>3. requests \in 0..requests
    BY MuxerFacts
  <2>. QED BY <1>1, <1>7, <2>1, <2>2, <2>3 DEF MuxersInOrder
<1>9. Open /\ cpus > 1 => Unread' \/ Announced'
  <2>. SUFFICES ASSUME Open, cpus > 1 PROVE Unread'
    OBVIOUS
  <2>1. Unread /\ requests # 0
    BY <1>1, ViewerFirst
  <2>2. reader' = "none" /\ orphans' = {}
    BY <1>1, <2>1 DEF ReleaseMuxer, Unread
  <2>. QED BY <1>1, <1>3, <1>5, <2>1, <2>2 DEF Unread
<1>. QED BY <1>1, <1>8, <1>9, ViewerGoesDelivery

\* The muxer is given its reader: all that start_muxing sends has been sent.
LEMMA RegistDelivery ==
    ASSUME Inv, Delivery, todo["viewer"] # <<>>, regist_reader, UNCHANGED <<cpus, requests>>
    PROVE  Delivery'
<1>. DEFINE v == todo["viewer"]
            u == todo'["viewer"]
            early == {"send", "create", "regist"}
<1>1. /\ v[1].op = "regist" /\ Goes("viewer", <<>>)
      /\ UNCHANGED <<life, due, garbled, split, posted, fate, muxer, orphans>>
  BY ViewerHead DEF regist_reader, connection, socket
<1>2. "viewer" \in Strands /\ "publisher" \in Strands /\ "publisher" # "viewer"
  BY DEF Strands
<1>3. u = <<>> \o Tail(v)
  BY <1>1, <1>2, StrandSteps
<1>4. v \in Seq(Steps) /\ u \in Seq(Steps) /\ After(v, u)
  BY <1>2, <1>3, StrandSteps
<1>5. /\ \A ops : Has(u, ops) => Has(v, ops)
      /\ \A ops, late : Before(v, ops, late) /\ v[1].op \in late => ~Has(u, ops)
  BY <1>4, AfterFacts
<1>6. MuxersInOrder'
  BY <1>1, <1>5, SameMuxers
<1>7. Open /\ cpus > 1 => Unread' \/ Announced'
  <2>. SUFFICES ASSUME Open, cpus > 1 PROVE Announced'
    OBVIOUS
  <2>1. Unread /\ requests # 0 /\ Has(v, {v[1].op})
    BY <1>1, ViewerFirst
  <2>2. ~Closes(posted)
    BY <1>1, <2>1 DEF Unread
  <2>3. Before(v, early, {"regist"})
    BY DEF Delivery, ViewerTurn
  <2>4. ~Has(u, early)
    BY <1>1, <1>5, <2>3
  <2>. QED BY <1>1, <2>1, <2>2, <2>4 DEF Announced
<1>. QED BY <1>1, <1>6, <1>7, ViewerGoesDelivery

\* A request arrives: all that was due has been sent.
LEMMA RecvDelivery ==
    ASSUME Inv, Delivery, NEW kind \in Kinds, NEW start \in {0, 2}, on_recv(kind, start)
    PROVE  Delivery'
<1>. DEFINE r == requests + 1
            v == Handler(kind, r, start) \o << Do("do_read") >>
<1>1. /\ CanRun("viewer") /\ life = "open" /\ requests < (IF cpus = 1 THEN MaxRequests ELSE 1)
      /\ requests' = r /\ todo' = [todo EXCEPT !["viewer"] = v] /\ Expect(Answer(kind, r))
      /\ UNCHANGED <<cpus, life, muxer, reader, orphans, start_pts, posted, garbled, split, fate>>
  BY DEF on_recv, muxing
<1>2. r \in Nat /\ r # 0 /\ start \in Nat /\ requests \in Nat /\ r = requests + 1
  BY MuxerFacts
<1>3. /\ v \in Seq(Steps) /\ ViewerTurn(v) /\ \A m, p : Plan(v, m, p) = Answer(kind, r)
      /\ Answer(kind, r) \in Seq(Octets)
      /\ Closes(v) => ~Has(v, {"regist"})
  BY <1>2, HandlerLemma
<1>. HIDE DEF v, r
<1>4. todo'["viewer"] = v /\ todo'["publisher"] = todo["publisher"]
  BY <1>1, TodoFacts DEF Strands
<1>5. todo["viewer"] = <<>> /\ (cpus = 1 => todo["publisher"] = <<>>)
  BY <1>1, CanRunLemma
<1>6. MuxersInOrder'
  <2>1. /\ orphans \subseteq 1..requests /\ muxer \in 0..requests /\ muxer \notin orphans
    BY MuxerFacts
  <2>2. /\ 1..requests \subseteq 1..r /\ 0..requests \subseteq 0..r
        /\ r \notin 1..requests /\ r \notin 0..requests
    BY <1>2
  <2>. QED BY <1>1, <2>1, <2>2 DEF MuxersInOrder
<1>7. PublisherTurn(todo'["publisher"])
  BY <1>4 DEF Delivery
<1>8. (Open' <=> Open) /\ (~split' => ~garbled' /\ "cut off" \notin fate')
  BY <1>1 DEF Open, Delivery
<1>9. ASSUME Open
      PROVE  /\ due' = Cat(Left("viewer")', Left("publisher")') /\ NoError(posted')
             /\ cpus > 1 => Unread'
  <2>1. /\ ~garbled /\ NoError(posted) /\ due = Cat(Left("viewer"), Left("publisher"))
        /\ cpus > 1 => Unread \/ Announced
    BY <1>9 DEF Open, Delivery
  <2>2. cpus > 1 => requests = 0
    <3>1. cpus > 1 => cpus # 1
      BY TodoSteps
    <3>. QED BY <1>1, <1>2, <3>1
  <2>3. cpus > 1 => Unread
    BY <2>1, <2>2 DEF Announced
  <2>4. \A m, p : Plan(todo["publisher"], m, p) = <<>>
    BY <1>5, <2>3, QuietPublisher
  <2>5. \A m, p : Plan(todo["viewer"], m, p) = <<>>
    <3>1. todo["viewer"] \in Seq(Steps) /\ ~Has(todo["viewer"], {"send", "call"})
      BY <1>5, TodoSteps DEF Has
    <3>. QED BY <3>1, QuietLemma
  <2>6. due = <<>>
    <3>1. Left("viewer") = <<>> /\ Left("publisher") = <<>>
      BY <2>4, <2>5 DEF Left
    <3>. QED BY <2>1, <3>1 DEF Cat
  <2>7. due' = Answer(kind, r)
    <3>1. due' = Cat(<<>>, Answer(kind, r))
      BY <1>1, <2>1, <2>6 DEF Expect, Alive, Cat
    <3>. QED BY <1>3, <3>1, CatEmpty
  <2>8. Left("viewer")' = Answer(kind, r) /\ Left("publisher")' = <<>>
    <3>1. /\ Left("viewer")' = Plan(todo'["viewer"], muxer', start_pts')
          /\ Left("publisher")' = Plan(todo'["publisher"], muxer', start_pts')
      BY DEF Left
    <3>. QED BY <1>3, <1>4, <2>4, <3>1
  <2>9. due' = Cat(Left("viewer")', Left("publisher")')
    BY <1>3, <2>7, <2>8, CatEmpty
  <2>10. cpus > 1 => Unread'
    BY <1>1, <1>2, <1>3, <1>4, <2>2, <2>3 DEF Unread
  <2>. QED BY <1>1, <2>1, <2>9, <2>10
<1>. QED BY <1>1, <1>3, <1>4, <1>6, <1>7, <1>8, <1>9 DEF Delivery

-----------------------------------------------------------------------------
(* The loops of distribute()                                               *)

\* A packet is distributed: nothing is sent before the readers are looked for.
LEMMA DistributeDelivery ==
    ASSUME Inv, Delivery, NEW size \in BodySizes, NEW is_idr \in BOOLEAN, distribute(size, is_idr)
    PROVE  Delivery'
<1>. DEFINE pkt == [time_stamp |-> tags + 1, size |-> size]
            a == With("old clients", pkt)
            b == With(IF is_idr THEN "recache" ELSE "cache", pkt)
            c == Do("new clients")
            q == << a, b, c >>
<1>1. /\ CanRun("publisher") /\ tags < MaxTags
      /\ todo' = [todo EXCEPT !["publisher"] = q]
      /\ UNCHANGED <<cpus, life, muxer, reader, orphans, start_pts, posted, due, garbled, split,
                     requests, fate>>
  BY DEF distribute, connection, muxing, socket
<1>2. tags \in 0..MaxTags
  BY RestFacts DEF RestOK
<1>3. pkt \in Packets
  BY <1>1, <1>2, NextPacket
<1>. HIDE DEF pkt
<1>4. /\ a \in Steps /\ b \in Steps /\ c \in Steps
      /\ a.op = "old clients" /\ b.op \in {"cache", "recache"} /\ c.op = "new clients"
  <2>1. /\ With("old clients", pkt) \in LoopSteps /\ With("cache", pkt) \in LoopSteps
        /\ With("recache", pkt) \in LoopSteps /\ c \in LoopSteps
    BY <1>3 DEF With, Do, LoopSteps
  <2>2. LoopSteps \subseteq Steps
    BY DEF Steps, PublisherSteps
  <2>3. b = With("cache", pkt) \/ b = With("recache", pkt)
    OBVIOUS
  <2>4. /\ With("old clients", pkt).op = "old clients" /\ With("cache", pkt).op = "cache"
        /\ With("recache", pkt).op = "recache" /\ c.op = "new clients"
    BY DEF With, Do
  <2>. HIDE DEF b, c
  <2>. QED BY <2>1, <2>2, <2>3, <2>4
<1>5. q \in Seq(Steps) /\ DOMAIN q = {1, 2, 3} /\ q[1] = a /\ q[2] = b /\ q[3] = c
  <2>1. a \in Steps /\ b \in Steps /\ c \in Steps
    BY <1>4
  <2>. HIDE DEF a, b, c
  <2>2. << a, b, c >> \in Seq(Steps)
    BY ONLY <2>1
  <2>3. DOMAIN << a, b, c >> = {1, 2, 3}
    BY ONLY <2>1
  <2>. QED BY <2>2, <2>3
<1>. HIDE DEF a, b, c, q
<1>6. \A i \in DOMAIN q : q[i].op \in {"old clients", "cache", "recache", "new clients"}
  BY <1>4, <1>5
<1>7. ~Has(q, {"send", "call"}) /\ \A i \in DOMAIN q : q[i].op # "send"
  BY <1>6 DEF Has
<1>8. PublisherTurn(q)
  BY <1>6, <1>7 DEF PublisherTurn, Before
<1>9. todo["publisher"] = <<>>
  BY <1>1, CanRunLemma
<1>10. todo'["publisher"] = q /\ todo'["viewer"] = todo["viewer"]
  BY <1>1, TodoFacts DEF Strands
<1>11. Plan(q, muxer, start_pts) = <<>>
  BY <1>5, <1>7, QuietLemma
<1>12. Left("publisher") = <<>>
  <2>1. todo["publisher"] \in Seq(Steps) /\ ~Has(todo["publisher"], {"send", "call"})
    BY <1>9, TodoSteps DEF Has
  <2>. QED BY <2>1, QuietLemma DEF Left
<1>13. /\ ViewerTurn(todo'["viewer"]) /\ PublisherTurn(todo'["publisher"])
       /\ ~Has(todo'["publisher"], {"send", "call"})
       /\ Plan(todo'["viewer"], muxer, start_pts) = Left("viewer")
       /\ Plan(todo'["publisher"], muxer, start_pts) = Left("publisher")
       /\ \A ops : Has(todo'["viewer"], ops) => Has(todo["viewer"], ops)
       /\ Closes(todo'["viewer"]) => Closes(todo["viewer"])
  BY <1>7, <1>8, <1>10, <1>11, <1>12 DEF Left, Delivery
<1>. QED BY <1>1, <1>13, KeepOrder

\* distribute() finds the viewer's reader, or not: by then it has sent what it
\* had to, and the calls that it adds send what is now due.
LEMMA FindDelivery ==
    ASSUME Inv, Delivery, todo["publisher"] # <<>>,
           todo["publisher"][1].op \in {"old clients", "new clients"},
           NEW u \in Seq(Steps), Goes("publisher", u), NEW bytes,
           Plan(u, muxer, start_pts) = bytes, Expect(bytes),
           ~Has(u, {"send", "old clients", "new clients"}),
           reader = "none" /\ orphans = {} => ~Has(u, {"call"}),
           UNCHANGED <<cpus, requests, life, muxer, reader, orphans, start_pts, posted, garbled,
                       split, fate>>
    PROVE  Delivery'
<1>. DEFINE v == todo["publisher"]
            t == Tail(v)
<1>1. "viewer" \in Strands /\ "publisher" \in Strands /\ "publisher" # "viewer"
  BY DEF Strands
<1>2. todo'["publisher"] = u \o t /\ todo'["viewer"] = todo["viewer"]
  BY <1>1, StrandSteps
<1>3. Turns(v, t) /\ t \in Seq(Steps) /\ v \in Seq(Steps)
  BY <1>1, StrandSteps DEF Turns
<1>4. PublisherTurn(v) /\ PublisherTurn(t)
  BY <1>3, TurnsKept DEF Delivery
<1>5. ~Has(t, {"send", "call"})
  <2>1. Before(v, {"send", "call"}, {"old clients", "new clients"})
    BY <1>4 DEF PublisherTurn
  <2>2. \A ops, late : Before(v, ops, late) /\ v[1].op \in late => ~Has(t, ops)
    BY <1>3, AfterFacts DEF Turns
  <2>. QED BY <2>1, <2>2
<1>6. Left("publisher") = <<>>
  <2>1. \A m, p : Said(v[1], m, p) = <<>>
    BY DEF Said
  <2>2. Quietly(v, t, muxer, start_pts)
    BY <1>3, <2>1 DEF Quietly, Turns
  <2>3. Plan(t, muxer, start_pts) = Plan(v, muxer, start_pts)
    BY ONLY <2>2, QuietlyPlan
  <2>4. Plan(t, muxer, start_pts) = <<>>
    BY <1>3, <1>5, QuietLemma
  <2>. QED BY <2>3, <2>4 DEF Left
<1>7. bytes \in Seq(Octets)
  BY PlanType
<1>8. Plan(u \o t, muxer, start_pts) = bytes
  <2>1. Plan(t, muxer, start_pts) = <<>>
    BY <1>3, <1>5, QuietLemma
  <2>. HIDE DEF t
  <2>2. Plan(u \o t, muxer, start_pts) = Cat(bytes, <<>>)
    <3>1. u \in Seq(Steps) /\ t \in Seq(Steps)
      BY <1>3
    <3>2. Plan(u \o t, muxer, start_pts)
            = Cat(Plan(u, muxer, start_pts), Plan(t, muxer, start_pts))
      BY ONLY <3>1, PlanConcat
    <3>3. Plan(u, muxer, start_pts) = bytes
      OBVIOUS
    <3>. QED BY ONLY <2>1, <3>2, <3>3
  <2>. QED BY <1>7, <2>2, CatEmpty
<1>9. PublisherTurn(todo'["publisher"]) /\ ViewerTurn(todo'["viewer"])
  <2>1. \A i \in DOMAIN u : /\ u[i].op \notin {"old clients", "new clients"}
                            /\ u[i].op = "send" => Fresh(u[i]) /\ ~u[i].is_close
    BY DEF Has
  <2>. HIDE DEF t
  <2>2. PublisherTurn(u \o t)
    BY <1>3, <1>4, <2>1, BehindTurn
  <2>. QED BY <1>2, <2>2 DEF Delivery
<1>10. MuxersInOrder'
  BY <1>2, SameMuxers
<1>11. (Open' <=> Open) /\ (~split' => ~garbled' /\ "cut off" \notin fate')
  BY DEF Open, Delivery
<1>12. ASSUME Open
       PROVE  /\ due' = Cat(Left("viewer")', Left("publisher")') /\ NoError(posted')
              /\ cpus > 1 => Unread' \/ Announced'
  <2>1. /\ ~garbled /\ NoError(posted) /\ due = Cat(Left("viewer"), Left("publisher"))
        /\ cpus > 1 => Unread \/ Announced
    BY <1>12 DEF Open, Delivery
  <2>2. Left("viewer") \in Seq(Octets)
    BY TodoSteps
  <2>3. due = Left("viewer")
    BY <1>6, <2>1, <2>2, CatEmpty
  <2>4. due' = Cat(Left("viewer"), bytes)
    BY <1>12, <2>1, <2>3 DEF Expect, Alive, Open, Cat
  <2>5. Left("viewer")' = Left("viewer") /\ Left("publisher")' = bytes
    <3>1. /\ Left("viewer")' = Plan(todo'["viewer"], muxer', start_pts')
          /\ Left("publisher")' = Plan(todo'["publisher"], muxer', start_pts')
          /\ Left("viewer") = Plan(todo["viewer"], muxer, start_pts)
      BY DEF Left
    <3>2. muxer' = muxer /\ start_pts' = start_pts
      OBVIOUS
    <3>. QED BY ONLY <1>2, <1>8, <3>1, <3>2
  <2>6. Unread => Unread'
    <3>. SUFFICES ASSUME Unread PROVE Unread'
      OBVIOUS
    <3>1. ~Has(u, {"call"})
      BY DEF Unread
    <3>2. ~Has(u, {"send", "call"})
      BY <3>1 DEF Has
    <3>. HIDE DEF t
    <3>3. ~Has(u \o t, {"send", "call"})
      BY <1>3, <1>5, <3>2, HasConcat
    <3>. QED BY <1>2, <3>3 DEF Unread
  <2>7. Announced => Announced'
    BY <1>2 DEF Announced
  <2>. QED BY <2>1, <2>4, <2>5, <2>6, <2>7
<1>. QED BY <1>9, <1>10, <1>11, <1>12 DEF Delivery

\* The readers among the old clients are called with the packet: the viewer's
\* own, and those that leave() left behind.
LEMMA OldClientsDelivery ==
    ASSUME Inv, Delivery, todo["publisher"] # <<>>, OldClients, UNCHANGED <<cpus, requests>>
    PROVE  Delivery'
<1>. DEFINE pkt == todo["publisher"][1].arg
            pkts == IF reader = "old" THEN << pkt >> ELSE <<>>
            a == OrphanCalls(pkt)
            b == Calls(muxer, pkts)
            bytes == Wanted(pkts)
<1>1. /\ todo["publisher"][1].op = "old clients" /\ Goes("publisher", a \o b) /\ Expect(bytes)
      /\ UNCHANGED <<life, muxer, reader, orphans, start_pts, posted, garbled, split, fate>>
  BY PublisherHead DEF OldClients, connection, muxing
<1>2. pkt \in Packets /\ pkts \in Seq(Packets)
  <2>1. pkt \in Packets
    BY <1>1, PublisherHead, PublisherKinds
  <2>. HIDE DEF pkt
  <2>. QED BY <2>1
<1>3. pkts # <<>> => muxer \in 1..MaxRequests /\ reader # "none"
  <2>1. pkts # <<>> => reader = "old"
    OBVIOUS
  <2>2. reader = "old" => muxer \in 1..MaxRequests
    BY RestFacts DEF RestOK, AliveOK
  <2>. QED BY <2>1, <2>2
<1>4. bytes = WantedBy(pkts, muxer, start_pts)
  BY DEF Wanted, WantedBy
<1>. HIDE DEF pkts, pkt
<1>5. /\ b \in Seq(Steps) /\ Plan(b, muxer, start_pts) = bytes
      /\ \A ops : "call" \notin ops => ~Has(b, ops)
  BY <1>2, <1>3, <1>4, CallsPlan
<1>6. /\ a \in Seq(Steps) /\ Plan(a, muxer, start_pts) = <<>>
      /\ \A ops : "call" \notin ops => ~Has(a, ops)
      /\ orphans = {} => a = <<>>
  <2>1. muxer \notin orphans
    BY MuxerFacts
  <2>. QED BY <1>2, <2>1, OrphansPlan
<1>7. reader = "none" => b = <<>>
  BY <1>3 DEF Calls
<1>. HIDE DEF a, b, bytes
<1>8. a \o b \in Seq(Steps) /\ Plan(a \o b, muxer, start_pts) = bytes
  <2>1. a \o b \in Seq(Steps)
    BY <1>5, <1>6, JoinLemma
  <2>2. Plan(a \o b, muxer, start_pts) = Cat(<<>>, bytes)
    BY <1>5, <1>6, PlanConcat
  <2>3. bytes \in Seq(Octets)
    BY <1>5, PlanType
  <2>. QED BY <2>1, <2>2, <2>3, CatEmpty
<1>9. \A ops : Has(a \o b, ops) => Has(a, ops) \/ Has(b, ops)
  BY <1>5, <1>6, HasConcat
<1>10. ~Has(a \o b, {"send", "old clients", "new clients"})
  BY <1>5, <1>6, <1>9
<1>11. reader = "none" /\ orphans = {} => ~Has(a \o b, {"call"})
  BY <1>6, <1>7, <1>9 DEF Has
<1>. QED BY <1>1, <1>8, <1>10, <1>11, FindDelivery

\* A new client is called with every cached packet.
LEMMA NewClientsDelivery ==
    ASSUME Inv, Delivery, todo["publisher"] # <<>>, NewClients, UNCHANGED <<cpus, requests>>
    PROVE  Delivery'
<1>. DEFINE pkts == IF reader = "new" THEN cached ELSE <<>>
            a == << Do("merge") >>
            b == Calls(muxer, pkts)
            bytes == Wanted(pkts)
<1>1. /\ todo["publisher"][1].op = "new clients" /\ Goes("publisher", b \o a) /\ Expect(bytes)
      /\ UNCHANGED <<life, muxer, reader, orphans, start_pts, posted, garbled, split, fate>>
  BY PublisherHead DEF NewClients, connection, muxing
<1>2. pkts \in Seq(Packets)
  BY SameOther
<1>3. pkts # <<>> => muxer \in 1..MaxRequests /\ reader # "none"
  <2>1. pkts # <<>> => reader = "new"
    OBVIOUS
  <2>2. reader = "new" => muxer \in 1..MaxRequests
    BY RestFacts DEF RestOK, AliveOK
  <2>. QED BY <2>1, <2>2
<1>4. bytes = WantedBy(pkts, muxer, start_pts)
  BY DEF Wanted, WantedBy
<1>. HIDE DEF pkts
<1>5. /\ b \in Seq(Steps) /\ Plan(b, muxer, start_pts) = bytes
      /\ \A ops : "call" \notin ops => ~Has(b, ops)
  BY <1>2, <1>3, <1>4, CallsPlan
<1>6. /\ a \in Seq(Steps) /\ Plan(a, muxer, start_pts) = <<>>
      /\ ~Has(a, {"send", "old clients", "new clients"}) /\ ~Has(a, {"call"})
  <2>. DEFINE e == Do("merge")
  <2>1. e \in Steps /\ e.op = "merge"
    BY DEF Do, Steps, PublisherSteps, LoopSteps
  <2>. HIDE DEF e
  <2>2. a \in Seq(Steps) /\ Plan(a, muxer, start_pts) = Said(e, muxer, start_pts)
    BY <2>1, PlanOne DEF e
  <2>3. DOMAIN a = {1} /\ a[1] = e
    BY DEF e
  <2>. QED BY <2>1, <2>2, <2>3 DEF Said, Has
<1>7. reader = "none" => b = <<>>
  BY <1>3 DEF Calls
<1>. HIDE DEF a, b, bytes
<1>8. b \o a \in Seq(Steps) /\ Plan(b \o a, muxer, start_pts) = bytes
  <2>1. b \o a \in Seq(Steps)
    BY <1>5, <1>6, JoinLemma
  <2>2. Plan(b \o a, muxer, start_pts) = Cat(bytes, <<>>)
    <3>1. b \in Seq(Steps) /\ a \in Seq(Steps)
      BY <1>5, <1>6
    <3>2. Plan(b, muxer, start_pts) = bytes /\ Plan(a, muxer, start_pts) = <<>>
      BY <1>5, <1>6
    <3>3. Plan(b \o a, muxer, start_pts)
            = Cat(Plan(b, muxer, start_pts), Plan(a, muxer, start_pts))
      BY ONLY <3>1, PlanConcat
    <3>. QED BY ONLY <3>2, <3>3
  <2>3. bytes \in Seq(Octets)
    BY <1>5, PlanType
  <2>. QED BY <2>1, <2>2, <2>3, CatEmpty
<1>9. \A ops : Has(b \o a, ops) => Has(b, ops) \/ Has(a, ops)
  BY <1>5, <1>6, HasConcat
<1>10. ~Has(b \o a, {"send", "old clients", "new clients"})
  <2>1. ~Has(b, {"send", "old clients", "new clients"})
    BY <1>5
  <2>. QED BY ONLY <1>6, <1>9, <2>1
<1>11. reader = "none" /\ orphans = {} => ~Has(b \o a, {"call"})
  <2>1. ~Has(<<>>, {"call"})
    BY DEF Has
  <2>2. ~Has(a, {"call"})
    BY <1>6
  <2>. QED BY ONLY <1>7, <1>9, <2>1, <2>2
<1>. QED BY <1>1, <1>8, <1>10, <1>11, FindDelivery

-----------------------------------------------------------------------------
(* What the viewer is sent                                                 *)

\* Nothing is due on a new connection.
LEMMA InitDelivery == Init => Delivery
<1>. SUFFICES ASSUME Init PROVE Delivery
  OBVIOUS
<1>1. /\ todo["viewer"] = <<>> /\ todo["publisher"] = <<>> /\ posted = <<>> /\ due = <<>>
      /\ orphans = {} /\ muxer = 0 /\ requests = 0 /\ reader = "none"
      /\ ~garbled /\ fate = {}
  BY DEF Init, Strands
<1>2. <<>> \in Seq(Steps) /\ \A ops : ~Has(<<>>, ops)
  BY DEF Has
<1>3. ViewerTurn(<<>>) /\ PublisherTurn(<<>>)
  BY DEF ViewerTurn, PublisherTurn, Before
<1>4. Left("viewer") = <<>> /\ Left("publisher") = <<>>
  BY <1>1, <1>2, QuietLemma DEF Left
<1>5. Cat(<<>>, <<>>) = <<>>
  <2>1. <<>> \in Seq(Steps)
    BY <1>2
  <2>. QED BY ONLY <2>1, CatEmpty
<1>6. ~Closes(<<>>) /\ NoError(<<>>)
  BY DEF Closes, NoError
<1>7. MuxersInOrder
  BY <1>1 DEF MuxersInOrder, CreatePending
<1>8. Unread
  BY <1>1, <1>2, <1>6 DEF Unread
<1>. QED BY <1>1, <1>3, <1>4, <1>5, <1>6, <1>7, <1>8 DEF Delivery

\* A step of the viewer's handler.
LEMMA ViewerDelivery == Inv /\ Delivery /\ ViewerStep => Delivery'
<1>. SUFFICES ASSUME Inv, Delivery, ViewerStep PROVE Delivery'
  OBVIOUS
<1>1. todo["viewer"] # <<>> /\ UNCHANGED <<cpus, source, requests>> /\ "viewer" \in Strands
  BY DEF ViewerStep, Strands
<1>2. UNCHANGED <<cpus, requests>>
  BY <1>1
<1>3. Send("viewer") \/ ReturnStep("viewer") \/ create \/ regist_reader \/ do_read
  BY DEF ViewerStep
<1>4. CASE Send("viewer")
  BY <1>1, <1>2, <1>4, ViewerSendDelivery
<1>5. CASE ReturnStep("viewer")
  BY <1>1, <1>2, <1>5, ReturnDelivery
<1>6. CASE create
  BY <1>1, <1>2, <1>6, CreateDelivery
<1>7. CASE regist_reader
  BY <1>1, <1>2, <1>7, RegistDelivery
<1>8. CASE do_read
  BY <1>1, <1>8, DoReadDelivery
<1>. QED BY <1>3, <1>4, <1>5, <1>6, <1>7, <1>8

\* A step of the publisher's.
LEMMA PublisherDelivery == Inv /\ Delivery /\ PublisherStep => Delivery'
<1>. SUFFICES ASSUME Inv, Delivery, PublisherStep PROVE Delivery'
  OBVIOUS
<1>1. /\ todo["publisher"] # <<>> /\ UNCHANGED <<cpus, broadcast, tags, requests>>
      /\ "publisher" \in Strands
  BY DEF PublisherStep, Strands
<1>2. UNCHANGED <<cpus, requests>>
  BY <1>1
<1>3. \/ Send("publisher") \/ ReturnStep("publisher")
      \/ OldClients \/ Cache \/ NewClients \/ Merge \/ read_cb \/ Release
  BY DEF PublisherStep
<1>4. CASE Send("publisher")
  BY <1>1, <1>2, <1>4, PublisherSendDelivery
<1>5. CASE ReturnStep("publisher")
  BY <1>1, <1>2, <1>5, ReturnDelivery
<1>6. CASE OldClients
  BY <1>1, <1>2, <1>6, OldClientsDelivery
<1>7. CASE Cache
  BY <1>1, <1>7, CacheDelivery
<1>8. CASE NewClients
  BY <1>1, <1>2, <1>8, NewClientsDelivery
<1>9. CASE Merge
  BY <1>1, <1>9, MergeDelivery
<1>10. CASE read_cb
  BY <1>1, <1>10, ReadCbDelivery
<1>11. CASE Release
  BY <1>1, <1>11, ReleaseDelivery
<1>. QED BY <1>3, <1>4, <1>5, <1>6, <1>7, <1>8, <1>9, <1>10, <1>11

\* Nothing happens.
LEMMA StutterDelivery == Inv /\ Delivery /\ UNCHANGED vars => Delivery'
<1>. SUFFICES ASSUME Inv, Delivery, UNCHANGED vars PROVE Delivery'
  OBVIOUS
<1>1. /\ UNCHANGED <<cpus, todo, muxer, requests, start_pts, orphans, reader, posted, life, split>>
      /\ UNCHANGED <<garbled, fate, due>>
  BY DEF vars, connection, muxing, socket
<1>2. (Closes(posted') => Closes(posted)) /\ (NoError(posted) => NoError(posted'))
  BY <1>1
<1>. QED BY <1>1, <1>2, KeepIdle

\* Every step, of either strand, of the socket or of the source.
LEMMA NextDelivery == Inv /\ Delivery /\ [Next]_vars => Delivery'
<1>. SUFFICES ASSUME Inv, Delivery, [Next]_vars PROVE Delivery'
  OBVIOUS
<1>1. CASE ViewerStep
  BY <1>1, ViewerDelivery
<1>2. CASE PublisherStep
  BY <1>2, PublisherDelivery
<1>3. ASSUME NEW kind \in Kinds, NEW start \in {0, 2}, on_recv(kind, start) PROVE Delivery'
  BY <1>3, RecvDelivery
<1>4. CASE ParserThrows
  BY <1>4, ThrowsDelivery
<1>5. CASE WriteDone
  BY <1>5, WriteDoneDelivery
<1>6. CASE ReadFails
  BY <1>6, ReadFailsDelivery
<1>7. ASSUME NEW size \in BodySizes, NEW is_idr \in BOOLEAN, distribute(size, is_idr)
      PROVE  Delivery'
  BY <1>7, DistributeDelivery
<1>8. CASE detach_all_readers
  BY <1>8, DetachDelivery
<1>9. CASE Writable
  BY <1>9, WritableDelivery
<1>10. CASE Drain
  BY <1>10, DrainDelivery
<1>11. CASE UNCHANGED vars
  BY <1>11, StutterDelivery
<1>. QED
  BY <1>1, <1>2, <1>3, <1>4, <1>5, <1>6, <1>7, <1>8, <1>9, <1>10, <1>11 DEF Next

\* In every state.
LEMMA AlwaysDelivery == Spec => [](Inv /\ Delivery)
BY InitInv, StepInv, InitDelivery, NextDelivery, PTL DEF Spec

\* As long as every write is taken whole, no write of one strand gets before
\* what the other still has to send: the handlers' steps are in their order, no
\* muxer takes another's place, with several io threads either no packet is on
\* its way yet to the viewer or no answer is any more, and no write has failed
\* on a session that is still open.
THEOREM OutputSafe == Spec => []OutputInv
<1>1. Inv /\ Delivery => OutputInv
  BY DeliveryLemma DEF Inv, OutputInv
<1>. QED BY <1>1, AlwaysDelivery, PTL

\* As long as every write is taken whole, what an open session is still owed is
\* what its handlers are still to send, in that order: start_muxing's headers
\* before the first tag, and of each tag write_flv's header, its body and its
\* size.  Nothing is written that is not the next to come, nothing is left out,
\* and no answer is cut off when stop_session stops the session behind it.  With
\* several io threads that is of a connection with one request (on_recv's bound).
THEOREM AnswersDelivered == Spec => []AnsweredInFull
<1>1. Inv /\ Delivery => AnsweredInFull
  BY DeliveryLemma
<1>. QED BY <1>1, AlwaysDelivery, PTL
=============================================================================
