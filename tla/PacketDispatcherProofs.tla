----------------------- MODULE PacketDispatcherProofs -----------------------
(***************************************************************************)
(* Proofs that the dispatcher keeps its invariants for every set of        *)
(* readers, every cache size and every number of packets and io threads,   *)
(* and that it implements LiveChannel.                                     *)
(***************************************************************************)
EXTENDS PacketDispatcher, SequenceTheorems, TLAPS

USE DEF SourceStates, ViewerStates

-----------------------------------------------------------------------------
(* The operators                                                           *)

\* The constructor's clamp leaves room for at least one packet.
LEMMA MaxSizePositive == max_size_ \in Nat /\ max_size_ >= 1
BY ConstantsAssumption DEF max_size_

\* What Cached returns: the packet at the end, before it the newest packets
\* of the old cache, as many as fit, or none after an IDR frame.
IsCacheAfter(c, list, pkt, idrs) ==
    /\ Len(c) >= 1 /\ Len(c) <= max_size_
    /\ c[Len(c)] = pkt
    /\ pkt \in idrs => Len(c) = 1
    /\ pkt \notin idrs =>
        /\ Len(c) = IF Len(list) < max_size_ THEN Len(list) + 1 ELSE max_size_
        /\ \A i \in 1..(Len(c) - 1) : c[i] = list[i + Len(list) - Len(c) + 1]

\* Section 2 of distribute(), pop_front loop included, does that.
LEMMA CachedLemma ==
    ASSUME NEW S, NEW list \in Seq(S), NEW pkt \in S, NEW K,
           Len(list) <= max_size_
    PROVE  /\ Cached(list, pkt, K) \in Seq(S)
           /\ IsCacheAfter(Cached(list, pkt, K), list, pkt, K)
<1>. DEFINE c == Cached(list, pkt, K)
            room == max_size_ - 1
            kept == IF pkt \in K THEN <<>>
                    ELSE IF Len(list) > room
                         THEN SubSeq(list, Len(list) - room + 1, Len(list)) ELSE list
<1>1. c = Append(kept, pkt)
  BY DEF Cached
<1>. HIDE DEF c
<1>2. room \in Nat /\ Len(list) \in Nat
  BY MaxSizePositive
<1>3. kept \in Seq(S) /\ Len(kept) <= room
  <2>1. CASE pkt \in K
    BY <2>1, <1>2
  <2>2. CASE pkt \notin K /\ Len(list) > room
    BY <2>2, <1>2
  <2>3. CASE pkt \notin K /\ ~(Len(list) > room)
    BY <2>3, <1>2
  <2>. QED BY <2>1, <2>2, <2>3
<1>4. pkt \in K => Len(kept) = 0
  OBVIOUS
<1>5. pkt \notin K =>
        /\ Len(kept) = IF Len(list) > room THEN room ELSE Len(list)
        /\ \A i \in 1..Len(kept) : kept[i] = list[i + Len(list) - Len(kept)]
  <2>1. CASE pkt \notin K /\ Len(list) > room
    BY <2>1, <1>2
  <2>2. CASE pkt \notin K /\ ~(Len(list) > room)
    BY <2>2, <1>2
  <2>. QED BY <2>1, <2>2
<1>. HIDE DEF kept
<1>6. /\ c \in Seq(S)
      /\ Len(c) = Len(kept) + 1 /\ Len(kept) \in Nat
      /\ c[Len(kept) + 1] = pkt
      /\ \A i \in 1..Len(kept) : c[i] = kept[i]
  BY <1>1, <1>3
<1>7. Len(c) >= 1 /\ Len(c) <= max_size_ /\ Len(kept) = Len(c) - 1
  BY <1>2, <1>3, <1>6, MaxSizePositive
<1>8. ASSUME pkt \notin K
      PROVE  /\ Len(c) = IF Len(list) < max_size_ THEN Len(list) + 1 ELSE max_size_
             /\ \A i \in 1..(Len(c) - 1) : c[i] = list[i + Len(list) - Len(c) + 1]
  <2>1. Len(c) = IF Len(list) < max_size_ THEN Len(list) + 1 ELSE max_size_
    BY <1>8, <1>2, <1>5, <1>6, MaxSizePositive
  <2>2. ASSUME NEW i \in 1..(Len(c) - 1)
        PROVE  c[i] = list[i + Len(list) - Len(c) + 1]
    <3>1. i \in 1..Len(kept) /\ i + Len(list) - Len(c) + 1 = i + Len(list) - Len(kept)
      BY <1>2, <1>6, <1>7
    <3>. QED BY <3>1, <1>8, <1>5, <1>6
  <2>. QED BY <2>1, <2>2
<1>. QED
  BY <1>4, <1>6, <1>7, <1>8 DEF c, IsCacheAfter

\* Appending the next packet to a run of consecutive packets.
LEMMA ConsecutiveAppend ==
    ASSUME NEW N \in Nat, NEW s \in Seq(1..N), NEW p \in Int, Consecutive(s),
           s # <<>> => Last(s) = p - 1
    PROVE  Consecutive(s \o <<p>>)
<1>1. s \o <<p>> = Append(s, p)
  OBVIOUS
<1>2. Len(Append(s, p)) = Len(s) + 1 /\ Len(s) \in Nat
  OBVIOUS
<1>3. CASE s = <<>>
  BY <1>3 DEF Consecutive
<1>4. CASE s # <<>>
  <2>1. Len(s) >= 1 /\ s[Len(s)] = s[1] + Len(s) - 1
    BY <1>4 DEF Consecutive
  <2>2. p = s[1] + Len(s)
    BY <2>1, <1>4 DEF Last
  <2>3. ASSUME NEW i \in 1..(Len(s) + 1)
        PROVE  Append(s, p)[i] = Append(s, p)[1] + i - 1
    <3>1. CASE i \in 1..Len(s)
      <4>1. s[i] = s[1] + i - 1
        BY <3>1 DEF Consecutive
      <4>. QED BY <4>1, <3>1, <2>1
    <3>2. CASE i = Len(s) + 1
      BY <3>2, <2>1, <2>2
    <3>. QED BY <3>1, <3>2, <1>2
  <2>. QED BY <2>3, <1>1, <1>2 DEF Consecutive
<1>. QED BY <1>3, <1>4

-----------------------------------------------------------------------------
(* The inductive invariant                                                 *)

\* The empty dispatcher of a new broadcast satisfies the invariant.
LEMMA InitIndInv == Init => IndInv
<1>. SUFFICES ASSUME Init PROVE IndInv
  OBVIOUS
<1>1. TypeOK
  BY ConstantsAssumption, MaxSizePositive DEF Init, TypeOK
<1>2. CacheIsLiveTail
  BY DEF Init, CacheIsLiveTail, CachedCount
<1>3. NoGapNoDuplicate
  BY DEF Init, NoGapNoDuplicate, Consecutive
<1>4. OldClientsUpToDate /\ StartsDecodable /\ ReaderHistory
  BY DEF Init, OldClientsUpToDate, StartsDecodable, ReaderHistory
<1>5. ReadersPartitioned /\ NoOrphanViewer
  BY DEF Init, ReadersPartitioned, NoOrphanViewer, HasMuxer
<1>. QED BY <1>1, <1>2, <1>3, <1>4, <1>5 DEF IndInv

\* What every reader-set step of a dropped shared_ptr does: it keeps the sets
\* but for the reader it removes, or empties them and detaches their members.
LEMMA DestroyType ==
    ASSUME TypeOK, NEW new \in SUBSET Readers, DestroyIfUnowned(new)
    PROVE  /\ new_clients_' \subseteq Readers /\ old_clients_' \subseteq Readers
           /\ is_registered_' \in [Readers -> BOOLEAN]
           /\ detached' \subseteq Readers
BY DEF TypeOK, DestroyIfUnowned, DetachAll

\* Every step keeps the types, and the cache within max_size_.
LEMMA TypeStep ==
    ASSUME IndInv, [Next]_vars
    PROVE  TypeOK'
<1>. USE DEF IndInv
<1>0. /\ MaxPackets \in Nat
      /\ (1..published) \subseteq (1..MaxPackets)
      /\ \A s, t \in Seq(1..MaxPackets) : s \o t \in Seq(1..MaxPackets)
  BY ConstantsAssumption DEF TypeOK
<1>1. ASSUME NEW is_idr \in BOOLEAN, Dispatch(is_idr) PROVE TypeOK'
  <2>1. published' \in 1..MaxPackets /\ published' = published + 1
    BY <1>1, <1>0 DEF TypeOK, Dispatch
  <2>2. keys' \subseteq 1..published'
    BY <1>1, <2>1 DEF TypeOK, Dispatch
  <2>3. received' \in [Readers -> Seq(1..MaxPackets)]
    <3>1. <<published'>> \in Seq(1..MaxPackets)
      BY <2>1
    <3>. QED BY <1>1, <3>1, <1>0 DEF TypeOK, Dispatch, OnRead
  <2>4. /\ pc' = "cache"
        /\ UNCHANGED <<packet_list_, new_clients_, old_clients_, is_registered_,
                       source, viewer, detached>>
    BY <1>1 DEF Dispatch, readers
  <2>5. published' \in 0..MaxPackets
    BY <2>1
  <2>. QED BY <2>2, <2>3, <2>4, <2>5 DEF TypeOK
<1>2. CASE Cache
  <2>1. published \in 1..MaxPackets
    BY <1>2 DEF TypeOK, Cache, ReaderHistory
  <2>2. packet_list_' \in Seq(1..MaxPackets) /\ Len(packet_list_') <= max_size_
    <3>1. /\ Cached(packet_list_, published, keys) \in Seq(1..MaxPackets)
          /\ Len(Cached(packet_list_, published, keys)) <= max_size_
      BY <2>1, CachedLemma DEF TypeOK, IsCacheAfter
    <3>. QED BY <1>2, <3>1 DEF Cache
  <2>. QED BY <1>2, <2>2 DEF TypeOK, Cache, readers
<1>3. CASE Merge
  <2>1. received' \in [Readers -> Seq(1..MaxPackets)]
    BY <1>3, <1>0 DEF TypeOK, Merge, OnRead
  <2>. QED BY <1>3, <2>1 DEF TypeOK, Merge
<1>4. CASE ReleaseSource
  BY <1>4, DestroyType DEF TypeOK, ReleaseSource, stream
<1>5. CASE Reconnect
  BY <1>5 DEF TypeOK, Reconnect, readers, stream
<1>6. CASE ReplaceDispatcher
  BY <1>6, DestroyType DEF TypeOK, ReplaceDispatcher, stream
<1>7. ASSUME NEW r \in Readers, find(r) PROVE TypeOK'
  BY <1>7 DEF TypeOK, find, readers, stream
<1>8. ASSUME NEW r \in Readers, get_dispatcher(r) PROVE TypeOK'
  BY <1>8 DEF TypeOK, get_dispatcher, readers, stream
<1>9. ASSUME NEW r \in Readers, regist_reader(r) PROVE TypeOK'
  BY <1>9 DEF TypeOK, regist_reader, stream
<1>10. ASSUME NEW r \in Readers, EndMuxing(r) PROVE TypeOK'
  BY <1>10, DestroyType DEF TypeOK, EndMuxing, stream
<1>11. ASSUME NEW r \in Readers, leave(r) PROVE TypeOK'
  BY <1>11 DEF TypeOK, leave, readers, stream
<1>12. ASSUME NEW r \in Readers, deregist_reader(r) PROVE TypeOK'
  <2>1. Deregistered(r) \in SUBSET Readers
    BY DEF TypeOK, Deregistered
  <2>. QED BY <1>12, <2>1, DestroyType DEF TypeOK, deregist_reader, stream
<1>13. CASE UNCHANGED vars
  BY <1>13 DEF TypeOK, vars, readers, stream
<1>. QED
  BY <1>1, <1>2, <1>3, <1>4, <1>5, <1>6, <1>7, <1>8, <1>9, <1>10, <1>11, <1>12, <1>13
     DEF Next, Publisher, Viewer

\* Steps that leave the cache and the publisher's histories alone.
StreamUnchanged == UNCHANGED <<packet_list_, stream, received>>

\* All steps but the three of distribute() do.
LEMMA OtherSteps ==
    ASSUME [Next]_vars, pc' = pc
    PROVE  StreamUnchanged
<1>. USE DEF StreamUnchanged, stream
<1>1. ASSUME NEW is_idr \in BOOLEAN, Dispatch(is_idr) PROVE FALSE
  BY <1>1 DEF Dispatch
<1>2. ~Cache /\ ~Merge
  BY DEF Cache, Merge
<1>3. CASE ReleaseSource \/ Reconnect \/ ReplaceDispatcher
  BY <1>3 DEF ReleaseSource, Reconnect, ReplaceDispatcher
<1>4. ASSUME NEW r \in Readers, Viewer(r) PROVE StreamUnchanged
  BY <1>4 DEF Viewer, find, get_dispatcher, regist_reader, EndMuxing, leave, deregist_reader
<1>5. CASE UNCHANGED vars
  BY <1>5 DEF vars
<1>. QED BY <1>1, <1>2, <1>3, <1>4, <1>5 DEF Next, Publisher

\* Which steps change pc.
LEMMA StepKinds ==
    ASSUME [Next]_vars
    PROVE  \/ \E is_idr \in BOOLEAN : Dispatch(is_idr)
           \/ Cache
           \/ Merge
           \/ pc' = pc /\ StreamUnchanged
<1>1. CASE pc' = pc
  BY <1>1, OtherSteps
<1>2. CASE pc' # pc
  <2>1. ~UNCHANGED vars
    BY <1>2 DEF vars, stream
  <2>2. ~(ReleaseSource \/ Reconnect \/ ReplaceDispatcher)
    BY <1>2 DEF ReleaseSource, Reconnect, ReplaceDispatcher, stream
  <2>3. ASSUME NEW r \in Readers, Viewer(r) PROVE FALSE
    BY <1>2, <2>3
       DEF Viewer, find, get_dispatcher, regist_reader, EndMuxing, leave, deregist_reader, stream
  <2>. QED BY <2>1, <2>2, <2>3 DEF Next, Publisher
<1>. QED BY <1>1, <1>2

\* The cache stays the tail of the stream.
LEMMA CacheStep ==
    ASSUME IndInv, [Next]_vars
    PROVE  CacheIsLiveTail'
<1>. USE DEF IndInv
<1>1. ASSUME NEW is_idr \in BOOLEAN, Dispatch(is_idr) PROVE CacheIsLiveTail'
  <2>1. /\ packet_list_' = packet_list_ /\ CachedCount' = CachedCount
        /\ CachedCount = published /\ published \in Nat
    BY <1>1 DEF Dispatch, CachedCount, TypeOK
  <2>2. keys' \subseteq keys \cup {CachedCount + 1} /\ keys \subseteq keys'
    BY <1>1, <2>1 DEF Dispatch
  <2>3. \A k \in keys' : k \in keys \/ k > CachedCount'
    BY <2>1, <2>2
  <2>. QED BY <2>1, <2>2, <2>3 DEF CacheIsLiveTail
<1>2. CASE Cache
  <2>. DEFINE old == packet_list_
              c == Cached(old, published, keys)
  <2>1. /\ packet_list_' = c /\ keys' = keys /\ published' = published
        /\ CachedCount = published - 1 /\ CachedCount' = published
        /\ published \in 1..MaxPackets /\ published \in Nat /\ published >= 1
    BY <1>2 DEF Cache, CachedCount, TypeOK, ReaderHistory
  <2>2. old \in Seq(1..MaxPackets) /\ Len(old) <= max_size_ /\ Len(old) \in Nat
    BY DEF TypeOK
  <2>4. /\ c \in Seq(1..MaxPackets)
        /\ Len(c) >= 1 /\ Len(c) <= max_size_
        /\ c[Len(c)] = published
        /\ published \in keys => Len(c) = 1
        /\ published \notin keys =>
             /\ Len(c) = IF Len(old) < max_size_ THEN Len(old) + 1 ELSE max_size_
             /\ \A i \in 1..(Len(c) - 1) : c[i] = old[i + Len(old) - Len(c) + 1]
    <3>1. published \in 1..MaxPackets
      BY <2>1
    <3>2. c \in Seq(1..MaxPackets) /\ IsCacheAfter(c, old, published, keys)
      BY <3>1, <2>2, CachedLemma
    <3>. QED BY <3>2 DEF IsCacheAfter
  <2>5. \A i \in 1..Len(old) : old[i] = published - 1 - Len(old) + i
    BY <2>1 DEF CacheIsLiveTail
  <2>6. Len(old) > 0 => /\ old[1] \in keys \cup {1} \/ Len(old) = max_size_
                        /\ \A k \in keys : k <= old[1] \/ k > published - 1
    BY <2>1 DEF CacheIsLiveTail
  <2>7. published - 1 > 0 => Len(old) > 0
    BY <2>1 DEF CacheIsLiveTail
  <2>8. \A k \in keys : k \in Nat /\ k >= 1 /\ k <= published
    BY <2>1 DEF TypeOK
  <2>. HIDE DEF c, old
  <2>9. Len(c) \in Nat
    BY <2>4
  <2>3. SUFFICES /\ \A i \in 1..Len(c) : c[i] = published - Len(c) + i
                 /\ c[1] \in keys \cup {1} \/ Len(c) = max_size_
                 /\ \A k \in keys : k <= c[1] \/ k > published
    BY <2>1, <2>4 DEF CacheIsLiveTail
  <2>10. CASE published \in keys
    <3>1. Len(c) = 1 /\ c[1] = published
      BY <2>4, <2>10
    <3>. QED BY <3>1, <2>1, <2>8, <2>10
  <2>11. CASE published \notin keys
    <3>1. \A i \in 1..Len(c) : c[i] = published - Len(c) + i
      <4>1. ASSUME NEW i \in 1..Len(c), i # Len(c)
            PROVE  c[i] = published - Len(c) + i
        <5>1. i \in 1..(Len(c) - 1) /\ i + Len(old) - Len(c) + 1 \in 1..Len(old)
          BY <4>1, <2>4, <2>2, <2>9, <2>11, MaxSizePositive
        <5>2. c[i] = old[i + Len(old) - Len(c) + 1]
          BY <5>1, <2>4, <2>11
        <5>. QED BY <5>1, <5>2, <2>5, <2>1, <2>2, <2>9
      <4>. QED BY <4>1, <2>4, <2>1, <2>9
    <3>2. c[1] = published - Len(c) + 1
      BY <3>1, <2>4, <2>9
    <3>3. \A k \in keys : k # published /\ k <= published - 1
      BY <2>8, <2>11, <2>1
    <3>4. CASE Len(old) = 0
      <4>1. published = 1
        BY <2>7, <3>4, <2>1
      <4>2. Len(c) = 1
        BY <2>4, <2>11, <3>4, MaxSizePositive
      <4>. QED BY <3>1, <3>2, <3>3, <4>1, <4>2, <2>8
    <3>5. CASE Len(old) > 0 /\ Len(old) < max_size_
      <4>1. Len(c) = Len(old) + 1
        BY <2>4, <2>11, <3>5
      <4>2. old[1] = published - Len(old)
        BY <2>5, <3>5, <2>1, <2>2
      <4>3. c[1] = old[1]
        BY <3>2, <4>1, <4>2, <2>1, <2>2
      <4>4. c[1] \in keys \cup {1}
        BY <4>3, <2>6, <3>5, <2>2, MaxSizePositive
      <4>5. \A k \in keys : k <= c[1]
        BY <4>3, <2>6, <3>5, <3>3, <2>8, <2>1
      <4>. QED BY <3>1, <4>4, <4>5
    <3>6. CASE Len(old) > 0 /\ Len(old) = max_size_
      <4>1. Len(c) = max_size_
        BY <2>4, <2>11, <3>6, MaxSizePositive
      <4>2. old[1] = published - Len(old)
        BY <2>5, <3>6, <2>1, <2>2
      <4>3. c[1] = old[1] + 1
        BY <3>2, <4>1, <4>2, <3>6, <2>1, <2>2
      <4>4. \A k \in keys : k <= c[1]
        BY <4>3, <4>2, <2>6, <3>6, <3>3, <2>8, <2>1, <2>2
      <4>. QED BY <3>1, <4>1, <4>4
    <3>. QED BY <3>4, <3>5, <3>6, <2>2, MaxSizePositive
  <2>. QED BY <2>10, <2>11
<1>3. CASE Merge
  BY <1>3 DEF Merge, CacheIsLiveTail, CachedCount
<1>4. CASE pc' = pc /\ StreamUnchanged
  BY <1>4 DEF StreamUnchanged, stream, CacheIsLiveTail, CachedCount
<1>. QED BY <1>1, <1>2, <1>3, <1>4, StepKinds

\* A step other than those of distribute() adds nobody to the old clients and
\* gives none of them a muxer.
LEMMA OldClientsStep ==
    ASSUME IndInv, [Next]_vars, pc' = pc
    PROVE  \A r \in old_clients_' : r \in old_clients_ /\ (HasMuxer(r)' => HasMuxer(r))
<1>. USE DEF IndInv
<1>1. ASSUME NEW is_idr \in BOOLEAN, Dispatch(is_idr) PROVE FALSE
  BY <1>1 DEF Dispatch
<1>2. ~Cache /\ ~Merge
  BY DEF Cache, Merge
<1>3. CASE ReleaseSource \/ Reconnect \/ ReplaceDispatcher
  BY <1>3 DEF ReleaseSource, Reconnect, ReplaceDispatcher, readers, HasMuxer,
              DestroyIfUnowned, DetachAll
<1>4. ASSUME NEW q \in Readers, find(q) \/ get_dispatcher(q) \/ leave(q)
      PROVE  \A r \in old_clients_' : r \in old_clients_ /\ (HasMuxer(r)' => HasMuxer(r))
  BY <1>4 DEF find, get_dispatcher, leave, readers, HasMuxer, TypeOK
<1>5. ASSUME NEW q \in Readers, regist_reader(q)
      PROVE  \A r \in old_clients_' : r \in old_clients_ /\ (HasMuxer(r)' => HasMuxer(r))
  BY <1>5 DEF regist_reader, HasMuxer, TypeOK, ReaderHistory
<1>6. ASSUME NEW q \in Readers, EndMuxing(q) \/ deregist_reader(q)
      PROVE  \A r \in old_clients_' : r \in old_clients_ /\ (HasMuxer(r)' => HasMuxer(r))
  BY <1>6 DEF EndMuxing, deregist_reader, DestroyIfUnowned, DetachAll, HasMuxer, TypeOK
<1>7. CASE UNCHANGED vars
  BY <1>7 DEF vars, readers, HasMuxer
<1>. QED BY <1>1, <1>2, <1>3, <1>4, <1>5, <1>6, <1>7 DEF Next, Publisher, Viewer

\* Every viewer keeps receiving consecutive packets from a decodable start.
LEMMA StreamStep ==
    ASSUME IndInv, [Next]_vars
    PROVE  NoGapNoDuplicate' /\ OldClientsUpToDate' /\ StartsDecodable'
<1>. USE DEF IndInv
<1>0. /\ MaxPackets \in Nat /\ published \in Nat /\ keys \subseteq Nat
      /\ \A r \in Readers : received[r] \in Seq(1..MaxPackets)
  BY ConstantsAssumption DEF TypeOK
<1>1. ASSUME NEW is_idr \in BOOLEAN, Dispatch(is_idr)
      PROVE  NoGapNoDuplicate' /\ OldClientsUpToDate' /\ StartsDecodable'
  <2>. DEFINE p == published + 1
  <2>1. /\ published' = p /\ old_clients_' = old_clients_ /\ viewer' = viewer
        /\ keys' \subseteq keys \cup {p} /\ keys \subseteq keys'
        /\ received' = [r \in Readers |-> IF r \in old_clients_ /\ HasMuxer(r)
                                          THEN received[r] \o <<p>> ELSE received[r]]
    BY <1>1 DEF Dispatch, OnRead, readers
  <2>2. ASSUME NEW r \in old_clients_, HasMuxer(r)
        PROVE  /\ received'[r] # <<>>
               /\ Consecutive(received'[r])
               /\ Last(received'[r]) = p
               /\ received[r] # <<>> /\ received'[r][1] = received[r][1]
    <3>1. r \in Readers
      BY DEF TypeOK
    <3>2. received[r] # <<>> /\ Last(received[r]) = p - 1 /\ received[r] \in Seq(1..MaxPackets)
      BY <2>2, <3>1, <1>0 DEF OldClientsUpToDate
    <3>3. received'[r] = received[r] \o <<p>>
      BY <2>1, <2>2, <3>1
    <3>4. Consecutive(received'[r])
      BY <3>1, <3>2, <3>3, <1>0, ConsecutiveAppend DEF NoGapNoDuplicate
    <3>5. received'[r] = Append(received[r], p)
      BY <3>2, <3>3
    <3>. QED BY <3>2, <3>4, <3>5, <1>0 DEF Last
  <2>3. ASSUME NEW r \in Readers, ~(r \in old_clients_ /\ HasMuxer(r))
        PROVE  received'[r] = received[r]
    BY <2>1, <2>3
  <2>4. NoGapNoDuplicate'
    BY <2>2, <2>3 DEF NoGapNoDuplicate
  <2>5. OldClientsUpToDate'
    BY <2>1, <2>2 DEF OldClientsUpToDate, HasMuxer
  <2>6. StartsDecodable'
    <3>1. ASSUME NEW r \in Readers, received'[r] # <<>>
          PROVE  received[r] # <<>> /\ received'[r][1] = received[r][1]
      BY <2>2, <2>3, <3>1
    <3>2. ASSUME NEW r \in Readers, received[r] # <<>>,
                 received[r][1] \notin keys' \cup {1},
                 NEW k \in keys'
          PROVE  k < received[r][1] \/ k >= received[r][1] + max_size_
      <4>1. received[r][1] \notin keys \cup {1} /\ received[r][1] \in Int
        BY <3>2, <2>1, <1>0
      <4>2. CASE k \in keys
        BY <3>2, <4>1, <4>2 DEF StartsDecodable
      <4>3. CASE k = p
        <5>1. received[r][1] + max_size_ <= p
          BY <3>2, <4>1, <1>0 DEF ReaderHistory
        <5>. QED BY <5>1, <4>1, <4>3, <1>0, MaxSizePositive
      <4>. QED BY <4>2, <4>3, <2>1
    <3>. QED BY <3>1, <3>2 DEF StartsDecodable
  <2>. QED BY <2>4, <2>5, <2>6
<1>2. CASE Cache
  <2>1. UNCHANGED <<old_clients_, viewer, published, keys, received>>
    BY <1>2 DEF Cache, readers
  <2>. QED BY <2>1 DEF NoGapNoDuplicate, OldClientsUpToDate, StartsDecodable, HasMuxer
<1>3. CASE Merge
  <2>. DEFINE len == Len(packet_list_)
  <2>1. /\ UNCHANGED <<viewer, published, keys, packet_list_>>
        /\ old_clients_' = old_clients_ \cup new_clients_
        /\ received' = [r \in Readers |-> IF r \in new_clients_ /\ HasMuxer(r)
                                          THEN received[r] \o packet_list_ ELSE received[r]]
    BY <1>3 DEF Merge, OnRead
  <2>2. /\ packet_list_ \in Seq(1..MaxPackets) /\ len \in Nat /\ len >= 1
        /\ \A i \in 1..len : packet_list_[i] = published - len + i
        /\ packet_list_[1] \in keys \cup {1} \/ len = max_size_
        /\ \A k \in keys : k <= packet_list_[1]
    <3>1. CachedCount = published /\ published > 0
      BY <1>3 DEF Merge, CachedCount, ReaderHistory
    <3>2. packet_list_ \in Seq(1..MaxPackets) /\ len \in Nat /\ len >= 1
      BY <3>1 DEF TypeOK, CacheIsLiveTail
    <3>. QED BY <3>1, <3>2 DEF TypeOK, CacheIsLiveTail
  <2>3. Consecutive(packet_list_) /\ Last(packet_list_) = published
    BY <2>2, <1>0 DEF Consecutive, Last
  <2>4. ASSUME NEW r \in new_clients_, HasMuxer(r) PROVE received'[r] = packet_list_
    <3>1. r \in Readers /\ received[r] = <<>>
      BY DEF TypeOK, ReaderHistory
    <3>2. <<>> \o packet_list_ = packet_list_
      BY <2>2
    <3>. QED BY <2>1, <2>4, <3>1, <3>2
  <2>5. ASSUME NEW r \in Readers, ~(r \in new_clients_ /\ HasMuxer(r))
        PROVE  received'[r] = received[r]
    BY <2>1, <2>5
  <2>6. NoGapNoDuplicate'
    BY <2>3, <2>4, <2>5 DEF NoGapNoDuplicate
  <2>7. OldClientsUpToDate'
    <3>1. ASSUME NEW r \in old_clients_', HasMuxer(r)
          PROVE  received'[r] # <<>> /\ Last(received'[r]) = published
      <4>1. CASE r \in new_clients_
        BY <4>1, <3>1, <2>2, <2>3, <2>4
      <4>2. CASE r \notin new_clients_
        BY <4>2, <3>1, <2>1, <2>5 DEF OldClientsUpToDate, TypeOK
      <4>. QED BY <4>1, <4>2
    <3>. QED BY <3>1, <2>1 DEF OldClientsUpToDate, HasMuxer
  <2>8. StartsDecodable'
    <3>1. ASSUME packet_list_[1] \notin keys \cup {1}, NEW k \in keys
          PROVE  k < packet_list_[1]
      BY <3>1, <2>2, <1>0
    <3>. QED BY <3>1, <2>1, <2>4, <2>5 DEF StartsDecodable
  <2>. QED BY <2>6, <2>7, <2>8
<1>4. CASE pc' = pc /\ StreamUnchanged
  <2>1. UNCHANGED <<published, keys, received>>
    BY <1>4 DEF StreamUnchanged, stream
  <2>2. NoGapNoDuplicate' /\ StartsDecodable'
    BY <2>1 DEF NoGapNoDuplicate, StartsDecodable
  <2>3. OldClientsUpToDate'
    BY <2>1, <1>4, OldClientsStep DEF OldClientsUpToDate
  <2>. QED BY <2>2, <2>3
<1>. QED BY <1>1, <1>2, <1>3, <1>4, StepKinds

Members == ReadersPartitioned /\ NoOrphanViewer /\ ReaderHistory

\* The sets after a step that drops a shared_ptr and moves one viewer from
\* "joined" to "watching", from "leaving" to "left" or nobody at all.
LEMMA DestroyMembers ==
    ASSUME IndInv, TypeOK', StreamUnchanged,
           NEW new \in SUBSET new_clients_, DestroyIfUnowned(new),
           pc # "idle" => source' = source,
           Alive,
           \A r \in Readers : /\ HasMuxer(r)' <=> HasMuxer(r)
                              /\ HasMuxer(r) /\ r \in new_clients_ => r \in new
                              /\ viewer'[r] \in {"idle", "found", "muxing"} =>
                                    viewer[r] \in {"idle", "found", "muxing"}
    PROVE  Members'
<1>. USE DEF IndInv
<1>1. UNCHANGED <<published, keys, received, pc>>
  BY DEF StreamUnchanged, stream
<1>2. CASE Alive'
  <2>1. /\ new_clients_' = new /\ old_clients_' = old_clients_
        /\ is_registered_' = is_registered_ /\ detached' = detached
    BY <1>2 DEF DestroyIfUnowned
  <2>2. ReadersPartitioned'
    BY <1>2, <2>1 DEF ReadersPartitioned
  <2>3. NoOrphanViewer'
    BY <1>2 DEF NoOrphanViewer
  <2>4. ReaderHistory'
    BY <1>1, <2>1 DEF ReaderHistory
  <2>. QED BY <2>2, <2>3, <2>4 DEF Members
<1>3. CASE ~Alive'
  <2>1. /\ new_clients_' = {} /\ old_clients_' = {}
        /\ \A r \in new \cup old_clients_ : r \in detached' /\ ~is_registered_'[r]
    BY <1>3 DEF DestroyIfUnowned, DetachAll, ReaderHistory, TypeOK
  <2>2. ReadersPartitioned'
    BY <1>3, <2>1 DEF ReadersPartitioned
  <2>3. NoOrphanViewer'
    <3>1. ASSUME NEW r \in Readers, HasMuxer(r)'
          PROVE  r \in detached' /\ ~is_registered_'[r]
      BY <3>1, <2>1 DEF ReadersPartitioned
    <3>. QED BY <3>1 DEF NoOrphanViewer
  <2>4. ReaderHistory'
    <3>1. source' = "publishing" \/ pc' = "idle"
      BY <1>1 DEF ReaderHistory
    <3>. QED BY <1>1, <2>1, <3>1 DEF ReaderHistory
  <2>. QED BY <2>2, <2>3, <2>4 DEF Members
<1>. QED BY <1>2, <1>3

\* The steps of a viewer that touch no set and drop no last pointer.
LEMMA PlainMove ==
    ASSUME IndInv, NEW q \in Readers, find(q) \/ get_dispatcher(q) \/ leave(q)
    PROVE  /\ UNCHANGED <<new_clients_, old_clients_, is_registered_, detached, source,
                          published, keys, received, pc>>
           /\ \A r \in Readers \ {q} : viewer'[r] = viewer[r]
           /\ \/ viewer[q] = "idle" /\ viewer'[q] = "found" /\ SourceAlive
              \/ viewer[q] = "found" /\ viewer'[q] = "muxing" /\ source # "replaced"
              \/ viewer[q] = "found" /\ viewer'[q] = "left" /\ source = "replaced"
              \/ viewer[q] = "watching" /\ viewer'[q] = "leaving" /\ Alive
              \/ viewer[q] = "watching" /\ viewer'[q] = "left"
           /\ Alive' <=> Alive
<1>. USE DEF IndInv
<1>1. /\ UNCHANGED <<new_clients_, old_clients_, is_registered_, detached, source,
                     published, keys, received, pc>>
      /\ \A r \in Readers \ {q} : viewer'[r] = viewer[r]
  BY DEF find, get_dispatcher, leave, readers, stream, TypeOK
<1>2. \/ viewer[q] = "idle" /\ viewer'[q] = "found" /\ SourceAlive
      \/ viewer[q] = "found" /\ viewer'[q] = "muxing" /\ source # "replaced"
      \/ viewer[q] = "found" /\ viewer'[q] = "left" /\ source = "replaced"
      \/ viewer[q] = "watching" /\ viewer'[q] = "leaving" /\ Alive
      \/ viewer[q] = "watching" /\ viewer'[q] = "left"
  BY DEF find, get_dispatcher, leave, TypeOK
<1>3. Alive' <=> Alive
  <2>1. CASE viewer[q] = "idle" /\ viewer'[q] = "found" /\ SourceAlive
    BY <2>1, <1>1 DEF Alive, SourceAlive, SourceHolders
  <2>2. CASE viewer[q] = "found" /\ viewer'[q] = "muxing" /\ source # "replaced"
    BY <2>2, <1>1 DEF Alive, SourceAlive, SourceHolders, DispatcherHolders, TypeOK
  <2>3. CASE viewer[q] = "found" /\ viewer'[q] = "left" /\ source = "replaced"
    BY <2>3, <1>1 DEF Alive, SourceAlive, DispatcherHolders
  <2>4. CASE viewer[q] = "watching" /\ viewer'[q] = "leaving" /\ Alive
    BY <2>4, <1>1 DEF Alive, DispatcherHolders
  <2>5. CASE viewer[q] = "watching" /\ viewer'[q] = "left"
    <4>1. SourceHolders' = SourceHolders /\ DispatcherHolders' = DispatcherHolders
      BY <2>5, <1>1 DEF SourceHolders, DispatcherHolders
    <4>. QED BY <4>1, <1>1 DEF Alive, SourceAlive
  <2>. QED BY <1>2, <2>1, <2>2, <2>3, <2>4, <2>5
<1>. QED BY <1>1, <1>2, <1>3

\* Every step keeps the readers' sets, flags and histories in agreement.
LEMMA MembersStep ==
    ASSUME IndInv, [Next]_vars, TypeOK'
    PROVE  Members'
<1>. USE DEF IndInv
<1>1. ASSUME NEW is_idr \in BOOLEAN, Dispatch(is_idr) PROVE Members'
  <2>1. /\ UNCHANGED <<new_clients_, old_clients_, is_registered_, viewer, detached, source>>
        /\ source = "publishing" /\ pc' = "cache" /\ published' = published + 1
        /\ published \in Nat /\ keys \subseteq keys'
    BY <1>1 DEF Dispatch, readers, TypeOK
  <2>2. Alive /\ Alive'
    BY <2>1 DEF Alive, SourceAlive
  <2>3. ReadersPartitioned' /\ NoOrphanViewer'
    BY <2>1, <2>2 DEF ReadersPartitioned, NoOrphanViewer, HasMuxer
  <2>4. ASSUME NEW r \in Readers
        PROVE  \/ received'[r] = received[r]
               \/ /\ r \in old_clients_ /\ HasMuxer(r) /\ received[r] # <<>>
                  /\ received'[r][1] = received[r][1]
    <3>1. CASE r \in old_clients_ /\ HasMuxer(r)
      <4>1. received'[r] = received[r] \o <<published + 1>> /\ received[r] # <<>>
        BY <1>1, <3>1, <2>1 DEF Dispatch, OnRead, OldClientsUpToDate
      <4>2. received[r] \in Seq(1..MaxPackets)
        BY DEF TypeOK
      <4>3. received'[r] = Append(received[r], published + 1)
        BY <4>1, <4>2
      <4>. QED BY <3>1, <4>1, <4>2, <4>3
    <3>2. CASE ~(r \in old_clients_ /\ HasMuxer(r))
      BY <1>1, <3>2 DEF Dispatch, OnRead
    <3>. QED BY <3>1, <3>2
  <2>5. ReaderHistory'
    <3>1. ASSUME NEW r \in Readers
          PROVE  /\ viewer'[r] \in {"idle", "found", "muxing"} =>
                       r \notin new_clients_' \cup old_clients_' /\ received'[r] = <<>>
                 /\ r \in new_clients_' \cup old_clients_' => is_registered_'[r]
                 /\ r \in new_clients_' => received'[r] = <<>>
      BY <2>1, <2>4 DEF ReaderHistory, ReadersPartitioned, HasMuxer
    <3>2. ASSUME NEW r \in Readers, received'[r] # <<>>, received'[r][1] \notin keys' \cup {1}
          PROVE  received'[r][1] + max_size_ <= published' + 1
      <4>1. received[r] # <<>> /\ received'[r][1] = received[r][1]
        BY <3>2, <2>4
      <4>2. received[r][1] \in Int
        <5>1. received[r] \in Seq(1..MaxPackets)
          BY DEF TypeOK
        <5>2. Len(received[r]) \in Nat \ {0}
          <6>1. received[r] # <<>>
            BY <4>1
          <6>. HIDE DEF IndInv
          <6>. QED BY <5>1, <6>1, EmptySeq, Zenon
        <5>3. received[r][1] \in 1..MaxPackets
          <6>1. 1 \in 1..Len(received[r])
            BY <5>2
          <6>. QED BY <5>1, <6>1, ElementOfSeq, Zenon
        <5>. QED BY <5>3
      <4>3. received[r][1] + max_size_ <= published + 1
        BY <4>1, <3>2, <2>1 DEF ReaderHistory
      <4>. QED BY <4>1, <4>2, <4>3, <2>1, MaxSizePositive
    <3>. QED BY <3>1, <3>2, <2>1 DEF ReaderHistory
  <2>. QED BY <2>3, <2>5 DEF Members
<1>2. CASE Cache
  <2>1. /\ UNCHANGED <<new_clients_, old_clients_, is_registered_, viewer, detached, source,
                       published, keys, received>>
        /\ source = "publishing"
    BY <1>2 DEF Cache, readers, ReaderHistory
  <2>2. Alive /\ Alive'
    BY <2>1 DEF Alive, SourceAlive
  <2>3. ReaderHistory'
    BY <1>2, <2>1 DEF ReaderHistory, Cache
  <2>. QED BY <2>1, <2>2, <2>3 DEF Members, ReadersPartitioned, NoOrphanViewer, HasMuxer
<1>3. CASE Merge
  <2>1. /\ UNCHANGED <<is_registered_, viewer, detached, source, published, keys>>
        /\ source = "publishing" /\ pc' = "idle"
        /\ old_clients_' = old_clients_ \cup new_clients_ /\ new_clients_' = {}
    BY <1>3 DEF Merge, ReaderHistory
  <2>2. Alive /\ Alive'
    BY <2>1 DEF Alive, SourceAlive
  <2>3. ReadersPartitioned' /\ NoOrphanViewer'
    BY <2>1, <2>2 DEF ReadersPartitioned, NoOrphanViewer, HasMuxer
  <2>4. ASSUME NEW r \in Readers
        PROVE  \/ received'[r] = received[r]
               \/ r \in new_clients_ /\ HasMuxer(r) /\ received'[r] = packet_list_
    <3>1. CASE r \in new_clients_ /\ HasMuxer(r)
      <4>1. received'[r] = <<>> \o packet_list_
        BY <1>3, <3>1 DEF Merge, OnRead, ReaderHistory
      <4>. QED BY <3>1, <4>1 DEF TypeOK
    <3>2. CASE ~(r \in new_clients_ /\ HasMuxer(r))
      BY <1>3, <3>2 DEF Merge, OnRead
    <3>. QED BY <3>1, <3>2
  <2>5. ASSUME packet_list_ # <<>>, packet_list_[1] \notin keys \cup {1}
        PROVE  packet_list_[1] + max_size_ <= published + 1
    <3>1. Len(packet_list_) > 0 /\ Len(packet_list_) \in Nat
      BY <2>5 DEF TypeOK
    <3>2. Len(packet_list_) = max_size_ /\ packet_list_[1] = published - max_size_ + 1
      BY <2>5, <3>1, <1>3, MaxSizePositive DEF CacheIsLiveTail, CachedCount, Merge, TypeOK
    <3>. QED BY <3>2, MaxSizePositive DEF TypeOK
  <2>6. ReaderHistory'
    <3>1. ASSUME NEW r \in Readers
          PROVE  /\ viewer'[r] \in {"idle", "found", "muxing"} =>
                       r \notin new_clients_' \cup old_clients_' /\ received'[r] = <<>>
                 /\ r \in new_clients_' \cup old_clients_' => is_registered_'[r]
                 /\ r \in new_clients_' => received'[r] = <<>>
      BY <2>1, <2>4 DEF ReaderHistory, HasMuxer
    <3>2. ASSUME NEW r \in Readers, received'[r] # <<>>, received'[r][1] \notin keys \cup {1}
          PROVE  received'[r][1] + max_size_ <= published + 1
      BY <3>2, <2>4, <2>5 DEF ReaderHistory
    <3>. QED BY <3>1, <3>2, <2>1 DEF ReaderHistory
  <2>. QED BY <2>3, <2>6 DEF Members
<1>4. CASE ReleaseSource \/ ReplaceDispatcher
  <2>1. /\ viewer' = viewer /\ StreamUnchanged /\ pc = "idle" /\ source = "publishing"
        /\ DestroyIfUnowned(new_clients_)
    BY <1>4 DEF ReleaseSource, ReplaceDispatcher, StreamUnchanged
  <2>2. Alive
    BY <2>1 DEF Alive, SourceAlive
  <2>. QED BY <2>1, <2>2, DestroyMembers DEF HasMuxer
<1>5. CASE Reconnect
  <2>1. /\ UNCHANGED <<new_clients_, old_clients_, is_registered_, viewer, detached,
                       published, keys, received, pc>>
        /\ SourceAlive /\ source' = "publishing"
    BY <1>5 DEF Reconnect, readers, stream
  <2>2. Alive /\ Alive'
    BY <2>1 DEF Alive, SourceAlive
  <2>3. ReaderHistory'
    BY <2>1 DEF ReaderHistory
  <2>. QED BY <2>1, <2>2, <2>3 DEF Members, ReadersPartitioned, NoOrphanViewer, HasMuxer
<1>6. ASSUME NEW q \in Readers, find(q) \/ get_dispatcher(q) \/ leave(q) PROVE Members'
  <2>1. /\ UNCHANGED <<new_clients_, old_clients_, is_registered_, detached, source,
                       published, keys, received, pc>>
        /\ \A r \in Readers \ {q} : viewer'[r] = viewer[r]
        /\ \/ viewer[q] = "idle" /\ viewer'[q] = "found"
           \/ viewer[q] = "found" /\ viewer'[q] \in {"muxing", "left"}
           \/ viewer[q] = "watching" /\ viewer'[q] \in {"leaving", "left"}
        /\ Alive' <=> Alive
    BY <1>6, PlainMove
  <2>2. \A r \in Readers : HasMuxer(r)' => HasMuxer(r)
    BY <2>1 DEF HasMuxer
  <2>3. \A r \in Readers : viewer'[r] \in {"idle", "found", "muxing"} =>
                           viewer[r] \in {"idle", "found", "muxing"}
    BY <2>1
  <2>4. ReaderHistory'
    BY <2>1, <2>3 DEF ReaderHistory
  <2>5. ReadersPartitioned' /\ NoOrphanViewer'
    BY <2>1, <2>2 DEF ReadersPartitioned, NoOrphanViewer
  <2>. QED BY <2>4, <2>5 DEF Members
<1>7. ASSUME NEW q \in Readers, regist_reader(q) PROVE Members'
  <2>1. /\ UNCHANGED <<old_clients_, detached, source, published, keys, received, pc>>
        /\ viewer[q] = "muxing" /\ viewer'[q] = "joined"
        /\ \A r \in Readers \ {q} : viewer'[r] = viewer[r] /\ is_registered_'[r] = is_registered_[r]
        /\ new_clients_' = new_clients_ \cup {q} /\ is_registered_'[q]
    BY <1>7 DEF regist_reader, stream, TypeOK
  <2>2. Alive /\ Alive'
    BY <2>1 DEF Alive, DispatcherHolders
  <2>3. received[q] = <<>> /\ q \notin new_clients_ \cup old_clients_
    BY <2>1 DEF ReaderHistory
  <2>4. ReadersPartitioned' /\ NoOrphanViewer'
    BY <2>1, <2>2, <2>3 DEF ReadersPartitioned, NoOrphanViewer, HasMuxer, TypeOK
  <2>5. ReaderHistory'
    BY <2>1, <2>3 DEF ReaderHistory
  <2>. QED BY <2>4, <2>5 DEF Members
<1>8. ASSUME NEW q \in Readers, EndMuxing(q) PROVE Members'
  <2>1. /\ viewer[q] = "joined" /\ viewer'[q] = "watching"
        /\ \A r \in Readers \ {q} : viewer'[r] = viewer[r]
        /\ StreamUnchanged /\ source' = source /\ DestroyIfUnowned(new_clients_)
    BY <1>8 DEF EndMuxing, StreamUnchanged, TypeOK
  <2>2. Alive
    BY <2>1 DEF Alive, DispatcherHolders
  <2>. QED BY <2>1, <2>2, DestroyMembers DEF HasMuxer
<1>9. ASSUME NEW q \in Readers, deregist_reader(q) PROVE Members'
  <2>1. /\ viewer[q] = "leaving" /\ viewer'[q] = "left"
        /\ \A r \in Readers \ {q} : viewer'[r] = viewer[r]
        /\ StreamUnchanged /\ source' = source /\ DestroyIfUnowned(Deregistered(q))
    BY <1>9 DEF deregist_reader, StreamUnchanged, TypeOK
  <2>2. Alive
    BY <2>1 DEF Alive, DispatcherHolders
  <2>3. Deregistered(q) \in SUBSET new_clients_
    BY DEF Deregistered
  <2>4. \A r \in Readers : HasMuxer(r) /\ r \in new_clients_ => r \in Deregistered(q)
    BY <2>1 DEF HasMuxer, Deregistered
  <2>. QED BY <2>1, <2>2, <2>3, <2>4, DestroyMembers DEF HasMuxer
<1>10. CASE UNCHANGED vars
  BY <1>10 DEF vars, readers, stream, Members, ReadersPartitioned, NoOrphanViewer, ReaderHistory,
               HasMuxer, Alive, SourceAlive, SourceHolders, DispatcherHolders
<1>. QED
  BY <1>1, <1>2, <1>3, <1>4, <1>5, <1>6, <1>7, <1>8, <1>9, <1>10 DEF Next, Publisher, Viewer

-----------------------------------------------------------------------------
(* The theorems                                                            *)

\* The inductive invariant holds in every reachable state: with it, every
\* safety property of the dispatcher that distribute(), regist_reader(),
\* deregist_reader() and ~packet_dispatcher have to keep together.
THEOREM DispatcherInvariant == Spec => []IndInv
<1>1. IndInv /\ [Next]_vars => IndInv'
  BY TypeStep, CacheStep, StreamStep, MembersStep DEF IndInv, Members
<1>. QED BY <1>1, InitIndInv, PTL DEF Spec

\* Type correctness, with the cache within max_size_.
THEOREM DispatcherTypeOK == Spec => []TypeOK
<1>1. IndInv => TypeOK
  BY DEF IndInv
<1>. QED BY <1>1, DispatcherInvariant, PTL

\* The cache is always the exact tail of the stream that a late viewer needs.
THEOREM CacheCorrect == Spec => []CacheIsLiveTail
<1>1. IndInv => CacheIsLiveTail
  BY DEF IndInv
<1>. QED BY <1>1, DispatcherInvariant, PTL

\* No viewer ever misses, repeats or reorders a packet of its run.
THEOREM StreamCorrect == Spec => []NoGapNoDuplicate
<1>1. IndInv => NoGapNoDuplicate
  BY DEF IndInv
<1>. QED BY <1>1, DispatcherInvariant, PTL

\* Every viewer's stream starts where it can be decoded, if the cache allows.
THEOREM StartCorrect == Spec => []StartsDecodable
<1>1. IndInv => StartsDecodable
  BY DEF IndInv
<1>. QED BY <1>1, DispatcherInvariant, PTL

\* When the dispatcher dies, whichever thread dropped it, nobody is forgotten.
THEOREM NobodyOrphaned == Spec => []NoOrphanViewer
<1>1. IndInv => NoOrphanViewer
  BY DEF IndInv
<1>. QED BY <1>1, DispatcherInvariant, PTL

\* No viewer is detached while a publisher holds the source.
THEOREM DetachOnlyAtEnd == Spec => DetachedOnlyAtEnd
<1>1. ASSUME [Next]_vars, source' = "publishing" PROVE detached' = detached
  <2>1. ASSUME DestroyIfUnowned(new_clients_) PROVE detached' = detached
    BY <1>1, <2>1 DEF DestroyIfUnowned, Alive, SourceAlive
  <2>2. ASSUME NEW r \in Readers, DestroyIfUnowned(Deregistered(r)) PROVE detached' = detached
    BY <1>1, <2>2 DEF DestroyIfUnowned, Alive, SourceAlive
  <2>3. CASE Publisher
    BY <2>3, <2>1, <1>1 DEF Publisher, Dispatch, Cache, Merge, ReleaseSource, Reconnect,
                            ReplaceDispatcher
  <2>4. ASSUME NEW r \in Readers, Viewer(r) PROVE detached' = detached
    BY <2>4, <2>1, <2>2 DEF Viewer, find, get_dispatcher, regist_reader, EndMuxing, leave,
                            deregist_reader
  <2>5. CASE UNCHANGED vars
    BY <2>5 DEF vars
  <2>. QED BY <1>1, <2>3, <2>4, <2>5 DEF Next
<1>2. [Next]_vars => [detached' # detached => source' # "publishing"]_vars
  BY <1>1
<1>. QED BY <1>2, PTL DEF Spec, DetachedOnlyAtEnd

-----------------------------------------------------------------------------
(* The dispatcher implements LiveChannel                                   *)

\* A viewer with a muxer waits or is served as long as the dispatcher lives,
\* and has been told afterwards.
NobodyForgotten ==
    \A r \in Readers :
        Standing(r) = IF viewer[r] \in {"idle", "found", "muxing"} THEN "out"
                      ELSE IF ~HasMuxer(r) THEN "gone"
                      ELSE IF ~Alive THEN "told"
                      ELSE IF r \in new_clients_ THEN "waiting" ELSE "tuned"

LEMMA AudienceOf == IndInv => NobodyForgotten
<1>. SUFFICES ASSUME IndInv, NEW r \in Readers, HasMuxer(r)
              PROVE  Standing(r) = IF ~Alive THEN "told"
                                   ELSE IF r \in new_clients_ THEN "waiting" ELSE "tuned"
  BY DEF NobodyForgotten, Standing, HasMuxer
<1>1. viewer[r] \notin {"idle", "found", "muxing"}
  BY DEF HasMuxer
<1>2. CASE Alive
  <2>1. r \in new_clients_ \/ r \in old_clients_
    BY <1>2 DEF IndInv, ReadersPartitioned
  <2>. QED BY <1>1, <1>2, <2>1 DEF Standing
<1>3. CASE ~Alive
  <2>1. r \notin new_clients_ /\ r \notin old_clients_ /\ r \in detached
    BY <1>3 DEF IndInv, ReadersPartitioned, NoOrphanViewer
  <2>. QED BY <1>1, <1>3, <2>1 DEF Standing
<1>. QED BY <1>2, <1>3

\* Whom distribute() calls: the viewers served, and those that wait.
LEMMA Served ==
    ASSUME IndInv, Alive, NEW r \in Readers
    PROVE  /\ Audience[r] = "tuned" <=> r \in old_clients_ /\ HasMuxer(r)
           /\ Audience[r] = "waiting" <=> r \in new_clients_ /\ HasMuxer(r)
<1>1. Audience[r] = Standing(r)
  BY DEF Audience
<1>2. new_clients_ \cap old_clients_ = {}
  BY DEF IndInv, ReadersPartitioned
<1>3. HasMuxer(r) => /\ viewer[r] \notin {"idle", "found", "muxing"}
                     /\ r \in new_clients_ \cup old_clients_
  BY DEF HasMuxer, IndInv, ReadersPartitioned
<1>. QED BY <1>1, <1>2, <1>3, AudienceOf DEF NobodyForgotten

\* distribute() hands the packet to the old clients: the channel's next packet.
LEMMA DispatchIsPublish ==
    ASSUME IndInv, NEW is_idr \in BOOLEAN, Dispatch(is_idr)
    PROVE  Channel!Publish(is_idr)
<1>1. /\ source = "publishing" /\ published' = published + 1
      /\ UNCHANGED <<new_clients_, old_clients_, viewer, detached, source>>
      /\ keys' = IF is_idr THEN keys \cup {published'} ELSE keys
      /\ received' = OnRead(old_clients_, <<published'>>)
  BY DEF Dispatch, readers
<1>2. Alive /\ Alive'
  BY <1>1 DEF Alive, SourceAlive
<1>3. Audience' = Audience
  BY <1>1 DEF Audience, Standing, HasMuxer
<1>4. ASSUME NEW r \in Readers
      PROVE  OnRead(old_clients_, <<published'>>)[r] =
               IF Audience[r] = "tuned" THEN Append(received[r], published') ELSE received[r]
  <2>1. received[r] \in Seq(1..MaxPackets)
    BY DEF IndInv, TypeOK
  <2>2. received[r] \o <<published'>> = Append(received[r], published')
    BY <2>1
  <2>. QED BY <1>2, <2>2, Served DEF OnRead
<1>5. received' = [r \in Readers |-> IF Audience[r] = "tuned" THEN Append(received[r], published')
                                     ELSE received[r]]
  BY <1>1, <1>4 DEF OnRead
<1>. QED BY <1>1, <1>2, <1>3, <1>5 DEF Channel!Publish

\* The cache is the window that a new viewer of the channel is sent.
LEMMA CacheIsWindow ==
    ASSUME IndInv, pc = "merge"
    PROVE  \E first \in Channel!Starts :
             /\ \A s \in Channel!Starts : s <= first
             /\ packet_list_ = [i \in 1..(published - first + 1) |-> first + i - 1]
<1>1. /\ packet_list_ \in Seq(1..MaxPackets) /\ Len(packet_list_) \in Nat
      /\ Len(packet_list_) <= max_size_
      /\ published \in Nat /\ published > 0 /\ keys \subseteq 1..published
  BY DEF IndInv, TypeOK, ReaderHistory
<1>2. CachedCount = published
  BY DEF CachedCount
<1>3. PICK len \in Nat : len = Len(packet_list_)
  BY <1>1
<1>4. /\ \A i \in 1..len : packet_list_[i] = published - len + i
      /\ len > 0
      /\ packet_list_[1] \in keys \cup {1} \/ len = max_size_
      /\ \A k \in keys : k <= packet_list_[1] \/ k > published
  BY <1>1, <1>2, <1>3 DEF IndInv, CacheIsLiveTail
<1>5. PICK first \in Int : first = published - len + 1
  BY <1>1
<1>6. packet_list_[1] = first /\ first >= 1
  <2>1. packet_list_[1] = first
    BY <1>3, <1>4, <1>5
  <2>2. packet_list_[1] \in 1..MaxPackets
    <3>1. 1 \in 1..Len(packet_list_)
      BY <1>3, <1>4
    <3>. QED BY <1>1, <3>1, ElementOfSeq, Zenon
  <2>. QED BY <2>1, <2>2
<1>7. first \in Channel!Starts
  BY <1>3, <1>4, <1>5, <1>6 DEF Channel!Starts
<1>8. \A s \in Channel!Starts : s <= first
  <2>1. published - max_size_ + 1 <= first
    BY <1>1, <1>3, <1>5, MaxSizePositive
  <2>2. \A k \in keys : k <= first
    BY <1>1, <1>4, <1>6
  <2>. QED BY <1>6, <2>1, <2>2 DEF Channel!Starts
<1>9. packet_list_ = [i \in 1..(published - first + 1) |-> first + i - 1]
  <2>1. published - first + 1 = len
    BY <1>1, <1>5
  <2>2. packet_list_ = [i \in 1..len |-> packet_list_[i]]
    BY <1>1, <1>3
  <2>3. \A i \in 1..len : packet_list_[i] = first + i - 1
    BY <1>1, <1>4, <1>5
  <2>. QED BY <2>1, <2>2, <2>3
<1>. QED BY <1>7, <1>8, <1>9

\* The third section of distribute() serves those who wait, at once.
LEMMA MergeIsTuneIn ==
    ASSUME IndInv, Merge
    PROVE  Channel!TuneIn
<1>1. /\ pc = "merge" /\ UNCHANGED <<packet_list_, viewer, source, detached, published, keys>>
      /\ received' = OnRead(new_clients_, packet_list_)
      /\ old_clients_' = old_clients_ \cup new_clients_ /\ new_clients_' = {}
  BY DEF Merge
<1>2. source = "publishing" /\ published > 0
  BY <1>1 DEF IndInv, ReaderHistory
<1>3. Alive /\ Alive'
  BY <1>1, <1>2 DEF Alive, SourceAlive
<1>4. ASSUME NEW r \in Readers
      PROVE  Standing(r)' = IF Audience[r] = "waiting" THEN "tuned" ELSE Audience[r]
  <2>1. Audience[r] = Standing(r) /\ new_clients_ \cap old_clients_ = {}
    BY DEF Audience, IndInv, ReadersPartitioned
  <2>2. CASE HasMuxer(r)
    <3>1. r \in new_clients_ \/ r \in old_clients_
      BY <1>3, <2>2 DEF IndInv, ReadersPartitioned
    <3>. QED BY <1>1, <2>1, <2>2, <3>1 DEF Standing, HasMuxer
  <2>3. CASE ~HasMuxer(r)
    BY <1>1, <2>1, <2>3 DEF Standing, HasMuxer
  <2>. QED BY <2>2, <2>3
<1>5. PICK first \in Channel!Starts :
        /\ \A s \in Channel!Starts : s <= first
        /\ packet_list_ = [i \in 1..(published - first + 1) |-> first + i - 1]
  BY <1>1, CacheIsWindow
<1>6. ASSUME NEW r \in Readers
      PROVE  OnRead(new_clients_, packet_list_)[r] =
               IF Audience[r] = "waiting" THEN packet_list_ ELSE received[r]
  <2>1. CASE Audience[r] = "waiting"
    <3>1. r \in new_clients_ /\ HasMuxer(r) /\ received[r] = <<>>
      BY <1>3, <2>1, Served DEF IndInv, ReaderHistory
    <3>2. <<>> \o packet_list_ = packet_list_
      BY DEF IndInv, TypeOK
    <3>. QED BY <2>1, <3>1, <3>2 DEF OnRead
  <2>2. CASE Audience[r] # "waiting"
    BY <1>3, <2>2, Served DEF OnRead
  <2>. QED BY <2>1, <2>2
<1>7. received' = [r \in Readers |-> IF Audience[r] = "waiting" THEN packet_list_ ELSE received[r]]
  BY <1>1, <1>6 DEF OnRead
<1>8. Audience' = [r \in Readers |-> IF Audience[r] = "waiting" THEN "tuned" ELSE Audience[r]]
  BY <1>4 DEF Audience
<1>. QED BY <1>1, <1>2, <1>3, <1>5, <1>7, <1>8 DEF Channel!TuneIn

\* The end of a step that drops a shared_ptr is nothing to the channel, or the
\* end of it.
LEMMA DestroyIsGoOffAir ==
    ASSUME IndInv, IndInv', Alive, StreamUnchanged,
           \A r \in Readers : /\ HasMuxer(r)' <=> HasMuxer(r)
                              /\ viewer'[r] \in {"idle", "found", "muxing"} <=>
                                    viewer[r] \in {"idle", "found", "muxing"},
           NEW new \in SUBSET new_clients_, DestroyIfUnowned(new),
           \A r \in Readers : HasMuxer(r) /\ r \in new_clients_ => r \in new
    PROVE  Channel!GoOffAir \/ UNCHANGED Channel!vars
<1>1. UNCHANGED <<published, keys, received>>
  BY DEF StreamUnchanged, stream
<1>2. NobodyForgotten /\ NobodyForgotten'
  <2>1. IndInv' => NobodyForgotten'
    BY AudienceOf, PTL
  <2>. QED BY <2>1, AudienceOf
<1>3. CASE Alive'
  <2>1. new_clients_' = new /\ Alive' = Alive
    BY <1>3 DEF DestroyIfUnowned, Alive, SourceAlive
  <2>2. ASSUME NEW r \in Readers PROVE Standing(r)' = Standing(r)
    BY <1>2, <1>3, <2>1 DEF NobodyForgotten
  <2>. QED BY <1>1, <2>1, <2>2 DEF Channel!vars, Audience
<1>4. CASE ~Alive'
  <2>1. ASSUME NEW r \in Readers
        PROVE  Standing(r)' = IF Standing(r) \in {"waiting", "tuned"} THEN "told" ELSE Standing(r)
    BY <1>2, <1>4 DEF NobodyForgotten
  <2>2. Alive' = FALSE
    BY <1>4 DEF Alive, SourceAlive
  <2>. QED BY <1>1, <2>1, <2>2 DEF Channel!GoOffAir, Audience
<1>. QED BY <1>3, <1>4

\* A viewer's steps before and after it belongs to the audience.
LEMMA PlainMoveIsLeave ==
    ASSUME IndInv, NEW q \in Readers, find(q) \/ get_dispatcher(q) \/ leave(q)
    PROVE  Channel!Leave(q) \/ UNCHANGED Channel!vars
<1>1. /\ UNCHANGED <<new_clients_, old_clients_, is_registered_, detached, source,
                     published, keys, received, pc>>
      /\ \A r \in Readers \ {q} : viewer'[r] = viewer[r]
      /\ Alive' <=> Alive
  BY PlainMove
<1>2. Alive' = Alive
  BY <1>1 DEF Alive, SourceAlive
<1>3. \A r \in Readers \ {q} : Standing(r)' = Standing(r)
  BY <1>1 DEF Standing, HasMuxer
<1>4. CASE viewer'[q] \in {"found", "muxing"}
  <2>1. Standing(q)' = Standing(q)
    BY <1>4, PlainMove DEF Standing
  <2>. QED BY <1>1, <1>2, <1>3, <2>1 DEF Channel!vars, Audience
<1>5. CASE viewer'[q] \in {"leaving", "left"}
  <2>1. Standing(q)' = "gone" /\ Standing(q) # "gone"
    BY <1>5, PlainMove DEF Standing, HasMuxer
  <2>. QED BY <1>1, <1>2, <1>3, <2>1 DEF Channel!Leave, Audience
<1>. QED BY <1>4, <1>5, PlainMove

\* regist_reader makes a viewer one of those that wait.
LEMMA RegistIsJoin ==
    ASSUME IndInv, NEW q \in Readers, regist_reader(q)
    PROVE  Channel!Join(q)
<1>1. /\ UNCHANGED <<old_clients_, detached, source, published, keys, received>>
      /\ viewer[q] = "muxing" /\ viewer' = [viewer EXCEPT ![q] = "joined"]
      /\ new_clients_' = new_clients_ \cup {q}
  BY DEF regist_reader, stream
<1>2. Alive /\ Alive'
  BY <1>1 DEF Alive, DispatcherHolders, IndInv, TypeOK
<1>3. ASSUME NEW r \in Readers \ {q} PROVE Standing(r)' = Standing(r)
  BY <1>1 DEF Standing, HasMuxer, IndInv, TypeOK
<1>4. Standing(q) = "out" /\ Standing(q)' = "waiting"
  BY <1>1 DEF Standing, HasMuxer, IndInv, TypeOK
<1>5. Alive' = Alive
  BY <1>2 DEF Alive, SourceAlive
<1>. QED BY <1>1, <1>2, <1>3, <1>4, <1>5 DEF Channel!Join, Audience

\* Every step is a step of the channel, or none that it sees.
LEMMA StepChannel ==
    ASSUME IndInv, IndInv', [Next]_vars
    PROVE  [Channel!Next]_(Channel!vars)
<1>1. ASSUME NEW is_idr \in BOOLEAN, Dispatch(is_idr) PROVE Channel!Next
  BY <1>1, DispatchIsPublish DEF Channel!Next
<1>2. CASE Cache
  <2>1. UNCHANGED <<new_clients_, old_clients_, viewer, source, detached, published, keys,
                    received>>
    BY <1>2 DEF Cache, readers
  <2>. QED BY <2>1 DEF Channel!vars, Audience, Standing, HasMuxer, Alive, SourceAlive,
                       SourceHolders, DispatcherHolders
<1>3. CASE Merge
  BY <1>3, MergeIsTuneIn DEF Channel!Next
<1>4. CASE ReleaseSource \/ ReplaceDispatcher
  <2>1. /\ viewer' = viewer /\ StreamUnchanged /\ source = "publishing"
        /\ DestroyIfUnowned(new_clients_)
    BY <1>4 DEF ReleaseSource, ReplaceDispatcher, StreamUnchanged
  <2>2. Alive
    BY <2>1 DEF Alive, SourceAlive
  <2>. QED BY <2>1, <2>2, DestroyIsGoOffAir DEF Channel!Next, HasMuxer
<1>5. CASE Reconnect
  <2>1. /\ UNCHANGED <<new_clients_, old_clients_, viewer, detached, published, keys, received>>
        /\ SourceAlive /\ source' = "publishing"
    BY <1>5 DEF Reconnect, readers, stream
  <2>2. Alive' = Alive
    BY <2>1 DEF Alive, SourceAlive
  <2>. QED BY <2>1, <2>2 DEF Channel!vars, Audience, Standing, HasMuxer
<1>6. ASSUME NEW q \in Readers, find(q) \/ get_dispatcher(q) \/ leave(q)
      PROVE  [Channel!Next]_(Channel!vars)
  BY <1>6, PlainMoveIsLeave DEF Channel!Next
<1>7. ASSUME NEW q \in Readers, regist_reader(q) PROVE Channel!Next
  BY <1>7, RegistIsJoin DEF Channel!Next
<1>8. ASSUME NEW q \in Readers, EndMuxing(q) PROVE [Channel!Next]_(Channel!vars)
  <2>1. /\ viewer[q] = "joined" /\ viewer'[q] = "watching"
        /\ \A r \in Readers \ {q} : viewer'[r] = viewer[r]
        /\ StreamUnchanged /\ DestroyIfUnowned(new_clients_)
    BY <1>8 DEF EndMuxing, StreamUnchanged, IndInv, TypeOK
  <2>2. Alive
    BY <2>1 DEF Alive, DispatcherHolders
  <2>. QED BY <2>1, <2>2, DestroyIsGoOffAir DEF Channel!Next, HasMuxer
<1>9. ASSUME NEW q \in Readers, deregist_reader(q) PROVE [Channel!Next]_(Channel!vars)
  <2>1. /\ viewer[q] = "leaving" /\ viewer'[q] = "left"
        /\ \A r \in Readers \ {q} : viewer'[r] = viewer[r]
        /\ StreamUnchanged /\ DestroyIfUnowned(Deregistered(q))
    BY <1>9 DEF deregist_reader, StreamUnchanged, IndInv, TypeOK
  <2>2. Alive
    BY <2>1 DEF Alive, DispatcherHolders
  <2>3. /\ Deregistered(q) \in SUBSET new_clients_
        /\ \A r \in Readers : HasMuxer(r) /\ r \in new_clients_ => r \in Deregistered(q)
    BY <2>1 DEF HasMuxer, Deregistered
  <2>. QED BY <2>1, <2>2, <2>3, DestroyIsGoOffAir DEF Channel!Next, HasMuxer
<1>10. CASE UNCHANGED vars
  BY <1>10 DEF vars, readers, stream, Channel!vars, Audience, Standing, HasMuxer, Alive,
               SourceAlive, SourceHolders, DispatcherHolders
<1>. QED
  BY <1>1, <1>2, <1>3, <1>4, <1>5, <1>6, <1>7, <1>8, <1>9, <1>10 DEF Next, Publisher, Viewer

\* A broadcast is a live channel, for any number of viewers, whenever they join
\* and leave between the locks of distribute(), and whoever ends it.
THEOREM BroadcastIsChannel == Spec => RefinesChannel
<1>1. Init => Channel!Init
  <2>1. ASSUME Init PROVE Alive = TRUE /\ \A r \in Readers : Standing(r) = "out"
    BY <2>1 DEF Init, Alive, SourceAlive, Standing
  <2>. QED BY <2>1 DEF Init, Channel!Init, Audience
<1>2. IndInv /\ IndInv' /\ [Next]_vars => [Channel!Next]_(Channel!vars)
  BY StepChannel
<1>. QED BY <1>1, <1>2, DispatcherInvariant, PTL DEF Spec, RefinesChannel, Channel!Spec
=============================================================================
