-------------------------- MODULE MediaSourceProofs --------------------------
(***************************************************************************)
(* Proofs about the registry of media sources, for every set of            *)
(* publishers, viewers and keys and every number of sources, connect       *)
(* commands and io threads.                                                *)
(***************************************************************************)
EXTENDS MediaSource, FiniteSetTheorems, TLAPS

Lives == {"none", "live", "dying", "dead"}

\* The inductive invariant: RegistryInv, and what it takes to keep the entries
\* of the registry and the token of a connection right.
Inv ==
    /\ RegistryInv /\ PushesIntoOwnSource
    /\ RegisteredStaysListed /\ StaleEntryOnlyAfterRename

-----------------------------------------------------------------------------
(* Facts about the operators                                               *)

\* What the assumptions say of the constants, in the form the proofs use.
LEMMA Constants ==
    /\ None \notin Sources /\ MaxSources \in Nat /\ MaxConnects \in Nat
    /\ NoKey \notin Keys /\ NoOne \notin Publishers
    /\ IsFiniteSet(Publishers) /\ IsFiniteSet(Viewers) /\ IsFiniteSet(Sources)
    /\ \A s \in Sources : s \in Nat
BY ConstantsAssumption, FS_Interval DEF None, Sources

\* DropUnheld kills the live sources that nobody holds, and only these.
LEMMA DropLemma ==
    ASSUME NEW alive \in [Sources -> Lives], DropUnheld(alive)
    PROVE  /\ life' \in [Sources -> Lives]
           /\ \A s \in Sources :
                /\ Held(s)' => life'[s] = alive[s]
                /\ life'[s] = alive[s] \/ (alive[s] = "live" /\ life'[s] = "dying")
                /\ life'[s] = "live" => Held(s)'
BY DEF DropUnheld, Lives

\* With one io thread, a handler starts when no other is in progress.
LEMMA ThreadLemma ==
    ASSUME TypeOK, ThreadFree, threads = 1
    PROVE  /\ \A p \in Publishers : step[p] = "idle"
           /\ \A v \in Viewers : hold[v] = None
<1>1. IsFiniteSet(Busy) /\ IsFiniteSet(Dying)
  <2>1. IsFiniteSet({p \in Publishers : step[p] # "idle"})
    BY Constants, FS_Subset
  <2>2. IsFiniteSet({v \in Viewers : hold[v] # None})
    BY Constants, FS_Subset
  <2>3. IsFiniteSet(Dying)
    BY Constants, FS_Subset DEF Dying
  <2>. QED BY <2>1, <2>2, <2>3, FS_Union DEF Busy
<1>2. Cardinality(Busy) \in Nat /\ Cardinality(Dying) \in Nat
  BY <1>1, FS_CardinalityType
<1>3. Cardinality(Busy) = 0
  BY <1>2 DEF ThreadFree
<1>4. Busy = {}
  BY <1>1, <1>3, FS_EmptySet
<1>. QED BY <1>4 DEF Busy

\* The sources created so far are 1 .. created.
LEMMA CreatedLemma ==
    ASSUME TypeOK, SourcesInOrder
    PROVE  /\ created \in Nat
           /\ \A s \in Sources : life[s] # "none" <=> s <= created
<1>1. PICK n \in 0..MaxSources : \A s \in Sources : life[s] # "none" <=> s <= n
  BY DEF SourcesInOrder
<1>2. {s \in Sources : life[s] # "none"} = 1..n
  BY <1>1, Constants DEF Sources
<1>3. Cardinality(1..n) = n
  BY FS_Interval, Constants
<1>4. created = n
  BY <1>2, <1>3 DEF created
<1>. QED BY <1>1, <1>4

\* No step but the creation of a source changes their number.
LEMMA SameCreated ==
    ASSUME \A s \in Sources : life'[s] = "none" <=> life[s] = "none"
    PROVE  created' = created
BY DEF created

\* A source is referred to by its holders' pointers, and these are live.
LEMMA HeldLemma ==
    ASSUME TypeOK, NEW s \in Sources, Held(s)
    PROVE  life[s] = "live"
BY Constants DEF TypeOK, Held, Live

-----------------------------------------------------------------------------
(* The publisher's messages                                                *)

\* on_amf_connect: a new media_info, and nothing else.
LEMMA ConnectStep ==
    ASSUME Inv, NEW p \in Publishers, on_amf_connect(p)
    PROVE  Inv'
<1>. USE DEF Inv, RegistryInv
<1>1. /\ media_info_' = [media_info_ EXCEPT ![p] = media_info_[p] + 1]
      /\ media_info_[p] < MaxConnects /\ step[p] = "idle"
      /\ UNCHANGED <<media_sources_, life, source_info, owned_, is_registered_, dispatcher_,
                     meta_data_, stream_id, conn, step, rtmp_source_, src_ownership_, found, hold,
                     reply, threads, reg_key, unreg_key>>
  BY DEF on_amf_connect, CanHandle, sources, viewers, history
<1>2. TypeOK'
  <2>1. media_info_' \in [Publishers -> 0..MaxConnects]
    BY <1>1, Constants DEF TypeOK
  <2>. QED BY <1>1, <2>1 DEF TypeOK, Live
<1>3. ConnectionsInOrder'
  BY <1>1 DEF ConnectionsInOrder, TypeOK
<1>4. SourcesInOrder'
  BY <1>1 DEF SourcesInOrder, created, Creators, KeyOf
<1>5. ExclusiveOwnership' /\ ListedWithMetadata' /\ OneThread'
  BY <1>1 DEF ExclusiveOwnership, ListedWithMetadata, OneThread, Leaked, Live
<1>6. PushesIntoOwnSource' /\ RegisteredStaysListed' /\ StaleEntryOnlyAfterRename'
  BY <1>1 DEF PushesIntoOwnSource, RegisteredStaysListed, StaleEntryOnlyAfterRename, Live
<1>. QED BY <1>2, <1>3, <1>4, <1>5, <1>6

\* A message that cannot be parsed, or that comes too early.
LEMMA ShutStep ==
    ASSUME Inv, NEW p \in Publishers, conn[p] = "open", step[p] = "idle", Shut(p),
           UNCHANGED <<media_sources_, sources, stream_id, step, media_info_, rtmp_source_,
                       src_ownership_, found, viewers, threads, history>>
    PROVE  Inv'
<1>. USE DEF Inv, RegistryInv
<1>1. /\ conn' = [conn EXCEPT ![p] = "shut"]
      /\ UNCHANGED <<media_sources_, life, source_info, owned_, is_registered_, dispatcher_,
                     meta_data_, stream_id, step, media_info_, rtmp_source_, src_ownership_, found,
                     hold, reply, threads, reg_key, unreg_key>>
  BY DEF Shut, sources, viewers, history
<1>2. TypeOK'
  BY <1>1 DEF TypeOK, Live
<1>3. ConnectionsInOrder'
  BY <1>1 DEF ConnectionsInOrder, TypeOK
<1>4. SourcesInOrder'
  BY <1>1 DEF SourcesInOrder, created, Creators, KeyOf
<1>5. ExclusiveOwnership' /\ ListedWithMetadata'
  BY <1>1 DEF ExclusiveOwnership, ListedWithMetadata, Live
<1>6. OneThread'
  <2>1. \A q \in Publishers, s \in Sources : Leaked(q, s) => Leaked(q, s)'
    BY <1>1 DEF Leaked, TypeOK
  <2>. QED BY <1>1, <2>1, Constants DEF OneThread, Live, TypeOK
<1>7. PushesIntoOwnSource' /\ RegisteredStaysListed' /\ StaleEntryOnlyAfterRename'
  BY <1>1 DEF PushesIntoOwnSource, RegisteredStaysListed, StaleEntryOnlyAfterRename, Live, TypeOK
<1>. QED BY <1>2, <1>3, <1>4, <1>5, <1>6, <1>7

\* The token's deleter frees the source of the token, and no other.
LEMMA ClearedLemma ==
    ASSUME TypeOK, NEW t, NEW s \in Sources
    PROVE  /\ Cleared(t) \in [Sources -> BOOLEAN]
           /\ Cleared(t)[s] <=> owned_[s] /\ ~(s = t /\ Live(s))
BY DEF Cleared, TypeOK

\* A publish command keeps the number of sources that are, or are about to be,
\* created within its bound.
LEMMA PublishBound ==
    ASSUME Inv, NEW p \in Publishers, NEW k \in Keys, on_amf_publish(p, k)
    PROVE  created' + Cardinality(Creators') <= MaxSources
<1>. USE DEF Inv, RegistryInv
<1>. DEFINE Taking == {q \in Publishers : step[q] = "taking"}
<1>1. /\ step' = [step EXCEPT ![p] = "taking"] /\ step[p] = "idle" /\ found[p] = None
      /\ created' = created
  BY DEF on_amf_publish, CanHandle, ConnectionsInOrder, created
<1>2. /\ IsFiniteSet(Taking) /\ IsFiniteSet(Creators) /\ Cardinality(Creators) <= Cardinality(Taking)
      /\ Cardinality(Taking) \in Nat /\ Cardinality(Creators) \in Nat /\ created \in Nat
  <2>1. Creators \subseteq Taking /\ Taking \subseteq Publishers
    BY DEF Creators
  <2>2. IsFiniteSet(Taking)
    BY <2>1, Constants, FS_Subset
  <2>. QED BY <2>1, <2>2, FS_Subset, FS_CardinalityType, CreatedLemma
<1>3. CASE Live(media_sources_[k])
  <2>1. found' = [found EXCEPT ![p] = media_sources_[k]] /\ media_sources_[k] # None
    BY <1>3 DEF on_amf_publish, Live
  <2>2. Creators' = Creators
    BY <1>1, <2>1 DEF Creators, TypeOK
  <2>. QED BY <1>1, <2>2 DEF SourcesInOrder
<1>4. CASE ~Live(media_sources_[k])
  <2>1. created + Cardinality(Taking) < MaxSources /\ found' = found
    BY <1>4 DEF on_amf_publish
  <2>2. Creators' = Creators \cup {p} /\ p \notin Creators
    BY <1>1, <2>1 DEF Creators, TypeOK
  <2>3. Cardinality(Creators') = Cardinality(Creators) + 1
    BY <1>2, <2>2, FS_AddElement
  <2>. QED BY <1>1, <1>2, <2>1, <2>3, Constants
<1>. QED BY <1>3, <1>4

\* on_amf_publish up to get_ownership(): the key, and what find() returned.
LEMMA PublishStep ==
    ASSUME Inv, NEW p \in Publishers, NEW k \in Keys, on_amf_publish(p, k)
    PROVE  Inv'
<1>. USE DEF Inv, RegistryInv
<1>. DEFINE i == <<p, media_info_[p]>>
            s == media_sources_[k]
<1>1. /\ stream_id' = [stream_id EXCEPT ![i] = k]
      /\ step' = [step EXCEPT ![p] = "taking"] /\ step[p] = "idle" /\ conn[p] = "open"
      /\ media_info_[p] # None /\ ThreadFree
      /\ UNCHANGED <<media_sources_, life, source_info, is_registered_, dispatcher_, meta_data_,
                     conn, media_info_, rtmp_source_, hold, reply, threads, reg_key, unreg_key>>
  BY DEF on_amf_publish, CanHandle, viewers, history
<1>2. \/ /\ Live(s) /\ s \in Sources /\ found' = [found EXCEPT ![p] = s]
         /\ owned_' = Cleared(src_ownership_[p])
         /\ src_ownership_' = [src_ownership_ EXCEPT ![p] = None]
      \/ UNCHANGED <<found, owned_, src_ownership_>>
  BY DEF on_amf_publish, TypeOK, Live
<1>3. i \in Infos
  BY <1>1, Constants DEF TypeOK, Infos, None
<1>4. /\ stream_id' \in [Infos -> Keys \cup {NoKey}] /\ stream_id'[i] = k
      /\ \A j \in Infos : stream_id[j] \in Keys => stream_id'[j] \in Keys
  BY <1>1, <1>3 DEF TypeOK
<1>5. TypeOK'
  <2>1. owned_' \in [Sources -> BOOLEAN]
    BY <1>2, ClearedLemma DEF TypeOK, Cleared
  <2>. QED BY <1>1, <1>2, <1>4, <2>1 DEF TypeOK, Live
<1>6. ExclusiveOwnership'
  <2>1. CASE UNCHANGED <<found, owned_, src_ownership_>>
    BY <1>1, <2>1 DEF ExclusiveOwnership, Live
  <2>2. CASE /\ owned_' = Cleared(src_ownership_[p])
             /\ src_ownership_' = [src_ownership_ EXCEPT ![p] = None]
    <3>1. \A q \in Publishers : src_ownership_'[q] = IF q = p THEN None ELSE src_ownership_[q]
      BY <2>2 DEF TypeOK
    <3>2. \A t \in Sources : owned_'[t] <=> owned_[t] /\ ~(t = src_ownership_[p] /\ Live(t))
      BY <2>2, ClearedLemma
    <3>3. \A t \in Sources : Live(t)' <=> Live(t)
      BY <1>1 DEF Live
    <3>. QED BY <3>1, <3>2, <3>3, Constants DEF ExclusiveOwnership
  <2>. QED BY <1>2, <2>1, <2>2
<1>7. ConnectionsInOrder'
  BY <1>1, <1>2, <1>3, <1>4 DEF ConnectionsInOrder, TypeOK
<1>8. SourcesInOrder'
  <2>1. \A t \in Sources : life[t] # "none" => KeyOf(t)' \in Keys
    BY <1>1, <1>4 DEF SourcesInOrder, KeyOf
  <2>. QED BY <1>1, <2>1, PublishBound DEF SourcesInOrder
<1>9. OneThread'
  <2>1. threads = 1 => /\ \A q \in Publishers : step[q] = "idle"
                       /\ \A v \in Viewers : hold[v] = None
    BY <1>1, ThreadLemma
  <2>2. \A q \in Publishers : \A t : Leaked(q, t) => Leaked(q, t)'
    BY <1>1, <1>2 DEF Leaked, TypeOK
  <2>. QED BY <1>1, <2>1, <2>2 DEF OneThread, TypeOK, Live
<1>10. ListedWithMetadata' /\ PushesIntoOwnSource'
  BY <1>1, <1>2 DEF ListedWithMetadata, PushesIntoOwnSource, TypeOK
<1>11. RegisteredStaysListed' /\ StaleEntryOnlyAfterRename'
  BY <1>1 DEF RegisteredStaysListed, StaleEntryOnlyAfterRename, Live
<1>. QED BY <1>5, <1>6, <1>7, <1>8, <1>9, <1>10, <1>11

-----------------------------------------------------------------------------
(* Steps that drop a pointer to a source                                   *)

\* With one io thread: when the handler of p lets go of source t and t is
\* still held, a leaked connection holds it.
LEMMA KeptLemma ==
    ASSUME Inv, threads = 1, NEW p \in Publishers, step[p] # "idle",
           \A q \in Publishers \ {p} : rtmp_source_'[q] = rtmp_source_[q] /\ found'[q] = found[q],
           found'[p] = None, hold' = hold,
           NEW t \in Sources, rtmp_source_[p] = t, rtmp_source_'[p] # t, Held(t)'
    PROVE  \E q \in Publishers \ {p} : Leaked(q, t)
<1>. USE DEF Inv, RegistryInv
<1>1. \A v \in Viewers : hold'[v] # t
  BY Constants DEF OneThread
<1>2. ASSUME NEW q \in Publishers PROVE found'[q] # t
  <2>1. CASE q = p
    BY <2>1, Constants
  <2>2. CASE q # p
    <3>1. step[q] = "idle"
      BY <2>2 DEF OneThread
    <3>2. found[q] = None
      BY <3>1 DEF ConnectionsInOrder
    <3>. QED BY <2>2, <3>2, Constants
  <2>. QED BY <2>1, <2>2
<1>3. PICK q \in Publishers \ {p} : rtmp_source_[q] = t
  BY <1>1, <1>2 DEF Held
<1>4. conn[p] # "shut"
  BY DEF ConnectionsInOrder, TypeOK
<1>. QED BY <1>3, <1>4, Constants DEF OneThread, Leaked

\* on_amf_publish takes a source of its own, and its token.
LEMMA TakeNewStep ==
    ASSUME Inv, NEW p \in Publishers, TakeNew(p), NEW s, s = created + 1
    PROVE  Inv'
<1>. USE DEF Inv, RegistryInv
<1>. DEFINE alive == [life EXCEPT ![s] = "live"]
<1>1. /\ step[p] = "taking" /\ found[p] = None /\ conn[p] = "open"
      /\ source_info' = [source_info EXCEPT ![s] = <<p, media_info_[p]>>]
      /\ owned_' = [Cleared(src_ownership_[p]) EXCEPT ![s] = TRUE]
      /\ src_ownership_' = [src_ownership_ EXCEPT ![p] = s]
      /\ rtmp_source_' = [rtmp_source_ EXCEPT ![p] = s]
      /\ step' = [step EXCEPT ![p] = "idle"]
      /\ DropUnheld(alive)
      /\ UNCHANGED <<media_sources_, stream_id, is_registered_, dispatcher_, meta_data_, conn,
                     media_info_, found, hold, reply, threads, reg_key, unreg_key>>
  BY DEF TakeNew, ConnectionsInOrder, viewers, history
<1>2. /\ IsFiniteSet(Creators) /\ Cardinality(Creators) \in Nat /\ created \in Nat
      /\ p \in Creators /\ Cardinality(Creators \ {p}) = Cardinality(Creators) - 1
      /\ Cardinality(Creators \ {p}) \in Nat
  <2>1. Creators \subseteq Publishers /\ p \in Creators
    BY <1>1 DEF Creators
  <2>2. IsFiniteSet(Creators)
    BY <2>1, Constants, FS_Subset
  <2>. QED BY <2>1, <2>2, FS_CardinalityType, FS_RemoveElement, CreatedLemma
<1>3. s \in Sources /\ life[s] = "none" /\ s # None
  <2>1. s \in Sources
    BY <1>2, Constants DEF SourcesInOrder, Sources
  <2>. QED BY <1>2, <2>1, CreatedLemma, Constants DEF None
<1>4. alive \in [Sources -> Lives] /\ alive[s] = "live"
      /\ \A t \in Sources \ {s} : alive[t] = life[t]
  BY <1>3 DEF TypeOK, Lives
<1>. HIDE DEF alive
<1>5. /\ rtmp_source_'[p] = s /\ src_ownership_'[p] = s
      /\ \A q \in Publishers \ {p} : /\ rtmp_source_'[q] = rtmp_source_[q]
                                     /\ src_ownership_'[q] = src_ownership_[q]
      /\ \A q \in Publishers : rtmp_source_[q] # s /\ src_ownership_[q] # s
  <2>1. \A q \in Publishers : rtmp_source_[q] # s
    BY <1>3 DEF TypeOK, Live
  <2>2. \A q \in Publishers : src_ownership_[q] # s
    BY <1>3, <2>1 DEF ConnectionsInOrder
  <2>. QED BY <1>1, <2>1, <2>2 DEF TypeOK
<1>6. /\ life' \in [Sources -> Lives] /\ life'[s] = "live"
      /\ \A t \in Sources \ {s} :
           /\ Held(t)' => life'[t] = life[t]
           /\ life'[t] = life[t] \/ (life[t] = "live" /\ life'[t] = "dying")
           /\ life'[t] = "live" => Held(t)' /\ life[t] = "live"
  <2>1. Held(s)'
    BY <1>5 DEF Held
  <2>. QED BY <1>1, <1>3, <1>4, <2>1, DropLemma
<1>7. TypeOK'
  <2>1. \A q \in Publishers : rtmp_source_'[q] # None => Live(rtmp_source_[q])'
    <3>1. \A q \in Publishers \ {p}, t \in Sources : rtmp_source_[q] = t => Held(t)'
      BY <1>5 DEF Held
    <3>. QED BY <1>3, <1>5, <1>6, <3>1 DEF TypeOK, Live
  <2>2. \A q \in Publishers : found'[q] # None => Live(found[q])'
    <3>1. \A q \in Publishers, t \in Sources : found[q] = t => Held(t)'
      BY <1>1 DEF Held
    <3>. QED BY <1>1, <1>3, <1>6, <3>1 DEF TypeOK, Live
  <2>3. \A v \in Viewers : hold'[v] # None => Live(hold[v])'
    <3>1. \A v \in Viewers, t \in Sources : hold[v] = t => Held(t)'
      BY <1>1 DEF Held
    <3>. QED BY <1>1, <1>3, <1>6, <3>1 DEF TypeOK, Live
  <2>4. <<p, media_info_[p]>> \in Infos
    BY <1>1, Constants DEF ConnectionsInOrder, TypeOK, Infos, None
  <2>5. owned_' \in [Sources -> BOOLEAN]
    BY <1>1 DEF Cleared, TypeOK
  <2>. QED BY <1>1, <1>3, <1>6, <2>1, <2>2, <2>3, <2>4, <2>5 DEF TypeOK, Lives
<1>8. ExclusiveOwnership'
  <2>1. ASSUME NEW t \in Sources \ {s}, Live(t)' PROVE owned_'[t] <=> owned_[t] /\ t # src_ownership_[p]
    <3>1. Live(t)
      BY <1>6, <2>1 DEF Live
    <3>. QED BY <1>1, <3>1, ClearedLemma DEF Cleared
  <2>2. owned_'[s]
    BY <1>1, <1>3 DEF Cleared
  <2>3. \A t \in Sources \ {s} : Live(t)' => Live(t)
    BY <1>6 DEF Live
  <2>4. ASSUME NEW q \in Publishers, NEW r \in Publishers, q # r, src_ownership_'[q] # None
        PROVE  src_ownership_'[q] # src_ownership_'[r]
    BY <1>5, <2>4 DEF ExclusiveOwnership
  <2>5. ASSUME NEW t \in Sources, Live(t)'
        PROVE  owned_'[t] <=> \E q \in Publishers : src_ownership_'[q] = t
    <3>1. CASE t = s
      BY <1>5, <2>2, <3>1
    <3>2. CASE t # s
      <4>1. owned_[t] <=> \E q \in Publishers : src_ownership_[q] = t
        BY <2>3, <2>5, <3>2 DEF ExclusiveOwnership
      <4>2. owned_'[t] <=> owned_[t] /\ t # src_ownership_[p]
        BY <2>1, <2>5, <3>2
      <4>3. (\E q \in Publishers : src_ownership_'[q] = t)
              <=> (\E q \in Publishers \ {p} : src_ownership_[q] = t)
        BY <1>5, <3>2
      <4>4. \A q \in Publishers \ {p} : src_ownership_[q] = t => src_ownership_[p] # t
        BY Constants DEF ExclusiveOwnership
      <4>. QED BY <4>1, <4>2, <4>3, <4>4
    <3>. QED BY <3>1, <3>2
  <2>. QED BY <2>4, <2>5 DEF ExclusiveOwnership
<1>9. ConnectionsInOrder'
  BY <1>1, <1>3, <1>5 DEF ConnectionsInOrder, TypeOK
<1>10. SourcesInOrder'
  <2>1. {t \in Sources : life'[t] # "none"} = {t \in Sources : life[t] # "none"} \cup {s}
    BY <1>3, <1>6
  <2>2. created' = created + 1
    <3>1. IsFiniteSet({t \in Sources : life[t] # "none"})
      BY Constants, FS_Subset
    <3>. QED BY <1>3, <2>1, <3>1, FS_AddElement DEF created
  <2>3. Creators' = Creators \ {p}
    BY <1>1 DEF Creators, TypeOK
  <2>4. created' + Cardinality(Creators') <= MaxSources
    BY <1>2, <2>2, <2>3, Constants DEF SourcesInOrder
  <2>5. \A t \in Sources : life'[t] # "none" <=> t <= created + 1
    <3>1. \A t \in Sources : life'[t] # "none" <=> life[t] # "none" \/ t = s
      BY <1>3, <1>6
    <3>2. \A t \in Sources : life[t] # "none" <=> t <= created
      BY CreatedLemma
    <3>. QED BY <1>2, <3>1, <3>2, Constants
  <2>6. created + 1 \in 0..MaxSources
    BY <1>2, <1>3 DEF Sources
  <2>7. KeyOf(s)' \in Keys /\ source_info'[s] \in Infos
    BY <1>1, <1>3, Constants DEF KeyOf, TypeOK, ConnectionsInOrder, Infos, None
  <2>8. \A t \in Sources \ {s} : life'[t] # "none" => source_info'[t] \in Infos /\ KeyOf(t)' \in Keys
    BY <1>1, <1>3, <1>6 DEF KeyOf, TypeOK, SourcesInOrder
  <2>9. \A t \in Sources : life'[t] = "none" => ~is_registered_'[t] /\ meta_data_'[t] = NoOne
    BY <1>1, <1>6 DEF SourcesInOrder
  <2>. QED BY <2>4, <2>5, <2>6, <2>7, <2>8, <2>9 DEF SourcesInOrder
<1>11. OneThread'
  <2>. SUFFICES ASSUME threads = 1 PROVE OneThread'
    BY <1>1 DEF OneThread
  <2>1. \A q \in Publishers : \A t : Leaked(q, t) => Leaked(q, t)' /\ q # p
    BY <1>1, <1>5 DEF Leaked
  <2>2. /\ \A q, r \in Publishers : step'[q] # "idle" /\ step'[r] # "idle" => q = r
        /\ \A q \in Publishers, v \in Viewers : step'[q] # "idle" => hold'[v] = None
    BY <1>1 DEF OneThread, TypeOK
  <2>3. ASSUME NEW q \in Publishers, NEW r \in Publishers, q # r, rtmp_source_'[q] # None,
               rtmp_source_'[q] = rtmp_source_'[r]
        PROVE  Leaked(q, rtmp_source_[q])' \/ Leaked(r, rtmp_source_[r])'
    <3>1. q # p /\ r # p
      BY <1>5, <2>3
    <3>. QED BY <1>5, <2>1, <2>3, <3>1 DEF OneThread
  <2>4. ASSUME NEW t \in Sources, Live(t)', meta_data_'[t] # NoOne
        PROVE  rtmp_source_'[meta_data_'[t]] = t \/ \E q \in Publishers : Leaked(q, t)'
    <3>1. t # s /\ Live(t) /\ Held(t)' /\ meta_data_[t] \in Publishers
      BY <1>1, <1>3, <1>6, <2>4 DEF SourcesInOrder, Live, TypeOK
    <3>2. CASE rtmp_source_[p] = t
      <4>1. \E q \in Publishers \ {p} : Leaked(q, t)
        BY <1>1, <1>5, <3>1, <3>2, KeptLemma
      <4>. QED BY <2>1, <4>1
    <3>3. CASE rtmp_source_[p] # t
      <4>1. rtmp_source_[meta_data_[t]] = t \/ \E q \in Publishers : Leaked(q, t)
        BY <1>1, <2>4, <3>1 DEF OneThread
      <4>2. rtmp_source_[meta_data_[t]] = t => rtmp_source_'[meta_data_'[t]] = t
        BY <1>1, <1>5, <3>1, <3>3
      <4>. QED BY <2>1, <4>1, <4>2
    <3>. QED BY <3>2, <3>3
  <2>. QED BY <2>2, <2>3, <2>4 DEF OneThread
<1>12. ListedWithMetadata' /\ PushesIntoOwnSource'
  BY <1>1, <1>5 DEF ListedWithMetadata, PushesIntoOwnSource, TypeOK
<1>13. RegisteredStaysListed' /\ StaleEntryOnlyAfterRename'
  <2>1. \A t \in Sources : Live(t)' /\ is_registered_[t] => Live(t)
    BY <1>3, <1>6, Constants DEF Live, SourcesInOrder
  <2>2. \A t \in Sources : life'[t] = "dead" => life[t] = "dead"
    BY <1>6
  <2>. QED BY <1>1, <2>1, <2>2 DEF RegisteredStaysListed, StaleEntryOnlyAfterRename, TypeOK
<1>. QED BY <1>7, <1>8, <1>9, <1>10, <1>11, <1>12, <1>13

\* After DropUnheld, whoever holds a source holds a live one.
LEMMA HoldersLive ==
    ASSUME NEW alive \in [Sources -> Lives], DropUnheld(alive),
           \A t \in Sources : Held(t)' => alive[t] = "live",
           rtmp_source_' \in [Publishers -> {None} \cup Sources],
           found' \in [Publishers -> {None} \cup Sources],
           hold' \in [Viewers -> {None} \cup Sources]
    PROVE  /\ \A p \in Publishers : rtmp_source_'[p] # None => Live(rtmp_source_[p])'
           /\ \A p \in Publishers : found'[p] # None => Live(found[p])'
           /\ \A v \in Viewers : hold'[v] # None => Live(hold[v])'
<1>1. \A t \in Sources : Held(t)' => life'[t] = "live"
  BY DropLemma
<1>. QED BY <1>1 DEF Held, Live

\* What a drop of pointers to existing sources leaves alone.
LEMMA DropKeeps ==
    ASSUME Inv, DropUnheld(life),
           UNCHANGED <<media_sources_, stream_id, source_info, is_registered_, dispatcher_,
                       meta_data_, media_info_, reg_key, unreg_key>>
    PROVE  /\ life' \in [Sources -> Lives] /\ created' = created
           /\ \A t \in Sources : life'[t] = "live" => life[t] = "live" /\ Held(t)'
           /\ \A t \in Sources : life'[t] # "none" <=> life[t] # "none"
           /\ ListedWithMetadata' /\ RegisteredStaysListed' /\ StaleEntryOnlyAfterRename'
           /\ Cardinality(Creators') <= Cardinality(Creators) => SourcesInOrder'
<1>. USE DEF Inv, RegistryInv
<1>0. life \in [Sources -> Lives]
  BY DEF TypeOK, Lives
<1>1. /\ life' \in [Sources -> Lives]
      /\ \A t \in Sources : life'[t] = "live" => life[t] = "live" /\ Held(t)'
      /\ \A t \in Sources : life'[t] # "none" <=> life[t] # "none"
      /\ \A t \in Sources : life'[t] = "dead" => life[t] = "dead"
  BY <1>0, DropLemma
<1>2. created' = created
  BY <1>1, SameCreated
<1>3. ListedWithMetadata'
  BY DEF ListedWithMetadata
<1>4. RegisteredStaysListed'
  BY <1>1 DEF RegisteredStaysListed, Live
<1>5. StaleEntryOnlyAfterRename'
  BY <1>1 DEF StaleEntryOnlyAfterRename, TypeOK
<1>6. ASSUME Cardinality(Creators') <= Cardinality(Creators) PROVE SourcesInOrder'
  <2>1. created' + Cardinality(Creators') <= MaxSources
    <3>1. IsFiniteSet(Creators) /\ IsFiniteSet(Creators')
      BY Constants, FS_Subset DEF Creators
    <3>2. Cardinality(Creators) \in Nat /\ Cardinality(Creators') \in Nat /\ created \in Nat
      BY <3>1, FS_CardinalityType, CreatedLemma
    <3>. QED BY <1>2, <1>6, <3>2, Constants DEF SourcesInOrder
  <2>2. \A t \in Sources : KeyOf(t)' = KeyOf(t)
    BY DEF KeyOf
  <2>3. \E n \in 0..MaxSources : \A t \in Sources : life'[t] # "none" <=> t <= n
    BY <1>1 DEF SourcesInOrder
  <2>. QED BY <1>1, <2>1, <2>2, <2>3 DEF SourcesInOrder
<1>. QED BY <1>1, <1>2, <1>3, <1>4, <1>5, <1>6

\* Fewer publishers about to create a source.
LEMMA FewerCreators ==
    ASSUME Creators' \subseteq Creators
    PROVE  Cardinality(Creators') <= Cardinality(Creators)
<1>1. IsFiniteSet(Creators)
  BY Constants, FS_Subset DEF Creators
<1>. QED BY <1>1, FS_Subset

\* get_ownership() refuses: the session is shut down.
LEMMA RefusedStep ==
    ASSUME Inv, NEW p \in Publishers, TakeFound(p), Refused(found[p])
    PROVE  Inv'
<1>. USE DEF Inv, RegistryInv
<1>1. /\ step[p] = "taking" /\ found[p] # None /\ conn[p] = "open" /\ src_ownership_[p] = None
      /\ conn' = [conn EXCEPT ![p] = "shut"]
      /\ found' = [found EXCEPT ![p] = None]
      /\ step' = [step EXCEPT ![p] = "idle"]
      /\ DropUnheld(life)
      /\ UNCHANGED <<media_sources_, stream_id, source_info, owned_, is_registered_, dispatcher_,
                     meta_data_, media_info_, rtmp_source_, src_ownership_, hold, reply, threads,
                     reg_key, unreg_key>>
  BY DEF TakeFound, OnRefusal, Shut, ConnectionsInOrder, viewers, history
<1>2. SourcesInOrder'
  <2>1. Creators' \subseteq Creators
    BY <1>1 DEF Creators, TypeOK
  <2>. QED BY <1>1, <2>1, FewerCreators, DropKeeps
<1>3. TypeOK'
  <2>1. \A t \in Sources : Held(t)' => life[t] = "live"
    BY <1>1, Constants DEF Held, TypeOK, Live
  <2>2. /\ rtmp_source_' \in [Publishers -> {None} \cup Sources]
        /\ found' \in [Publishers -> {None} \cup Sources]
        /\ hold' \in [Viewers -> {None} \cup Sources]
    BY <1>1 DEF TypeOK
  <2>3. life \in [Sources -> Lives]
    BY DEF TypeOK, Lives
  <2>4. /\ \A q \in Publishers : rtmp_source_'[q] # None => Live(rtmp_source_[q])'
        /\ \A q \in Publishers : found'[q] # None => Live(found[q])'
        /\ \A v \in Viewers : hold'[v] # None => Live(hold[v])'
    BY <1>1, <2>1, <2>2, <2>3, HoldersLive
  <2>. QED BY <1>1, <2>2, <2>4, DropKeeps DEF TypeOK, Lives
<1>4. ExclusiveOwnership'
  <2>1. \A t \in Sources : Live(t)' => Live(t)
    BY <1>1, DropKeeps DEF Live
  <2>. QED BY <1>1, <2>1 DEF ExclusiveOwnership
<1>5. ConnectionsInOrder'
  BY <1>1 DEF ConnectionsInOrder, TypeOK
<1>6. OneThread'
  <2>1. \A q \in Publishers : \A t : Leaked(q, t) => Leaked(q, t)'
    BY <1>1 DEF Leaked
  <2>2. \A t \in Sources : Live(t)' => Live(t)
    BY <1>1, DropKeeps DEF Live
  <2>. QED BY <1>1, <2>1, <2>2 DEF OneThread, TypeOK
<1>7. PushesIntoOwnSource'
  BY <1>1 DEF PushesIntoOwnSource, TypeOK
<1>. QED BY <1>1, <1>2, <1>3, <1>4, <1>5, <1>6, <1>7, DropKeeps

\* get_ownership() grants the token of the source that find() returned.
LEMMA GrantedStep ==
    ASSUME Inv, NEW p \in Publishers, TakeFound(p), NEW s, s = found[p], ~Refused(s)
    PROVE  Inv'
<1>. USE DEF Inv, RegistryInv
<1>1. /\ step[p] = "taking" /\ s # None /\ conn[p] = "open" /\ src_ownership_[p] = None
      /\ ~owned_[s]
      /\ owned_' = [owned_ EXCEPT ![s] = TRUE]
      /\ src_ownership_' = [src_ownership_ EXCEPT ![p] = s]
      /\ rtmp_source_' = [rtmp_source_ EXCEPT ![p] = s]
      /\ found' = [found EXCEPT ![p] = None]
      /\ step' = [step EXCEPT ![p] = "idle"]
      /\ DropUnheld(life)
      /\ UNCHANGED <<media_sources_, stream_id, source_info, is_registered_, dispatcher_,
                     meta_data_, conn, media_info_, hold, reply, threads, reg_key, unreg_key>>
  BY DEF TakeFound, Refused, ConnectionsInOrder, viewers, history
<1>2. /\ s \in Sources /\ Live(s)
      /\ rtmp_source_'[p] = s /\ src_ownership_'[p] = s /\ found'[p] = None /\ step'[p] = "idle"
      /\ \A q \in Publishers \ {p} :
           /\ rtmp_source_'[q] = rtmp_source_[q] /\ src_ownership_'[q] = src_ownership_[q]
           /\ found'[q] = found[q] /\ step'[q] = step[q]
  BY <1>1 DEF TypeOK
<1>3. \A q \in Publishers : src_ownership_[q] # s
  BY <1>1, <1>2 DEF ExclusiveOwnership
<1>4. SourcesInOrder'
  <2>1. Creators' \subseteq Creators
    BY <1>1, <1>2 DEF Creators
  <2>. QED BY <1>1, <2>1, FewerCreators, DropKeeps
<1>5. TypeOK'
  <2>1. \A t \in Sources : Held(t)' => life[t] = "live"
    BY <1>1, <1>2, Constants DEF Held, TypeOK, Live
  <2>2. /\ rtmp_source_' \in [Publishers -> {None} \cup Sources]
        /\ found' \in [Publishers -> {None} \cup Sources]
        /\ hold' \in [Viewers -> {None} \cup Sources]
    BY <1>1, <1>2 DEF TypeOK
  <2>3. life \in [Sources -> Lives]
    BY DEF TypeOK, Lives
  <2>4. /\ \A q \in Publishers : rtmp_source_'[q] # None => Live(rtmp_source_[q])'
        /\ \A q \in Publishers : found'[q] # None => Live(found[q])'
        /\ \A v \in Viewers : hold'[v] # None => Live(hold[v])'
    BY <1>1, <2>1, <2>2, <2>3, HoldersLive
  <2>. QED BY <1>1, <1>2, <2>2, <2>4, DropKeeps DEF TypeOK, Lives
<1>6. ExclusiveOwnership'
  <2>1. \A t \in Sources : Live(t)' => Live(t)
    BY <1>1, DropKeeps DEF Live
  <2>2. ASSUME NEW q \in Publishers, NEW r \in Publishers, q # r, src_ownership_'[q] # None
        PROVE  src_ownership_'[q] # src_ownership_'[r]
    BY <1>2, <1>3, <2>2 DEF ExclusiveOwnership
  <2>3. ASSUME NEW t \in Sources, Live(t)'
        PROVE  owned_'[t] <=> \E q \in Publishers : src_ownership_'[q] = t
    <3>1. CASE t = s
      BY <1>1, <1>2, <3>1 DEF TypeOK
    <3>2. CASE t # s
      <4>1. owned_'[t] = owned_[t]
        BY <1>1, <3>2 DEF TypeOK
      <4>2. (\E q \in Publishers : src_ownership_'[q] = t)
              <=> (\E q \in Publishers : src_ownership_[q] = t)
        BY <1>1, <1>2, <3>2, Constants
      <4>3. owned_[t] <=> \E q \in Publishers : src_ownership_[q] = t
        BY <2>1, <2>3 DEF ExclusiveOwnership
      <4>. QED BY <4>1, <4>2, <4>3
    <3>. QED BY <3>1, <3>2
  <2>. QED BY <2>2, <2>3 DEF ExclusiveOwnership
<1>7. ConnectionsInOrder'
  BY <1>1, <1>2 DEF ConnectionsInOrder, TypeOK
<1>8. OneThread'
  <2>. SUFFICES ASSUME threads = 1 PROVE OneThread'
    BY <1>1 DEF OneThread
  <2>1. \A q \in Publishers : \A t : Leaked(q, t) => Leaked(q, t)' /\ q # p
    BY <1>1, <1>2 DEF Leaked
  <2>2. /\ \A q, r \in Publishers : step'[q] # "idle" /\ step'[r] # "idle" => q = r
        /\ \A q \in Publishers, v \in Viewers : step'[q] # "idle" => hold'[v] = None
    BY <1>1, <1>2 DEF OneThread
  <2>3. ASSUME NEW q \in Publishers \ {p}, rtmp_source_[q] = s PROVE Leaked(q, s)
    <3>1. step[q] = "idle"
      BY <1>1 DEF OneThread
    <3>2. src_ownership_[q] = None
      BY <1>3, <2>3 DEF ConnectionsInOrder
    <3>3. conn[q] # "open"
      BY <1>1, <2>3, <3>1, <3>2 DEF PushesIntoOwnSource
    <3>4. conn[q] # "gone"
      BY <1>1, <2>3, <3>1 DEF ConnectionsInOrder
    <3>. QED BY <2>3, <3>2, <3>3, <3>4 DEF Leaked, TypeOK
  <2>4. ASSUME NEW q \in Publishers, NEW r \in Publishers, q # r, rtmp_source_'[q] # None,
               rtmp_source_'[q] = rtmp_source_'[r]
        PROVE  Leaked(q, rtmp_source_[q])' \/ Leaked(r, rtmp_source_[r])'
    <3>1. CASE q = p
      <4>1. Leaked(r, s)' /\ rtmp_source_'[r] = s
        BY <1>2, <2>1, <2>3, <2>4, <3>1
      <4>. QED BY <4>1 DEF Leaked
    <3>2. CASE r = p
      <4>1. Leaked(q, s)' /\ rtmp_source_'[q] = s
        BY <1>2, <2>1, <2>3, <2>4, <3>2
      <4>. QED BY <4>1 DEF Leaked
    <3>3. CASE q # p /\ r # p
      BY <1>2, <2>1, <2>4, <3>3 DEF OneThread
    <3>. QED BY <3>1, <3>2, <3>3
  <2>5. ASSUME NEW t \in Sources, Live(t)', meta_data_'[t] # NoOne
        PROVE  rtmp_source_'[meta_data_'[t]] = t \/ \E q \in Publishers : Leaked(q, t)'
    <3>1. Live(t) /\ Held(t)' /\ meta_data_[t] \in Publishers
      BY <1>1, <2>5, DropKeeps DEF Live, TypeOK
    <3>2. CASE rtmp_source_[p] = t /\ t # s
      <4>1. \E q \in Publishers \ {p} : Leaked(q, t)
        BY <1>1, <1>2, <3>1, <3>2, KeptLemma
      <4>. QED BY <2>1, <4>1
    <3>3. CASE rtmp_source_[p] # t \/ t = s
      <4>1. rtmp_source_[meta_data_[t]] = t \/ \E q \in Publishers : Leaked(q, t)
        BY <1>1, <2>5, <3>1 DEF OneThread
      <4>2. rtmp_source_[meta_data_[t]] = t => rtmp_source_'[meta_data_'[t]] = t
        BY <1>1, <1>2, <3>1, <3>3
      <4>. QED BY <2>1, <4>1, <4>2
    <3>. QED BY <3>2, <3>3
  <2>. QED BY <2>2, <2>4, <2>5 DEF OneThread
<1>9. PushesIntoOwnSource'
  BY <1>1, <1>2 DEF PushesIntoOwnSource
<1>. QED BY <1>1, <1>4, <1>5, <1>6, <1>7, <1>8, <1>9, DropKeeps

\* ~rtmp_protocol lets go of its source.
LEMMA ReleaseStep ==
    ASSUME Inv, NEW p \in Publishers, ReleaseSource(p)
    PROVE  Inv'
<1>. USE DEF Inv, RegistryInv
<1>1. /\ step[p] = "releasing" /\ conn[p] = "gone" /\ src_ownership_[p] = None /\ found[p] = None
      /\ rtmp_source_' = [rtmp_source_ EXCEPT ![p] = None]
      /\ step' = [step EXCEPT ![p] = "idle"]
      /\ DropUnheld(life)
      /\ UNCHANGED <<media_sources_, stream_id, source_info, owned_, is_registered_, dispatcher_,
                     meta_data_, conn, media_info_, src_ownership_, found, hold, reply, threads,
                     reg_key, unreg_key>>
  BY DEF ReleaseSource, ConnectionsInOrder, viewers, history
<1>2. /\ rtmp_source_'[p] = None /\ step'[p] = "idle"
      /\ \A q \in Publishers \ {p} : rtmp_source_'[q] = rtmp_source_[q] /\ step'[q] = step[q]
  BY <1>1 DEF TypeOK
<1>3. SourcesInOrder'
  <2>1. Creators' \subseteq Creators
    BY <1>1, <1>2 DEF Creators
  <2>. QED BY <1>1, <2>1, FewerCreators, DropKeeps
<1>4. TypeOK'
  <2>1. \A t \in Sources : Held(t)' => life[t] = "live"
    BY <1>1, <1>2, Constants DEF Held, TypeOK, Live
  <2>2. /\ rtmp_source_' \in [Publishers -> {None} \cup Sources]
        /\ found' \in [Publishers -> {None} \cup Sources]
        /\ hold' \in [Viewers -> {None} \cup Sources]
    BY <1>1 DEF TypeOK
  <2>3. life \in [Sources -> Lives]
    BY DEF TypeOK, Lives
  <2>4. /\ \A q \in Publishers : rtmp_source_'[q] # None => Live(rtmp_source_[q])'
        /\ \A q \in Publishers : found'[q] # None => Live(found[q])'
        /\ \A v \in Viewers : hold'[v] # None => Live(hold[v])'
    BY <1>1, <2>1, <2>2, <2>3, HoldersLive
  <2>. QED BY <1>1, <2>2, <2>4, DropKeeps DEF TypeOK, Lives
<1>5. ExclusiveOwnership'
  <2>1. \A t \in Sources : Live(t)' => Live(t)
    BY <1>1, DropKeeps DEF Live
  <2>. QED BY <1>1, <2>1 DEF ExclusiveOwnership
<1>6. ConnectionsInOrder'
  BY <1>1, <1>2 DEF ConnectionsInOrder
<1>7. OneThread'
  <2>. SUFFICES ASSUME threads = 1 PROVE OneThread'
    BY <1>1 DEF OneThread
  <2>1. \A q \in Publishers : \A t : Leaked(q, t) => Leaked(q, t)' /\ q # p
    BY <1>1, <1>2 DEF Leaked
  <2>2. /\ \A q, r \in Publishers : step'[q] # "idle" /\ step'[r] # "idle" => q = r
        /\ \A q \in Publishers, v \in Viewers : step'[q] # "idle" => hold'[v] = None
    BY <1>1, <1>2 DEF OneThread
  <2>3. ASSUME NEW q \in Publishers, NEW r \in Publishers, q # r, rtmp_source_'[q] # None,
               rtmp_source_'[q] = rtmp_source_'[r]
        PROVE  Leaked(q, rtmp_source_[q])' \/ Leaked(r, rtmp_source_[r])'
    BY <1>2, <2>1, <2>3 DEF OneThread
  <2>4. ASSUME NEW t \in Sources, Live(t)', meta_data_'[t] # NoOne
        PROVE  rtmp_source_'[meta_data_'[t]] = t \/ \E q \in Publishers : Leaked(q, t)'
    <3>1. Live(t) /\ Held(t)' /\ meta_data_[t] \in Publishers
      BY <1>1, <2>4, DropKeeps DEF Live, TypeOK
    <3>2. CASE rtmp_source_[p] = t
      <4>1. \E q \in Publishers \ {p} : Leaked(q, t)
        BY <1>1, <1>2, <3>1, <3>2, KeptLemma, Constants
      <4>. QED BY <2>1, <4>1
    <3>3. CASE rtmp_source_[p] # t
      <4>1. rtmp_source_[meta_data_[t]] = t \/ \E q \in Publishers : Leaked(q, t)
        BY <1>1, <2>4, <3>1 DEF OneThread
      <4>2. rtmp_source_[meta_data_[t]] = t => rtmp_source_'[meta_data_'[t]] = t
        BY <1>1, <1>2, <3>1, <3>3
      <4>. QED BY <2>1, <4>1, <4>2
    <3>. QED BY <3>2, <3>3
  <2>. QED BY <2>2, <2>3, <2>4 DEF OneThread
<1>8. PushesIntoOwnSource'
  BY <1>1, <1>2 DEF PushesIntoOwnSource
<1>. QED BY <1>1, <1>3, <1>4, <1>5, <1>6, <1>7, <1>8, DropKeeps

\* A viewer that has been answered lets go of the source.
LEMMA StartedStep ==
    ASSUME Inv, NEW v \in Viewers, StreamStarted(v)
    PROVE  Inv'
<1>. USE DEF Inv, RegistryInv
<1>1. /\ hold[v] # None /\ reply' = [reply EXCEPT ![v] = "200"]
      /\ hold' = [hold EXCEPT ![v] = None]
      /\ DropUnheld(life)
      /\ UNCHANGED <<media_sources_, stream_id, source_info, owned_, is_registered_, dispatcher_,
                     meta_data_, conn, step, media_info_, rtmp_source_, src_ownership_, found,
                     threads, reg_key, unreg_key>>
  BY DEF StreamStarted, publishers, history
<1>2. SourcesInOrder'
  <2>1. Creators' \subseteq Creators
    BY <1>1 DEF Creators
  <2>. QED BY <1>1, <2>1, FewerCreators, DropKeeps
<1>3. TypeOK'
  <2>1. \A t \in Sources : Held(t)' => life[t] = "live"
    BY <1>1, Constants DEF Held, TypeOK, Live
  <2>2. /\ rtmp_source_' \in [Publishers -> {None} \cup Sources]
        /\ found' \in [Publishers -> {None} \cup Sources]
        /\ hold' \in [Viewers -> {None} \cup Sources]
    BY <1>1 DEF TypeOK
  <2>3. life \in [Sources -> Lives]
    BY DEF TypeOK, Lives
  <2>4. /\ \A q \in Publishers : rtmp_source_'[q] # None => Live(rtmp_source_[q])'
        /\ \A q \in Publishers : found'[q] # None => Live(found[q])'
        /\ \A w \in Viewers : hold'[w] # None => Live(hold[w])'
    BY <1>1, <2>1, <2>2, <2>3, HoldersLive
  <2>. QED BY <1>1, <2>2, <2>4, DropKeeps DEF TypeOK, Lives
<1>4. \A t \in Sources : Live(t)' => Live(t)
  BY <1>1, DropKeeps DEF Live
<1>5. ExclusiveOwnership' /\ ConnectionsInOrder' /\ PushesIntoOwnSource'
  BY <1>1, <1>4 DEF ExclusiveOwnership, ConnectionsInOrder, PushesIntoOwnSource
<1>6. OneThread'
  <2>1. \A q \in Publishers : \A t : Leaked(q, t)' <=> Leaked(q, t)
    BY <1>1 DEF Leaked
  <2>. QED BY <1>1, <1>4, <2>1 DEF OneThread, TypeOK
<1>. QED BY <1>1, <1>2, <1>3, <1>5, <1>6, DropKeeps

-----------------------------------------------------------------------------
(* Metadata, packets, the end of a connection and of a source              *)

\* on_process_metadata gives the connection's source its dispatcher.
LEMMA MetadataStep ==
    ASSUME Inv, NEW p \in Publishers, on_process_metadata(p)
    PROVE  Inv'
<1>. USE DEF Inv, RegistryInv
<1>1. CASE rtmp_source_[p] = None
  BY <1>1, ShutStep DEF on_process_metadata, CanHandle, sources
<1>2. ASSUME NEW s, s = rtmp_source_[p], s # None PROVE Inv'
  <2>1. /\ meta_data_' = [meta_data_ EXCEPT ![s] = p]
        /\ dispatcher_' = [dispatcher_ EXCEPT ![s] = TRUE]
        /\ UNCHANGED <<media_sources_, life, source_info, owned_, is_registered_, stream_id, conn,
                       step, media_info_, rtmp_source_, src_ownership_, found, hold, reply,
                       threads, reg_key, unreg_key>>
    BY <1>2 DEF on_process_metadata, viewers, history
  <2>2. s \in Sources /\ Live(s)
    BY <1>2 DEF TypeOK
  <2>3. /\ meta_data_'[s] = p /\ dispatcher_'[s]
        /\ \A t \in Sources \ {s} : meta_data_'[t] = meta_data_[t] /\ dispatcher_'[t] = dispatcher_[t]
    BY <2>1, <2>2 DEF TypeOK
  <2>4. TypeOK'
    BY <2>1, <2>2 DEF TypeOK, Live
  <2>5. ExclusiveOwnership' /\ ConnectionsInOrder' /\ PushesIntoOwnSource'
    BY <2>1 DEF ExclusiveOwnership, ConnectionsInOrder, PushesIntoOwnSource, Live
  <2>6. SourcesInOrder'
    <3>1. created' = created /\ Creators' = Creators /\ \A t \in Sources : KeyOf(t)' = KeyOf(t)
      BY <2>1 DEF created, Creators, KeyOf
    <3>. QED BY <2>1, <2>2, <2>3, <3>1 DEF SourcesInOrder, Live
  <2>7. ListedWithMetadata'
    BY <2>1, <2>3, Constants DEF ListedWithMetadata, TypeOK
  <2>8. OneThread'
    <3>1. \A q \in Publishers : \A t : Leaked(q, t)' <=> Leaked(q, t)
      BY <2>1 DEF Leaked
    <3>. QED BY <1>2, <2>1, <2>3, <3>1 DEF OneThread, Live
  <2>9. RegisteredStaysListed' /\ StaleEntryOnlyAfterRename'
    BY <2>1 DEF RegisteredStaysListed, StaleEntryOnlyAfterRename, Live
  <2>. QED BY <2>4, <2>5, <2>6, <2>7, <2>8, <2>9
<1>. QED BY <1>1, <1>2

\* regist() lists the connection's source under the key of its media_info,
\* which is free or names a source that is lost.
LEMMA RegistStep ==
    ASSUME Inv, NEW p \in Publishers, NEW s, s = rtmp_source_[p], s # None, dispatcher_[s],
           CanRegist(s),
           media_sources_' = [media_sources_ EXCEPT ![KeyOf(s)] = s],
           is_registered_' = [is_registered_ EXCEPT ![s] = TRUE],
           reg_key' = [reg_key EXCEPT ![s] = KeyOf(s)],
           UNCHANGED <<life, source_info, owned_, dispatcher_, meta_data_, stream_id, conn, step,
                       media_info_, rtmp_source_, src_ownership_, found, hold, reply, threads,
                       unreg_key>>
    PROVE  Inv'
<1>. USE DEF Inv, RegistryInv
<1>1. s \in Sources /\ Live(s) /\ life[s] = "live"
  BY DEF TypeOK, Live
<1>2. KeyOf(s) \in Keys
  BY <1>1 DEF SourcesInOrder
<1>3. ASSUME NEW k \in Keys, k = KeyOf(s) PROVE Inv'
  <2>1. /\ media_sources_'[k] = s /\ is_registered_'[s] /\ reg_key'[s] = k
        /\ \A j \in Keys \ {k} : media_sources_'[j] = media_sources_[j]
        /\ \A t \in Sources \ {s} : is_registered_'[t] = is_registered_[t] /\ reg_key'[t] = reg_key[t]
    BY <1>1, <1>3 DEF TypeOK
  <2>2. ~Live(media_sources_[k]) \/ media_sources_[k] = s
    BY <1>3 DEF CanRegist
  <2>3. \A t : Live(t)' <=> Live(t)
    BY DEF Live
  <2>4. TypeOK'
    BY <1>1, <1>3 DEF TypeOK, Live
  <2>5. ExclusiveOwnership' /\ ConnectionsInOrder' /\ PushesIntoOwnSource'
    BY <2>3 DEF ExclusiveOwnership, ConnectionsInOrder, PushesIntoOwnSource
  <2>6. SourcesInOrder'
    <3>1. created' = created /\ Creators' = Creators /\ \A t \in Sources : KeyOf(t)' = KeyOf(t)
      BY DEF created, Creators, KeyOf
    <3>. QED BY <1>1, <2>1, <3>1 DEF SourcesInOrder
  <2>7. ListedWithMetadata'
    BY <2>1 DEF ListedWithMetadata
  <2>8. OneThread'
    <3>1. \A q \in Publishers : \A t : Leaked(q, t)' <=> Leaked(q, t)
      BY DEF Leaked
    <3>. QED BY <2>3, <3>1 DEF OneThread
  <2>9. RegisteredStaysListed'
    <3>1. ASSUME NEW t \in Sources \ {s}, Live(t), is_registered_[t]
          PROVE  media_sources_'[reg_key'[t]] = t
      <4>1. media_sources_[reg_key[t]] = t /\ reg_key[t] \in Keys
        BY <3>1 DEF RegisteredStaysListed, ListedWithMetadata
      <4>2. reg_key[t] # k
        BY <2>2, <3>1, <4>1
      <4>. QED BY <2>1, <4>1, <4>2
    <3>. QED BY <2>1, <2>3, <3>1 DEF RegisteredStaysListed
  <2>10. StaleEntryOnlyAfterRename'
    BY <1>1, <2>1 DEF StaleEntryOnlyAfterRename
  <2>. QED BY <2>4, <2>5, <2>6, <2>7, <2>8, <2>9, <2>10
<1>. QED BY <1>2, <1>3

\* Nothing changes.
LEMMA StutterStep ==
    ASSUME Inv, UNCHANGED vars
    PROVE  Inv'
<1>. USE DEF Inv, RegistryInv, vars, sources, publishers, viewers, history
<1>1. TypeOK' /\ ConnectionsInOrder' /\ PushesIntoOwnSource'
  BY DEF TypeOK, ConnectionsInOrder, PushesIntoOwnSource, Live
<1>2. ExclusiveOwnership' /\ ListedWithMetadata' /\ OneThread'
  BY DEF ExclusiveOwnership, ListedWithMetadata, OneThread, Leaked, Live
<1>3. SourcesInOrder'
  BY DEF SourcesInOrder, created, Creators, KeyOf
<1>4. RegisteredStaysListed' /\ StaleEntryOnlyAfterRename'
  BY DEF RegisteredStaysListed, StaleEntryOnlyAfterRename, Live
<1>. QED BY <1>1, <1>2, <1>3, <1>4

\* An audio or video message: pushed, pushed and registered, or refused.
LEMMA PacketStep ==
    ASSUME Inv, NEW p \in Publishers, NEW is_config \in BOOLEAN, process_av_packet(p, is_config)
    PROVE  Inv'
<1>. DEFINE s == rtmp_source_[p]
            regists == PushAllowed(p) /\ ~is_registered_[s] /\ ~is_config
<1>1. CASE ~(PushAllowed(p) /\ (regists => CanRegist(s)))
  <2>1. Shut(p) /\ UNCHANGED <<media_sources_, is_registered_, reg_key>>
    BY <1>1 DEF process_av_packet
  <2>. QED BY <2>1, ShutStep DEF process_av_packet, CanHandle, sources, viewers, history
<1>2. CASE PushAllowed(p) /\ regists /\ CanRegist(s) /\ media_sources_[KeyOf(s)] # s
  <2>1. /\ media_sources_' = [media_sources_ EXCEPT ![KeyOf(s)] = s]
        /\ is_registered_' = [is_registered_ EXCEPT ![s] = TRUE]
        /\ reg_key' = [reg_key EXCEPT ![s] = KeyOf(s)]
        /\ UNCHANGED <<life, source_info, owned_, dispatcher_, meta_data_, stream_id, conn, step,
                       media_info_, rtmp_source_, src_ownership_, found, hold, reply, threads,
                       unreg_key>>
    BY <1>2 DEF process_av_packet, viewers
  <2>2. s # None /\ dispatcher_[s]
    BY <1>2 DEF PushAllowed
  <2>. QED BY <1>2, <2>1, <2>2, RegistStep
<1>3. CASE /\ PushAllowed(p) /\ (regists => CanRegist(s))
           /\ ~(regists /\ CanRegist(s) /\ media_sources_[KeyOf(s)] # s)
  <2>1. UNCHANGED vars
    BY <1>3 DEF process_av_packet, vars, sources, publishers, history
  <2>. QED BY <2>1, StutterStep
<1>. QED BY <1>1, <1>2, <1>3

\* ~rtmp_protocol gives its token back first.
LEMMA CloseStep ==
    ASSUME Inv, NEW p \in Publishers, Close(p)
    PROVE  Inv'
<1>. USE DEF Inv, RegistryInv
<1>1. /\ conn[p] = "open" /\ step[p] = "idle" /\ ThreadFree
      /\ conn' = [conn EXCEPT ![p] = "gone"]
      /\ owned_' = Cleared(src_ownership_[p])
      /\ src_ownership_' = [src_ownership_ EXCEPT ![p] = None]
      /\ step' = [step EXCEPT ![p] = "releasing"]
      /\ UNCHANGED <<media_sources_, life, source_info, is_registered_, dispatcher_, meta_data_,
                     stream_id, media_info_, rtmp_source_, found, hold, reply, threads, reg_key,
                     unreg_key>>
  BY DEF Close, CanHandle, viewers, history
<1>2. \A t : Live(t)' <=> Live(t)
  BY <1>1 DEF Live
<1>3. TypeOK'
  <2>1. owned_' \in [Sources -> BOOLEAN]
    BY <1>1 DEF Cleared, TypeOK
  <2>. QED BY <1>1, <2>1 DEF TypeOK, Live
<1>4. ExclusiveOwnership'
  <2>1. \A q \in Publishers : src_ownership_'[q] = IF q = p THEN None ELSE src_ownership_[q]
    BY <1>1 DEF TypeOK
  <2>2. \A t \in Sources : owned_'[t] <=> owned_[t] /\ ~(t = src_ownership_[p] /\ Live(t))
    BY <1>1, ClearedLemma
  <2>. QED BY <1>2, <2>1, <2>2, Constants DEF ExclusiveOwnership
<1>5. ConnectionsInOrder' /\ PushesIntoOwnSource'
  BY <1>1 DEF ConnectionsInOrder, PushesIntoOwnSource, TypeOK
<1>6. SourcesInOrder'
  <2>1. Creators' = Creators
    BY <1>1 DEF Creators, TypeOK
  <2>2. created' = created /\ \A t \in Sources : KeyOf(t)' = KeyOf(t)
    BY <1>1 DEF created, KeyOf
  <2>. QED BY <1>1, <2>1, <2>2 DEF SourcesInOrder
<1>7. OneThread'
  <2>1. threads = 1 => /\ \A q \in Publishers : step[q] = "idle"
                       /\ \A v \in Viewers : hold[v] = None
    BY <1>1, ThreadLemma
  <2>2. \A q \in Publishers : \A t : Leaked(q, t) => Leaked(q, t)'
    BY <1>1 DEF Leaked, TypeOK
  <2>. QED BY <1>1, <1>2, <2>1, <2>2 DEF OneThread, TypeOK
<1>8. ListedWithMetadata' /\ RegisteredStaysListed' /\ StaleEntryOnlyAfterRename'
  BY <1>1, <1>2 DEF ListedWithMetadata, RegisteredStaysListed, StaleEntryOnlyAfterRename
<1>. QED BY <1>3, <1>4, <1>5, <1>6, <1>7, <1>8

\* A viewer's request finds a live source, a lost one, or none.
LEMMA RequestStep ==
    ASSUME Inv, NEW v \in Viewers, NEW k \in Keys, start_flv_muxing(v, k)
    PROVE  Inv'
<1>. USE DEF Inv, RegistryInv
<1>1. /\ ThreadFree
      /\ reply' \in [Viewers -> {"none", "200", "404", "500"}]
      /\ hold' = hold \/ (Live(media_sources_[k]) /\ hold' = [hold EXCEPT ![v] = media_sources_[k]])
      /\ UNCHANGED <<media_sources_, life, source_info, owned_, is_registered_, dispatcher_,
                     meta_data_, stream_id, conn, step, media_info_, rtmp_source_, src_ownership_,
                     found, threads, reg_key, unreg_key>>
  BY DEF start_flv_muxing, TypeOK, sources, publishers, history
<1>2. TypeOK'
  BY <1>1 DEF TypeOK, Live
<1>3. ExclusiveOwnership' /\ ConnectionsInOrder' /\ PushesIntoOwnSource'
  BY <1>1 DEF ExclusiveOwnership, ConnectionsInOrder, PushesIntoOwnSource, Live
<1>4. SourcesInOrder'
  BY <1>1 DEF SourcesInOrder, created, Creators, KeyOf
<1>5. OneThread'
  <2>1. threads = 1 => \A q \in Publishers : step[q] = "idle"
    BY <1>1, ThreadLemma
  <2>2. \A q \in Publishers : \A t : Leaked(q, t)' <=> Leaked(q, t)
    BY <1>1 DEF Leaked
  <2>. QED BY <1>1, <2>1, <2>2 DEF OneThread, Live
<1>6. ListedWithMetadata' /\ RegisteredStaysListed' /\ StaleEntryOnlyAfterRename'
  BY <1>1 DEF ListedWithMetadata, RegisteredStaysListed, StaleEntryOnlyAfterRename, Live
<1>. QED BY <1>2, <1>3, <1>4, <1>5, <1>6

\* ~media_source takes its entry out of the registry, and no live source's.
LEMMA UnregistStep ==
    ASSUME Inv, NEW s \in Sources, unregist(s)
    PROVE  Inv'
<1>. USE DEF Inv, RegistryInv
<1>1. /\ life[s] = "dying" /\ life' = [life EXCEPT ![s] = "dead"]
      /\ media_sources_' = Erased(s)
      /\ is_registered_' = [is_registered_ EXCEPT ![s] = FALSE]
      /\ unreg_key' = [unreg_key EXCEPT ![s] = KeyOf(s)]
      /\ UNCHANGED <<source_info, owned_, dispatcher_, meta_data_, stream_id, conn, step,
                     media_info_, rtmp_source_, src_ownership_, found, hold, reply, threads, reg_key>>
  BY DEF unregist, publishers, viewers
<1>2. KeyOf(s) \in Keys
  BY <1>1 DEF SourcesInOrder
<1>3. ASSUME NEW k \in Keys, k = KeyOf(s) PROVE Inv'
  <2>1. /\ \A j \in Keys \ {k} : media_sources_'[j] = media_sources_[j]
        /\ media_sources_'[k] = IF media_sources_[k] = s \/ ~Live(media_sources_[k])
                                THEN None ELSE media_sources_[k]
        /\ media_sources_' \in [Keys -> {None} \cup Sources]
    BY <1>1, <1>3 DEF Erased, TypeOK
  <2>2. /\ life'[s] = "dead" /\ ~is_registered_'[s] /\ unreg_key'[s] = k
        /\ \A t \in Sources \ {s} : /\ life'[t] = life[t] /\ is_registered_'[t] = is_registered_[t]
                                    /\ unreg_key'[t] = unreg_key[t]
    BY <1>1, <1>3 DEF TypeOK
  <2>3. \A t \in Sources : Live(t)' <=> Live(t)
    BY <1>1, <2>2 DEF Live
  <2>4. TypeOK'
    <3>1. life' \in [Sources -> {"none", "live", "dying", "dead"}]
      BY <1>1 DEF TypeOK
    <3>2. /\ \A q \in Publishers : rtmp_source_'[q] # None => Live(rtmp_source_[q])'
          /\ \A q \in Publishers : found'[q] # None => Live(found[q])'
          /\ \A v \in Viewers : hold'[v] # None => Live(hold[v])'
      BY <1>1, <2>2 DEF TypeOK, Live
    <3>. QED BY <1>1, <1>3, <2>1, <3>1, <3>2 DEF TypeOK
  <2>5. ExclusiveOwnership' /\ ConnectionsInOrder' /\ PushesIntoOwnSource'
    BY <1>1, <2>3 DEF ExclusiveOwnership, ConnectionsInOrder, PushesIntoOwnSource
  <2>6. SourcesInOrder'
    <3>1. \A t \in Sources : life'[t] = "none" <=> life[t] = "none"
      BY <1>1, <2>2
    <3>2. created' = created
      BY <3>1, SameCreated
    <3>3. Creators' = Creators /\ \A t \in Sources : KeyOf(t)' = KeyOf(t)
      BY <1>1 DEF Creators, KeyOf
    <3>. QED BY <1>1, <2>2, <3>1, <3>2, <3>3 DEF SourcesInOrder
  <2>7. ListedWithMetadata'
    BY <1>1, <2>1, <2>2 DEF ListedWithMetadata
  <2>8. OneThread'
    <3>1. \A q \in Publishers : \A t : Leaked(q, t)' <=> Leaked(q, t)
      BY <1>1 DEF Leaked
    <3>. QED BY <1>1, <2>3, <3>1 DEF OneThread
  <2>9. RegisteredStaysListed'
    <3>1. ASSUME NEW t \in Sources, Live(t), is_registered_'[t]
          PROVE  media_sources_'[reg_key'[t]] = t
      <4>1. t # s /\ is_registered_[t]
        BY <2>2, <3>1
      <4>2. media_sources_[reg_key[t]] = t /\ reg_key[t] \in Keys
        BY <3>1, <4>1 DEF RegisteredStaysListed, ListedWithMetadata
      <4>. QED BY <1>1, <2>1, <3>1, <4>1, <4>2
    <3>. QED BY <2>3, <3>1 DEF RegisteredStaysListed
  <2>10. StaleEntryOnlyAfterRename'
    BY <2>1, <2>2, Constants DEF StaleEntryOnlyAfterRename, TypeOK
  <2>. QED BY <2>4, <2>5, <2>6, <2>7, <2>8, <2>9, <2>10
<1>. QED BY <1>2, <1>3

-----------------------------------------------------------------------------
(* The theorems                                                            *)

\* The server starts with an empty registry.
LEMMA InitStep == Init => Inv
<1>. SUFFICES ASSUME Init PROVE Inv
  OBVIOUS
<1>1. TypeOK
  <2>1. source_info \in [Sources -> Infos \cup {<<NoOne, 0>>}]
    BY DEF Init
  <2>2. media_info_ \in [Publishers -> 0..MaxConnects] /\ threads \in 1..IoThreads
    BY Constants DEF Init, None
  <2>. QED BY <2>1, <2>2 DEF Init, TypeOK
<1>2. ExclusiveOwnership /\ ConnectionsInOrder /\ PushesIntoOwnSource
  BY Constants DEF Init, ExclusiveOwnership, ConnectionsInOrder, PushesIntoOwnSource, Live
<1>3. SourcesInOrder
  <2>1. {s \in Sources : life[s] # "none"} = {} /\ Creators = {}
    BY DEF Init, Creators
  <2>2. created = 0 /\ Cardinality(Creators) = 0
    BY <2>1, FS_EmptySet DEF created
  <2>3. \A s \in Sources : life[s] # "none" <=> s <= 0
    BY DEF Init, Sources
  <2>. QED BY <2>2, <2>3, Constants DEF Init, SourcesInOrder
<1>4. ListedWithMetadata /\ OneThread
  BY DEF Init, ListedWithMetadata, OneThread, Live
<1>5. RegisteredStaysListed /\ StaleEntryOnlyAfterRename
  BY DEF Init, RegisteredStaysListed, StaleEntryOnlyAfterRename
<1>. QED BY <1>1, <1>2, <1>3, <1>4, <1>5 DEF Inv, RegistryInv

\* Every step of a publisher, of a viewer and of unregist() preserves the invariant.
LEMMA InvStep ==
    ASSUME Inv, [Next]_vars
    PROVE  Inv'
<1>1. ASSUME NEW p \in Publishers, Publisher(p) PROVE Inv'
  <2>1. CASE Malformed(p)
    BY <2>1, ShutStep DEF Malformed, CanHandle
  <2>2. CASE TakeFound(p)
    BY <2>2, RefusedStep, GrantedStep
  <2>. QED
    BY <1>1, <2>1, <2>2, ConnectStep, PublishStep, TakeNewStep, MetadataStep, PacketStep, CloseStep,
       ReleaseStep DEF Publisher
<1>2. ASSUME NEW v \in Viewers, Viewer(v) PROVE Inv'
  BY <1>2, RequestStep, StartedStep DEF Viewer
<1>. QED BY <1>1, <1>2, UnregistStep, StutterStep DEF Next

\* The token of a source is exclusive, and owned_ is set exactly while some
\* connection has it; holders hold live sources; with one io thread a source
\* is shared only with a connection that leaked it.
THEOREM RegistrySafe == Spec => []RegistryInv
<1>1. Inv /\ [Next]_vars => Inv'
  BY InvStep
<1>2. Inv => RegistryInv
  BY DEF Inv
<1>. QED BY InitStep, <1>1, <1>2, PTL DEF Spec

\* No regist() and no late unregist() displaces a stream that is on the air,
\* however many threads run the io_context.
THEOREM StreamStaysListed == Spec => []RegisteredStaysListed
<1>1. Inv /\ [Next]_vars => Inv'
  BY InvStep
<1>2. Inv => RegisteredStaysListed
  BY DEF Inv
<1>. QED BY InitStep, <1>1, <1>2, PTL DEF Spec

\* Whatever find() returns, start_muxing finds a dispatcher and metadata.
THEOREM FoundIsServable == Spec => []ListedIsServable
<1>1. Inv /\ [Next]_vars => Inv'
  BY InvStep
<1>2. Inv => ListedIsServable
  BY Constants DEF Inv, RegistryInv, ListedWithMetadata, ListedIsServable, Live, TypeOK
<1>. QED BY InitStep, <1>1, <1>2, PTL DEF Spec

\* unregist() leaves an entry of its source behind only under a key that the
\* media_info no longer holds.
THEOREM NoStaleEntry == Spec => []StaleEntryOnlyAfterRename
<1>1. Inv /\ [Next]_vars => Inv'
  BY InvStep
<1>2. Inv => StaleEntryOnlyAfterRename
  BY DEF Inv
<1>. QED BY InitStep, <1>1, <1>2, PTL DEF Spec

\* Between messages the token of an open connection is that of the source it
\* pushes into, although handle_chunk only tests that there is one.
THEOREM PushesOwnSource == Spec => []PushesIntoOwnSource
<1>1. Inv /\ [Next]_vars => Inv'
  BY InvStep
<1>2. Inv => PushesIntoOwnSource
  BY DEF Inv
<1>. QED BY InitStep, <1>1, <1>2, PTL DEF Spec

\* With one io thread, the metadata map that start_muxing reads belongs to a
\* connection that still exists, unless a leaked connection keeps the source.
THEOREM MetadataNotDangling == Spec => []MetadataAlive
<1>1. Inv /\ [Next]_vars => Inv'
  BY InvStep
<1>2. Inv => MetadataAlive
  <2>. SUFFICES ASSUME Inv, threads = 1, NEW s \in Sources, Live(s), is_registered_[s]
                PROVE  \/ conn[meta_data_[s]] # "gone" \/ step[meta_data_[s]] = "releasing"
                       \/ \E p \in Publishers : Leaked(p, s)
    BY DEF MetadataAlive
  <2>. USE DEF Inv, RegistryInv
  <2>1. meta_data_[s] # NoOne /\ meta_data_[s] \in Publishers
    BY DEF ListedWithMetadata, TypeOK
  <2>2. rtmp_source_[meta_data_[s]] = s \/ \E p \in Publishers : Leaked(p, s)
    BY <2>1 DEF OneThread
  <2>3. ASSUME NEW p \in Publishers, rtmp_source_[p] = s
        PROVE  conn[p] # "gone" \/ step[p] = "releasing"
    <3>1. step[p] \in {"idle", "taking", "releasing"} /\ s # None
      BY Constants DEF TypeOK
    <3>. QED BY <2>3, <3>1 DEF ConnectionsInOrder
  <2>. QED BY <2>1, <2>2, <2>3
<1>. QED BY InitStep, <1>1, <1>2, PTL DEF Spec
=============================================================================
