--------------------------- MODULE DownloadProofs ---------------------------
(***************************************************************************)
(* Proofs about the download scheduler of module Download, for every set   *)
(* of peers, files, chunks and keys and every bound.                       *)
(***************************************************************************)
EXTENDS Download, FiniteSetTheorems, SequenceTheorems, WellFoundedInduction,
        TLAPS

-----------------------------------------------------------------------------
(* Finite sets of numbers.                                                  *)

\* A finite nonempty set of numbers has a smallest member, which Min returns.
LEMMA MinOfFinite ==
  ASSUME NEW S, S \subseteq Int, IsFiniteSet(S), S # {}
  PROVE  Min(S) \in S /\ \A y \in S : Min(S) <= y
<1> DEFINE Below(x) == {y \in S : y < x}
           T == {Below(x) : x \in S}
<1>1. IsWellFoundedOn(StrictSubsetOrdering(S), FiniteSubsetsOf(S))
  BY FS_StrictSubsetOrderingWellFounded
<1>2. T \subseteq FiniteSubsetsOf(S) /\ T # {}
  <2>1. FiniteSubsetsOf(S) = SUBSET S
    BY FS_FiniteSubsetsOfFinite
  <2>2. ASSUME NEW C \in T
        PROVE  C \in SUBSET S
    <3>1. PICK z \in S : C = Below(z)
      OBVIOUS
    <3> QED
      BY <3>1
  <2>3. PICK z \in S : TRUE
    OBVIOUS
  <2>4. Below(z) \in T
    OBVIOUS
  <2> QED
    BY <2>1, <2>2, <2>4
<1>3. PICK B \in T : \A C \in T : <<C, B>> \notin StrictSubsetOrdering(S)
  BY <1>1, <1>2, WFMin
<1>4. PICK x \in S : B = Below(x)
  BY <1>3
<1>5. ASSUME NEW y \in S, y < x
      PROVE  FALSE
  <2>1. Below(y) \subseteq B /\ y \in B /\ y \notin Below(y)
    <3>1. y \in B /\ ~ y < y
      BY <1>4, <1>5
    <3>2. ASSUME NEW z \in Below(y)
          PROVE  z \in B
      <4>1. z \in S /\ z < y /\ z \in Int /\ y \in Int /\ x \in Int
        OBVIOUS
      <4>2. z < x
        BY <4>1, <1>5
      <4> QED
        BY <4>1, <4>2, <1>4
    <3> QED
      BY <3>1, <3>2
  <2>2. Below(y) \in SUBSET S /\ B \in SUBSET S /\ Below(y) # B
    BY <1>4, <2>1
  <2>3. <<Below(y), B>> \in StrictSubsetOrdering(S)
    BY <2>1, <2>2 DEF StrictSubsetOrdering
  <2> QED
    BY <1>3, <2>3
<1>6. \A y \in S : x <= y
  BY <1>5
<1> QED
  BY <1>6 DEF Min

\* Likewise the largest, and Max.
LEMMA MaxOfFinite ==
  ASSUME NEW S, S \subseteq Int, IsFiniteSet(S), S # {}
  PROVE  Max(S) \in S /\ \A y \in S : Max(S) >= y
<1> DEFINE Above(x) == {y \in S : y > x}
           T == {Above(x) : x \in S}
<1>1. IsWellFoundedOn(StrictSubsetOrdering(S), FiniteSubsetsOf(S))
  BY FS_StrictSubsetOrderingWellFounded
<1>2. T \subseteq FiniteSubsetsOf(S) /\ T # {}
  <2>1. FiniteSubsetsOf(S) = SUBSET S
    BY FS_FiniteSubsetsOfFinite
  <2>2. ASSUME NEW C \in T
        PROVE  C \in SUBSET S
    <3>1. PICK z \in S : C = Above(z)
      OBVIOUS
    <3> QED
      BY <3>1
  <2>3. PICK z \in S : TRUE
    OBVIOUS
  <2>4. Above(z) \in T
    OBVIOUS
  <2> QED
    BY <2>1, <2>2, <2>4
<1>3. PICK A \in T : \A C \in T : <<C, A>> \notin StrictSubsetOrdering(S)
  BY <1>1, <1>2, WFMin
<1>4. PICK x \in S : A = Above(x)
  BY <1>3
<1>5. ASSUME NEW y \in S, y > x
      PROVE  FALSE
  <2>1. Above(y) \subseteq A /\ y \in A /\ y \notin Above(y)
    <3>1. y \in A /\ ~ y > y
      BY <1>4, <1>5
    <3>2. ASSUME NEW z \in Above(y)
          PROVE  z \in A
      <4>1. z \in S /\ z > y /\ z \in Int /\ y \in Int /\ x \in Int
        OBVIOUS
      <4>2. z > x
        BY <4>1, <1>5
      <4> QED
        BY <4>1, <4>2, <1>4
    <3> QED
      BY <3>1, <3>2
  <2>2. Above(y) \in SUBSET S /\ A \in SUBSET S /\ Above(y) # A
    BY <1>4, <2>1
  <2>3. <<Above(y), A>> \in StrictSubsetOrdering(S)
    BY <2>1, <2>2 DEF StrictSubsetOrdering
  <2> QED
    BY <1>3, <2>3
<1>6. \A y \in S : x >= y
  BY <1>5
<1> QED
  BY <1>6 DEF Max

\* A file has at least one chunk by count.
LEMMA TotalType ==
  ASSUME NEW hashes \in Seq(Data)
  PROVE  /\ Total(hashes) \in Nat \ {0}
         /\ DOMAIN hashes \subseteq 1 .. Total(hashes)
         /\ hashes # <<>> => Total(hashes) = Len(hashes)
BY EmptySeq, LenProperties DEF Total

\* Chunks of a file that are as many as its total are all of its chunks.
LEMMA AllChunks ==
  ASSUME NEW n \in Nat, NEW S, S \subseteq 1 .. n, Cardinality(S) >= n
  PROVE  S = 1 .. n
<1>1. IsFiniteSet(1 .. n) /\ Cardinality(1 .. n) = n
  BY FS_Interval
<1>2. /\ Cardinality(S) <= n
      /\ Cardinality(S) \in Nat
      /\ Cardinality(S) = n => S = 1 .. n
  <2>1. S \in SUBSET (1 .. n)
    OBVIOUS
  <2>2. /\ IsFiniteSet(S)
        /\ Cardinality(S) <= Cardinality(1 .. n)
        /\ Cardinality(1 .. n) = Cardinality(S) => 1 .. n = S
    BY <1>1, <2>1, FS_Subset
  <2>3. Cardinality(S) \in Nat
    BY <2>2, FS_CardinalityType
  <2> QED
    BY <1>1, <2>2, <2>3
<1> QED
  BY <1>2

-----------------------------------------------------------------------------
(* Channels.                                                                *)

\* Sending messages leaves a channel, holding what it held and the messages.
LEMMA SentChannel ==
  ASSUME NEW b, IsChannel(b), NEW S, \A m \in S : IsMessage(m)
  PROVE  /\ IsChannel(b (+) SetToBag(S))
         /\ BagToSet(b (+) SetToBag(S)) = BagToSet(b) \cup S
<1>1. /\ IsABag(b (+) SetToBag(S))
      /\ BagToSet(b (+) SetToBag(S)) = BagToSet(b) \cup S
  BY DEF IsChannel, IsABag, BagToSet, SetToBag, (+)
<1> QED
  BY <1>1 DEF IsChannel

\* Taking one out leaves a channel, holding nothing it did not hold.
LEMMA TakenChannel ==
  ASSUME NEW b, IsChannel(b), NEW m
  PROVE  /\ IsChannel(b (-) SetToBag({m}))
         /\ BagToSet(b (-) SetToBag({m})) \subseteq BagToSet(b)
<1>1. /\ IsABag(b (-) SetToBag({m}))
      /\ BagToSet(b (-) SetToBag({m})) \subseteq BagToSet(b)
  BY DEF IsChannel, IsABag, BagToSet, SetToBag, (-)
<1> QED
  BY <1>1 DEF IsChannel

LEMMA EmptyChannel == IsChannel(EmptyBag) /\ BagToSet(EmptyBag) = {}
BY DEF IsChannel, IsABag, EmptyBag, SetToBag, BagToSet

\* The part of TypeOK about the network.
NetOK == net = [p \in Peer |-> net[p]] /\ \A p \in Peer : IsChannel(net[p])

\* What a step that sends, or takes and sends, does to the network.
LEMMA SentNet ==
  ASSUME NetOK, NEW p \in Peer, NEW S, \A m \in S : IsMessage(m),
         net' = Sent(p, S)
  PROVE  /\ NetOK'
         /\ \A q \in Peer : InFlight(q)' = InFlight(q) \cup (IF q = p THEN S ELSE {})
<1>1. net' = [q \in Peer |-> IF q = p THEN net[p] (+) SetToBag(S) ELSE net[q]]
  BY DEF NetOK, Sent
<1>2. /\ IsChannel(net[p] (+) SetToBag(S))
      /\ BagToSet(net[p] (+) SetToBag(S)) = BagToSet(net[p]) \cup S
  BY SentChannel DEF NetOK
<1> QED
  BY <1>1, <1>2 DEF NetOK, InFlight

LEMMA HandledNet ==
  ASSUME NetOK, NEW p \in Peer, NEW x, NEW S, \A m \in S : IsMessage(m),
         net' = Handled(p, x, S)
  PROVE  /\ NetOK'
         /\ \A q \in Peer :
               InFlight(q)' \subseteq InFlight(q) \cup (IF q = p THEN S ELSE {})
<1> DEFINE b == net[p] (-) SetToBag({x})
<1>1. net' = [q \in Peer |-> IF q = p THEN b (+) SetToBag(S) ELSE net[q]]
  BY DEF NetOK, Handled
<1>2. IsChannel(b) /\ BagToSet(b) \subseteq BagToSet(net[p])
  BY TakenChannel DEF NetOK
<1>3. /\ IsChannel(b (+) SetToBag(S))
      /\ BagToSet(b (+) SetToBag(S)) = BagToSet(b) \cup S
  <2> HIDE DEF b
  <2> QED BY <1>2, SentChannel
<1> QED
  BY <1>1, <1>2, <1>3 DEF NetOK, InFlight

-----------------------------------------------------------------------------
(* Transfers.                                                               *)

\* Adding or replacing a transfer, and removing one.
LEMMA PutTransfer ==
  ASSUME NEW a, IsTransferMap(a), NEW f \in File, NEW t, IsTransfer(t)
  PROVE  IsTransferMap(Put(f, t, a))
BY DEF IsTransferMap, Put

LEMMA ReplaceTransfer ==
  ASSUME NEW a, IsTransferMap(a), NEW f \in DOMAIN a, NEW t, IsTransfer(t)
  PROVE  /\ IsTransferMap([a EXCEPT ![f] = t])
         /\ DOMAIN [a EXCEPT ![f] = t] = DOMAIN a
BY DEF IsTransferMap

LEMMA DropTransfer ==
  ASSUME NEW a, IsTransferMap(a), NEW f
  PROVE  IsTransferMap(Drop(f, a))
BY DEF IsTransferMap, Drop

LEMMA NoTransfers == IsTransferMap(<<>>) /\ DOMAIN <<>> = {}
BY DEF IsTransferMap

\* A transfer keeps its type when a chunk of its file is stored in it.
LEMMA StoredType ==
  ASSUME TypeOK, NEW p \in Peer, NEW m, Accepted(p, m)
  PROVE  /\ m.file \in File
         /\ IsTransfer(active[p][m.file])
         /\ IsTransfer(Stored(p, m))
         /\ \A r \in Following(p, m) : IsMessage(r)
<1> DEFINE t == active[p][m.file]
<1>1. /\ m.file \in DOMAIN active[p] /\ m.type = "ChunkResponse"
      /\ IsMessage(m) /\ m.idx \in DOMAIN t.hashes
  BY DEF Accepted, Arrived, Verified, TypeOK, IsChannel, InFlight
<1>2. m.file \in File /\ IsTransfer(t)
  BY <1>1 DEF TypeOK, IsTransferMap
<1>3. m.key \in Key \cup {None} /\ m.data \in Data
  BY <1>1 DEF IsMessage, Manifest, ManifestRequest
<1>4. /\ Total(t.hashes) \in Nat \ {0}
      /\ m.idx \in 1 .. Total(t.hashes)
  BY <1>1, <1>2, TotalType DEF IsTransfer
<1> HIDE DEF t
<1>5. Stored(p, m) = [hashes |-> t.hashes, hkey |-> t.hkey,
                      next |-> IF t.next <= Total(t.hashes) THEN t.next + 1
                               ELSE t.next,
                      got |-> Put(m.idx, m.data, t.got), raced |-> t.raced]
  BY DEF Stored, Advance, t
<1>6. /\ DOMAIN Put(m.idx, m.data, t.got) \subseteq 1 .. Total(t.hashes)
      /\ Put(m.idx, m.data, t.got)
            \in [DOMAIN Put(m.idx, m.data, t.got) -> Data]
  BY <1>2, <1>3, <1>4 DEF IsTransfer, Put
<1>7. IsTransfer(Stored(p, m))
  BY <1>2, <1>4, <1>5, <1>6 DEF IsTransfer
<1>8. \A r \in Following(p, m) : IsMessage(r)
  BY <1>2, <1>3 DEF Following, IsTransfer, IsMessage, ChunkRequest, t
<1> QED
  BY <1>2, <1>7, <1>8 DEF t

\* A complete transfer is assembled from all of its chunks.
LEMMA AssembledType ==
  ASSUME NEW t, IsTransfer(t), Complete(t)
  PROVE  /\ DOMAIN t.got = 1 .. Total(t.hashes)
         /\ Assembled(t) \in Seq(Data)
         /\ Len(Assembled(t)) = Total(t.hashes)
<1>1. Total(t.hashes) \in Nat
  BY TotalType DEF IsTransfer
<1>2. DOMAIN t.got = 1 .. Total(t.hashes)
  BY <1>1, AllChunks DEF IsTransfer, Complete
<1>3. Assembled(t) \in [1 .. Total(t.hashes) -> Data]
  BY <1>2 DEF Assembled, IsTransfer
<1> QED
  BY <1>1, <1>2, <1>3, LenProperties

\* What the loop makes of the first file waiting.
LEMMA HeadOfQueue ==
  ASSUME TypeOK, NEW p \in Peer, queue[p] # <<>>
  PROVE  /\ Head(queue[p]) \in PendingType
         /\ Tail(queue[p]) \in Seq(PendingType)
<1>1. queue[p] \in Seq(PendingType)
  BY DEF TypeOK
<1> QED
  BY <1>1, HeadTailProperties

\* A lookup stays what it is, or there is none.
LEMMA LookupStays ==
  /\ LookupOK
  /\ \/ draft' = None
     \/ loop = None /\ draft' = draft
     \/ UNCHANGED <<active, queue, loop, draft>>
  => LookupOK'
BY DEF LookupOK, MayStart

\* The lookup of p's loop.
LEMMA LookupOf ==
  ASSUME TypeOK, NEW p \in Peer, MayStart(p), draft # None
  PROVE  IsLookup(draft, Head(queue[p]).hashes)
BY DEF TypeOK, LookupOK, MayStart

\* It is still the lookup of p's loop after a step that only goes on with it.
LEMMA LookupGoes ==
  ASSUME NEW p \in Peer, MayStart(p), UNCHANGED <<active, queue, loop>>,
         IsLookup(draft', Head(queue[p]).hashes)
  PROVE  LookupOK'
BY NamesAssumption DEF LookupOK, MayStart

\* A lookup begins with nothing found.
LEMMA FreshLookup ==
  ASSUME NEW pf \in PendingType
  PROVE  IsLookup(Fresh(pf), pf.hashes) /\ DOMAIN Fresh(pf).index = {}
         /\ DOMAIN Fresh(pf).got = {} /\ Fresh(pf).raced = FALSE
<1> DEFINE d == Fresh(pf)
<1>1. /\ d = [walked |-> d.walked, index |-> d.index, got |-> d.got, raced |-> d.raced]
      /\ d.walked \subseteq File /\ d.index = <<>> /\ d.got = <<>> /\ d.raced = FALSE
  BY DEF Fresh
<1>2. /\ DOMAIN <<>> = {}
      /\ \A S : <<>> \in [{} -> S]
  OBVIOUS
<1> HIDE DEF d
<1>3. /\ DOMAIN d.index = {} /\ DOMAIN d.got = {}
      /\ d.index \in [DOMAIN d.index -> [file : File, idx : Nat \ {0}]]
      /\ d.got \in [DOMAIN d.got -> Data]
  BY <1>1, <1>2
<1>4. IsLookup(d, pf.hashes)
  BY <1>1, <1>3 DEF IsLookup
<1> QED
  BY <1>1, <1>3, <1>4 DEF d

\* Where a chunk is found, it is.
LEMMA PlaceOf ==
  ASSUME NEW c \in Seq(Data), NEW d \in Range(c)
  PROVE  /\ FirstPlace(c, d) \in DOMAIN c /\ FirstPlace(c, d) \in Nat \ {0}
         /\ c[FirstPlace(c, d)] = d
<1> DEFINE S == {j \in DOMAIN c : c[j] = d}
<1>1. S # {} /\ S \subseteq 1 .. Len(c) /\ Len(c) \in Nat
  BY LenProperties DEF Range
<1> HIDE DEF S
<1>2. S \subseteq Int /\ IsFiniteSet(S)
  <2>1. IsFiniteSet(1 .. Len(c))
    BY <1>1, FS_Interval
  <2>2. S \in SUBSET (1 .. Len(c))
    BY <1>1
  <2>3. IsFiniteSet(S)
    BY <2>1, <2>2, FS_Subset
  <2> QED
    BY <1>1, <2>3
<1>3. Min(S) \in S
  BY <1>1, <1>2, MinOfFinite
<1>4. FirstPlace(c, d) = Min(S)
  BY DEF FirstPlace, S
<1>5. Min(S) \in DOMAIN c /\ c[Min(S)] = d /\ Min(S) \in Nat \ {0}
  BY <1>1, <1>3 DEF S
<1> QED
  BY <1>4, <1>5

\* The index after file g was hashed.
LEMMA IndexedType ==
  ASSUME TypeOK, NEW p \in Peer, NEW g \in File, IndexFile(p, g)
  PROVE  LET pf == Head(queue[p]) IN
         /\ draft'.index = [i \in DOMAIN draft.index \cup Found(pf, g) |->
                              IF i \in DOMAIN draft.index THEN draft.index[i]
                              ELSE [file |-> g,
                                    idx |-> FirstPlace(disk[g], pf.hashes[i])]]
         /\ draft'.got = draft.got /\ draft'.raced = draft.raced
         /\ IsLookup(draft', pf.hashes)
<1> DEFINE pf  == Head(queue[p])
           new == [i \in DOMAIN draft.index \cup Found(pf, g) |->
                     IF i \in DOMAIN draft.index THEN draft.index[i]
                     ELSE [file |-> g, idx |-> FirstPlace(disk[g], pf.hashes[i])]]
<1>1. /\ MayStart(p) /\ draft # None
      /\ draft' = [draft EXCEPT !.walked = @ \cup {g}, !.index = new]
  BY DEF IndexFile
<1>2. IsLookup(draft, pf.hashes)
  BY <1>1, LookupOf
<1>3. \A i \in Found(pf, g) :
         i \in DOMAIN pf.hashes /\ FirstPlace(disk[g], pf.hashes[i]) \in Nat \ {0}
  <2>1. disk[g] \in {Absent} \cup Seq(Data)
    BY DEF TypeOK
  <2> QED
    BY <2>1, PlaceOf DEF Found
<1> HIDE DEF pf
<1>4. /\ DOMAIN new \subseteq DOMAIN pf.hashes
      /\ new \in [DOMAIN new -> [file : File, idx : Nat \ {0}]]
  BY <1>2, <1>3 DEF IsLookup
<1> HIDE DEF new
<1>5. draft' = [walked |-> draft.walked \cup {g}, index |-> new, got |-> draft.got,
                raced |-> draft.raced]
  BY <1>1, <1>2 DEF IsLookup
<1>6. IsLookup(draft', pf.hashes)
  BY <1>2, <1>4, <1>5 DEF IsLookup
<1> QED
  BY <1>5, <1>6 DEF new, pf

\* The lookup after a chunk was read.
LEMMA ReadType ==
  ASSUME TypeOK, NEW p \in Peer, ReadLocal(p)
  PROVE  \E i \in DOMAIN draft.index : LET at == draft.index[i] IN
         /\ at.file \in File
         /\ draft'.index = Drop(i, draft.index)
         /\ draft'.got = IF HasChunk(disk[at.file], at.idx)
                         THEN Put(i, disk[at.file][at.idx], draft.got)
                         ELSE draft.got
         /\ draft'.raced = draft.raced
         /\ IsLookup(draft', Head(queue[p]).hashes)
<1> DEFINE hashes == Head(queue[p]).hashes
<1>1. MayStart(p) /\ draft # None
  BY DEF ReadLocal
<1>2. PICK i \in DOMAIN draft.index :
        LET at == draft.index[i] IN
        draft' = [draft EXCEPT
               !.index = Drop(i, @),
               !.got = IF HasChunk(disk[at.file], at.idx)
                       THEN Put(i, disk[at.file][at.idx], @) ELSE @]
  BY DEF ReadLocal
<1>3. IsLookup(draft, hashes)
  BY <1>1, LookupOf
<1> DEFINE at  == draft.index[i]
           got == IF HasChunk(disk[at.file], at.idx)
                  THEN Put(i, disk[at.file][at.idx], draft.got) ELSE draft.got
<1>4. at.file \in File /\ i \in DOMAIN hashes
  BY <1>3 DEF IsLookup
<1>5. HasChunk(disk[at.file], at.idx) => disk[at.file][at.idx] \in Data
  <2>1. disk[at.file] \in {Absent} \cup Seq(Data)
    BY <1>4 DEF TypeOK
  <2> QED
    BY <2>1, ElementOfSeq, LenProperties DEF HasChunk
<1>6. /\ DOMAIN got \subseteq DOMAIN hashes
      /\ got \in [DOMAIN got -> Data]
  BY <1>3, <1>4, <1>5 DEF IsLookup, Put
<1>7. /\ DOMAIN Drop(i, draft.index) \subseteq DOMAIN hashes
      /\ Drop(i, draft.index)
           \in [DOMAIN Drop(i, draft.index) -> [file : File, idx : Nat \ {0}]]
  BY <1>3 DEF IsLookup, Drop
<1>8. draft' = [walked |-> draft.walked, index |-> Drop(i, draft.index), got |-> got,
                raced |-> draft.raced]
  BY <1>2, <1>3 DEF IsLookup
<1> HIDE DEF got, at, hashes
<1>9. IsLookup(draft', hashes)
  BY <1>3, <1>6, <1>7, <1>8 DEF IsLookup
<1> QED
  BY <1>4, <1>8, <1>9 DEF got, at, hashes

\* A file that has been started: its transfer and its requests.
LEMMA StartedType ==
  ASSUME TypeOK, NEW p \in Peer, LookedUp(p), NEW next \in Nat \ {0}
  PROVE  LET t == Started(p, next) IN
         /\ IsTransfer(t)
         /\ t.hashes = Head(queue[p]).hashes /\ t.raced = draft.raced
         /\ t.got = draft.got /\ DOMAIN t.got \subseteq DOMAIN t.hashes
<1> DEFINE pf == Head(queue[p])
<1>1. IsLookup(draft, pf.hashes) /\ queue[p] # <<>>
  BY LookupOf DEF LookedUp, MayStart
<1>2. pf \in PendingType
  BY <1>1, HeadOfQueue
<1>3. pf.hashes \in Seq(Data) /\ pf.hkey \in Key \cup {None}
  BY <1>2 DEF PendingType
<1>4. DOMAIN draft.got \subseteq 1 .. Total(pf.hashes)
  BY <1>1, <1>3, TotalType DEF IsLookup
<1>5. Started(p, next) = [hashes |-> pf.hashes, hkey |-> pf.hkey, next |-> next,
                          got |-> draft.got, raced |-> draft.raced]
  BY DEF Started
<1> HIDE DEF pf
<1>6. IsTransfer(Started(p, next))
  BY <1>1, <1>3, <1>4, <1>5 DEF IsTransfer, IsLookup
<1> QED
  BY <1>1, <1>5, <1>6 DEF IsLookup, pf

LEMMA RequestsType ==
  ASSUME NEW f \in File, NEW k \in Key \cup {None}, NEW S, S \subseteq Nat \ {0}
  PROVE  \A r \in Requests(f, k, S) : IsMessage(r)
BY DEF Requests, IsMessage, ChunkRequest

\* The smallest of a set of chunk numbers are some of them.
LEMMA ChunkNumbers ==
  ASSUME NEW n \in Nat, NEW S, S \subseteq 1 .. n
  PROVE  /\ S \subseteq Nat \ {0} /\ S \subseteq Int /\ IsFiniteSet(S)
         /\ Smallest(S, Window) \subseteq S
<1>1. IsFiniteSet(1 .. n)
  BY FS_Interval
<1>2. S \in SUBSET (1 .. n)
  OBVIOUS
<1>3. IsFiniteSet(S)
  BY <1>1, <1>2, FS_Subset
<1> QED
  BY <1>3 DEF Smallest

\* Files in the order of a manifest, as they join the queue.
LEMMA JoinedType ==
  ASSUME NEW files, NEW S, S \subseteq File, S \subseteq DOMAIN files,
         files \in [DOMAIN files -> Seq(Data)], NEW k \in Key \cup {None},
         NEW order \in SetToSeqs(S)
  PROVE  [n \in DOMAIN order |-> Pending(order[n], files[order[n]], k)]
           \in Seq(PendingType)
<1> DEFINE n == Cardinality(S)
           join == [i \in DOMAIN order |-> Pending(order[i], files[order[i]], k)]
<1>1. n \in Nat
  BY FileAssumption, FS_Subset, FS_CardinalityType
<1>2. order \in [1 .. n -> S]
  BY DEF SetToSeqs
<1>3. ASSUME NEW i \in 1 .. n
      PROVE  Pending(order[i], files[order[i]], k) \in PendingType
  <2>1. order[i] \in File /\ files[order[i]] \in Seq(Data)
    BY <1>2
  <2> QED
    BY <2>1 DEF Pending, PendingType
<1>4. join \in [1 .. n -> PendingType]
  BY <1>2, <1>3
<1> QED
  BY <1>1, <1>4

-----------------------------------------------------------------------------
(* Type correctness.                                                        *)

LEMMA TypeInit == Init => TypeOK
<1> SUFFICES ASSUME Init PROVE TypeOK
  OBVIOUS
<1>1. /\ remote \in [Peer -> [File -> {Absent} \cup Seq(Data)]]
      /\ disk \in [File -> {Absent} \cup Seq(Data)]
  BY VersionAssumption DEF Init, Content
<1>2. /\ active = [p \in Peer |-> active[p]]
      /\ \A p \in Peer : IsTransferMap(active[p])
  BY NoTransfers DEF Init
<1>3. queue \in [Peer -> Seq(PendingType)]
  BY EmptySeq DEF Init
<1>4. /\ net = [p \in Peer |-> net[p]]
      /\ \A p \in Peer : IsChannel(net[p])
  BY EmptyChannel DEF Init
<1>5. spent \in [Kind -> Nat]
  BY DEF Init
<1>6. /\ txKey \in [Peer -> Key \cup {None}]
      /\ rxKey \in [Peer -> Key \cup {None}]
      /\ outbound \in [Peer -> SUBSET (Key \X File)]
      /\ inbound \in [Peer -> SUBSET (Key \X File)]
      /\ torn \subseteq File /\ connected \subseteq Peer
      /\ loop \in Peer \cup {None} /\ LookupOK
  BY DEF Init, LookupOK
<1> QED
  BY <1>1, <1>2, <1>3, <1>4, <1>5, <1>6 DEF TypeOK

\* The requests and notices a node may send.
LEMMA PlainMessages ==
  /\ IsMessage(ManifestRequest)
  /\ \A f \in File : /\ IsMessage(FileNotice("FileChanged", f))
                     /\ IsMessage(FileNotice("FileDeleted", f))
BY DEF IsMessage, ManifestRequest, FileNotice

\* The budget of an environment step.
LEMMA SpendType ==
  ASSUME spent \in [Kind -> Nat], NEW k \in Kind, Spend(k)
  PROVE  spent' \in [Kind -> Nat]
BY DEF Spend

LEMMA TypeConnections ==
  ASSUME TypeOK
  PROVE  /\ Restart => TypeOK'
         /\ \A p \in Peer : Connect(p) \/ Disconnect(p) \/ RequestSync(p) => TypeOK'
<1> USE DEF vars, serverVars, diskVars, keyVars, schedVars
<1>0. NetOK
  BY DEF TypeOK, NetOK
<1>1. ASSUME NEW p \in Peer, Connect(p)
      PROVE  TypeOK'
  <2>1. net' = Sent(p, {ManifestRequest}) /\ connected' \subseteq Peer
    BY <1>1 DEF Connect, TypeOK
  <2>2. NetOK'
    BY <1>0, <2>1, SentNet, PlainMessages
  <2> QED
    BY <1>1, <2>1, <2>2, LookupStays DEF Connect, TypeOK, NetOK
<1>2. ASSUME NEW p \in Peer, Disconnect(p)
      PROVE  TypeOK'
  <2>1. NetOK'
    BY <1>0, <1>2, EmptyChannel DEF Disconnect, NetOK
  <2>2. queue' \in [Peer -> Seq(PendingType)] /\ spent' \in [Kind -> Nat]
    BY <1>2, EmptySeq, SpendType DEF Disconnect, TypeOK, Kind
  <2>3. /\ active' = [q \in Peer |-> active'[q]]
        /\ \A q \in Peer : IsTransferMap(active'[q])
    BY <1>2, NoTransfers DEF Disconnect, TypeOK
  <2> QED
    BY <1>2, <2>1, <2>2, <2>3, LookupStays DEF Disconnect, Idle, TypeOK, NetOK
<1>3. ASSUME NEW p \in Peer, RequestSync(p)
      PROVE  TypeOK'
  <2>1. net' = Sent(p, {ManifestRequest}) /\ spent' \in [Kind -> Nat]
    BY <1>3, SpendType DEF RequestSync, TypeOK, Kind
  <2>2. NetOK'
    BY <1>0, <2>1, SentNet, PlainMessages
  <2> QED
    BY <1>3, <2>1, <2>2, LookupStays DEF RequestSync, TypeOK, NetOK
<1>4. ASSUME Restart
      PROVE  TypeOK'
  <2>1. NetOK'
    BY <1>4, EmptyChannel DEF Restart, NetOK
  <2>2. queue' \in [Peer -> Seq(PendingType)] /\ spent' \in [Kind -> Nat]
    BY <1>4, EmptySeq, SpendType DEF Restart, TypeOK, Kind
  <2>3. /\ active' = [q \in Peer |-> active'[q]]
        /\ \A q \in Peer : IsTransferMap(active'[q])
    BY <1>4, NoTransfers DEF Restart
  <2> QED
    BY <1>4, <2>1, <2>2, <2>3, LookupStays DEF Restart, TypeOK, NetOK
<1> QED
  BY <1>1, <1>2, <1>3, <1>4

LEMMA TypeServing ==
  ASSUME TypeOK, NEW p \in Peer
  PROVE  /\ ServeManifest(p) => TypeOK'
         /\ \A r \in InFlight(p) : ServeChunk(p, r) => TypeOK'
<1> USE DEF vars, serverVars, diskVars, keyVars, schedVars
<1>0. NetOK
  BY DEF TypeOK, NetOK
<1>1. ASSUME ServeManifest(p)
      PROVE  TypeOK'
  <2> DEFINE k == IF EncryptedProtocol THEN txKey[p] ELSE None
             S == IF Shared(p) = {} THEN {}
                  ELSE {Manifest(k, Restrict(remote[p], Shared(p)))}
  <2>1. k \in Key \cup {None}
    BY DEF TypeOK
  <2>2. /\ Shared(p) \subseteq File
        /\ Restrict(remote[p], Shared(p)) \in [Shared(p) -> Seq(Data)]
    BY DEF Restrict, Shared, TypeOK
  <2>3. net' = Handled(p, ManifestRequest, S)
    BY <1>1 DEF ServeManifest
  <2>4. outbound' \in [Peer -> SUBSET (Key \X File)]
    BY <1>1, <2>1, <2>2 DEF ServeManifest, TypeOK
  <2>5. \A m \in S : IsMessage(m)
    BY <2>1, <2>2 DEF IsMessage, Manifest
  <2> HIDE DEF S, k
  <2>6. NetOK'
    BY <1>0, <2>3, <2>5, HandledNet
  <2> QED
    BY <1>1, <2>4, <2>6, LookupStays DEF ServeManifest, TypeOK, NetOK
<1>2. ASSUME NEW r \in InFlight(p), ServeChunk(p, r)
      PROVE  TypeOK'
  <2>1. IsMessage(r) /\ r.type = "ChunkRequest"
    BY <1>2 DEF TypeOK, IsChannel, InFlight, ServeChunk
  <2>2. r.key \in Key \cup {None} /\ r.file \in File /\ r.idx \in Nat \ {0}
    BY <2>1 DEF IsMessage, Manifest, ManifestRequest
  <2>3. HasChunk(remote[p][r.file], r.idx) => remote[p][r.file][r.idx] \in Data
    <3>1. remote[p][r.file] \in {Absent} \cup Seq(Data)
      BY <2>2 DEF TypeOK
    <3> QED
      BY <3>1, ElementOfSeq, LenProperties DEF HasChunk
  <2>4. HasChunk(remote[p][r.file], r.idx) =>
          IsMessage(ChunkResponse(r, txKey[p], remote[p][r.file][r.idx]))
    BY <2>2, <2>3 DEF IsMessage, ChunkResponse, TypeOK
  <2>5. \E S : net' = Handled(p, r, S) /\ \A m \in S : IsMessage(m)
    BY <1>2, <2>4 DEF ServeChunk
  <2>6. NetOK'
    BY <1>0, <2>5, HandledNet
  <2> QED
    BY <1>2, <2>6, LookupStays DEF ServeChunk, TypeOK, NetOK
<1> QED
  BY <1>1, <1>2

LEMMA TypeManifest ==
  ASSUME TypeOK, NEW p \in Peer, NEW m, OnManifest(p, m)
  PROVE  TypeOK'
<1> USE DEF vars, serverVars, diskVars, keyVars, schedVars
<1>1. NetOK'
  BY HandledNet DEF OnManifest, TypeOK, NetOK
<1>2. CASE m.key \notin {None, rxKey[p]}
  BY <1>1, <1>2, LookupStays DEF OnManifest, Idle, TypeOK, NetOK
<1>3. CASE m.key \in {None, rxKey[p]}
  <2>1. IsMessage(m) /\ m.type = "Manifest"
    BY DEF OnManifest, TypeOK, IsChannel, InFlight
  <2>2. /\ m.key \in Key \cup {None}
        /\ DOMAIN m.files \subseteq File
        /\ m.files \in [DOMAIN m.files -> Seq(Data)]
    BY <2>1 DEF IsMessage, ManifestRequest
  <2>3. inbound' \in [Peer -> SUBSET (Key \X File)]
    <3> DEFINE ids == {<<m.key, f>> : f \in DOMAIN m.files}
    <3>1. m.key # None => ids \in SUBSET (Key \X File)
      BY <2>2
    <3>2. inbound' = IF m.key = None THEN inbound
                     ELSE [inbound EXCEPT ![p] = ids]
      BY <1>3 DEF OnManifest
    <3> HIDE DEF ids
    <3> QED
      BY <3>1, <3>2 DEF TypeOK
  <2>4. loop' \in Peer \cup {None}
    BY <1>3 DEF OnManifest
  <2>5. PICK order \in SetToSeqs(Wanted(p, m.files)) :
          queue' = [queue EXCEPT ![p] = @ \o
                      [n \in DOMAIN order |->
                         Pending(order[n], m.files[order[n]], m.key)]]
    BY <1>3 DEF OnManifest
  <2>6. [n \in DOMAIN order |-> Pending(order[n], m.files[order[n]], m.key)]
          \in Seq(PendingType)
    <3>1. Wanted(p, m.files) \subseteq File /\ Wanted(p, m.files) \subseteq DOMAIN m.files
      BY <2>2 DEF Wanted
    <3> QED
      BY <2>2, <3>1, JoinedType
  <2>7. queue' \in [Peer -> Seq(PendingType)]
    <3>1. queue[p] \in Seq(PendingType)
      BY DEF TypeOK
    <3>2. queue[p] \o [n \in DOMAIN order |->
                         Pending(order[n], m.files[order[n]], m.key)]
            \in Seq(PendingType)
      BY <2>6, <3>1, ConcatProperties
    <3> QED
      BY <2>5, <3>2 DEF TypeOK
  <2> QED
    BY <1>1, <1>3, <2>3, <2>4, <2>7, LookupStays DEF OnManifest, Idle, TypeOK, NetOK
<1> QED
  BY <1>2, <1>3

LEMMA TypeLookup ==
  ASSUME TypeOK, NEW p \in Peer,
         BeginLookup(p) \/ (\E g \in File : IndexFile(p, g)) \/ ReadLocal(p)
  PROVE  TypeOK'
<1>1. MayStart(p) /\ UNCHANGED <<active, queue, loop>>
  BY DEF BeginLookup, IndexFile, ReadLocal
<1>2. Head(queue[p]) \in PendingType
  BY <1>1, HeadOfQueue DEF MayStart
<1>3. IsLookup(draft', Head(queue[p]).hashes)
  BY <1>2, FreshLookup, IndexedType, ReadType DEF BeginLookup
<1>4. LookupOK'
  BY <1>1, <1>3, LookupGoes
<1> QED
  BY <1>4 DEF BeginLookup, IndexFile, ReadLocal, serverVars, diskVars, keyVars, TypeOK

LEMMA TypeLoop ==
  ASSUME TypeOK, NEW p \in Peer, LoopStep(p)
  PROVE  TypeOK'
<1> USE DEF vars, serverVars, diskVars, keyVars, schedVars
<1> DEFINE pf == Head(queue[p])
<1>1. CASE EndLoop(p)
  <2>1. LookupOK'
    BY <1>1 DEF EndLoop, TypeOK, LookupOK
  <2> QED
    BY <1>1, <2>1 DEF EndLoop, TypeOK
<1>2. ASSUME queue[p] # <<>>, queue' = [queue EXCEPT ![p] = Tail(@)]
      PROVE  /\ queue' \in [Peer -> Seq(PendingType)]
             /\ pf \in PendingType /\ pf.file \in File
             /\ pf.hashes \in Seq(Data) /\ pf.hkey \in Key \cup {None}
  BY <1>2, HeadOfQueue DEF TypeOK, PendingType
<1>3. CASE SkipPresent(p)
  <2>1. LookupOK'
    BY <1>3 DEF SkipPresent, LookupOK
  <2> QED
    BY <1>2, <1>3, <2>1 DEF SkipPresent, MayStart, TypeOK
<1>4. ASSUME WriteFromLocal(p) \/ LocalWriteFails(p) \/ Activate(p)
      PROVE  /\ LookupOK' /\ LookedUp(p)
             /\ queue' \in [Peer -> Seq(PendingType)]
             /\ pf \in PendingType /\ pf.file \in File
             /\ pf.hashes \in Seq(Data) /\ pf.hkey \in Key \cup {None}
  BY <1>2, <1>4 DEF WriteFromLocal, LocalWriteFails, Activate, LookedUp, MayStart, LookupOK
<1>5. CASE WriteFromLocal(p)
  <2> DEFINE t == Started(p, 1)
  <2>1. IsTransfer(t)
    BY <1>4, <1>5, StartedType
  <2>2. /\ Complete(t)
        /\ disk' = [disk EXCEPT ![pf.file] = Assembled(t)]
        /\ torn' = Written(pf.file, t)
    BY <1>5 DEF WriteFromLocal
  <2>3. pf.file \in File
    BY <1>4, <1>5
  <2> HIDE DEF pf, t
  <2>4. Assembled(t) \in Seq(Data)
    BY <2>1, <2>2, AssembledType
  <2>5. disk' \in [File -> {Absent} \cup Seq(Data)] /\ torn' \subseteq File
    BY <2>2, <2>3, <2>4 DEF TypeOK, Written
  <2> QED
    BY <1>4, <1>5, <2>5 DEF WriteFromLocal, TypeOK
<1>6. CASE LocalWriteFails(p)
  <2> DEFINE t == Started(p, 1)
  <2>1. IsTransfer(t)
    BY <1>4, <1>6, StartedType
  <2>2. /\ Complete(t)
        /\ torn' = torn \cup {pf.file}
        /\ t.hashes = pf.hashes
    BY <1>6 DEF LocalWriteFails, Started
  <2>3. PICK left \in {disk[pf.file], Absent} \cup
                       {SubSeq(Assembled(t), 1, n) : n \in 0 .. Total(t.hashes)} :
          disk' = [disk EXCEPT ![pf.file] = left]
    BY <1>6 DEF LocalWriteFails
  <2>4. spent' \in [Kind -> Nat]
    BY <1>6, SpendType DEF LocalWriteFails, TypeOK, Kind
  <2>5. pf.file \in File
    BY <1>4, <1>6
  <2> HIDE DEF pf, t
  <2>6. Assembled(t) \in Seq(Data) /\ Len(Assembled(t)) = Total(t.hashes)
        /\ Total(t.hashes) \in Nat
    BY <2>1, <2>2, AssembledType, TotalType DEF IsTransfer
  <2>7. left \in {Absent} \cup Seq(Data)
    <3>1. disk[pf.file] \in {Absent} \cup Seq(Data)
      BY <2>5 DEF TypeOK
    <3>2. \A n \in 0 .. Total(t.hashes) : SubSeq(Assembled(t), 1, n) \in Seq(Data)
      BY <2>6, SubSeqProperties
    <3> QED
      BY <3>1, <3>2
  <2>8. disk' \in [File -> {Absent} \cup Seq(Data)] /\ torn' \subseteq File
    BY <2>2, <2>3, <2>5, <2>7 DEF TypeOK
  <2> QED
    BY <1>4, <1>6, <2>4, <2>8 DEF LocalWriteFails, TypeOK
<1>7. CASE Activate(p)
  <2> DEFINE needed == (1 .. Total(pf.hashes)) \ DOMAIN draft.got
             first  == Smallest(needed, Window)
             next   == IF needed = first THEN Total(pf.hashes) + 1
                       ELSE Min(needed \ first)
  <2>1. /\ active' = [active EXCEPT ![p] = Put(pf.file, Started(p, next), @)]
        /\ net' = Sent(p, Requests(pf.file, pf.hkey, first))
    BY <1>7 DEF Activate
  <2>2. /\ pf.file \in File /\ LookedUp(p)
        /\ pf.hashes \in Seq(Data) /\ pf.hkey \in Key \cup {None}
    BY <1>4, <1>7
  <2> HIDE DEF pf
  <2>4. Total(pf.hashes) \in Nat \ {0}
    BY <2>2, TotalType
  <2>5. needed \subseteq 1 .. Total(pf.hashes)
    OBVIOUS
  <2> HIDE DEF needed
  <2>6. /\ needed \subseteq Nat \ {0} /\ needed \subseteq Int
        /\ IsFiniteSet(needed) /\ first \subseteq needed
    BY <2>4, <2>5, ChunkNumbers
  <2>7. next \in Nat \ {0}
    <3>1. CASE needed = first
      BY <2>4, <3>1
    <3>2. CASE needed # first
      <4>1. /\ needed \ first \subseteq Int /\ needed \ first # {}
            /\ IsFiniteSet(needed \ first)
        BY <2>6, <3>2, FS_Subset
      <4>2. Min(needed \ first) \in needed
        BY <4>1, MinOfFinite
      <4> QED
        BY <2>6, <3>2, <4>2
    <3> QED
      BY <3>1, <3>2
  <2> HIDE DEF first, next
  <2>8. IsTransfer(Started(p, next))
    BY <2>2, <2>7, StartedType
  <2>9. /\ active' = [q \in Peer |-> active'[q]]
        /\ \A q \in Peer : IsTransferMap(active'[q])
    BY <2>1, <2>2, <2>8, PutTransfer DEF TypeOK
  <2>10. NetOK'
    <3>1. first \subseteq Nat \ {0}
      BY <2>6
    <3>2. \A r \in Requests(pf.file, pf.hkey, first) : IsMessage(r)
      BY <2>2, <3>1, RequestsType
    <3> QED
      BY <2>1, <3>2, SentNet DEF TypeOK, NetOK
  <2> QED
    BY <1>4, <1>7, <2>9, <2>10 DEF Activate, TypeOK, NetOK
<1> QED
  BY <1>1, <1>3, <1>5, <1>6, <1>7, TypeLookup DEF LoopStep

LEMMA TypeChunk ==
  ASSUME TypeOK, NEW p \in Peer, NEW m, OnChunk(p, m)
  PROVE  TypeOK'
<1> USE DEF vars, serverVars, diskVars, keyVars, schedVars
<1>0. NetOK
  BY DEF TypeOK, NetOK
<1>8. LookupOK'
  BY LookupStays DEF OnChunk, DropChunk, RetryChunk, StoreChunk, FinishFile, FinishFails,
     Accepted, Arrived, Idle, TypeOK
<1>1. CASE DropChunk(p, m)
  <2>1. NetOK'
    BY <1>0, <1>1, HandledNet DEF DropChunk
  <2> QED
    BY <1>1, <1>8, <2>1 DEF DropChunk, TypeOK, NetOK
<1>2. CASE RetryChunk(p, m)
  <2>1. IsMessage(m) /\ m.type = "ChunkResponse"
    BY <1>2 DEF RetryChunk, Arrived, TypeOK, IsChannel, InFlight
  <2>2. IsMessage(ChunkRequest(m.key, m.file, m.idx))
    BY <2>1 DEF IsMessage, Manifest, ManifestRequest, ChunkRequest
  <2>3. NetOK'
    BY <1>0, <1>2, <2>2, HandledNet DEF RetryChunk
  <2> QED
    BY <1>2, <1>8, <2>3 DEF RetryChunk, TypeOK, NetOK
<1>3. ASSUME Accepted(p, m), net' = Handled(p, m, Following(p, m))
      PROVE  /\ NetOK'
             /\ m.file \in File /\ m.file \in DOMAIN active[p]
             /\ IsTransfer(Stored(p, m))
             /\ IsTransfer(active[p][m.file])
  BY <1>0, <1>3, StoredType, HandledNet DEF Accepted
<1>4. ASSUME Accepted(p, m), IsTransfer(Stored(p, m)), m.file \in DOMAIN active[p],
             active' = [active EXCEPT ![p][m.file] = Stored(p, m)]
      PROVE  /\ active' = [q \in Peer |-> active'[q]]
             /\ \A q \in Peer : IsTransferMap(active'[q])
  <2>1. IsTransferMap([active[p] EXCEPT ![m.file] = Stored(p, m)])
    BY <1>4, ReplaceTransfer DEF TypeOK
  <2> QED
    BY <1>4, <2>1 DEF TypeOK
<1>5. CASE StoreChunk(p, m)
  BY <1>3, <1>4, <1>5, <1>8 DEF StoreChunk, TypeOK, NetOK
<1>6. CASE FinishFile(p, m)
  <2>1. NetOK' /\ m.file \in File /\ IsTransfer(Stored(p, m))
    BY <1>3, <1>6 DEF FinishFile
  <2>2. Assembled(Stored(p, m)) \in Seq(Data)
    BY <1>6, <2>1, AssembledType DEF FinishFile
  <2>3. disk' \in [File -> {Absent} \cup Seq(Data)] /\ torn' \subseteq File
    BY <1>6, <2>1, <2>2 DEF FinishFile, Written, TypeOK
  <2>4. IsTransferMap(Drop(m.file, active[p]))
    BY DropTransfer DEF TypeOK
  <2>5. /\ active' = [q \in Peer |-> active'[q]]
        /\ \A q \in Peer : IsTransferMap(active'[q])
    BY <1>6, <2>4 DEF FinishFile, TypeOK
  <2> QED
    BY <1>6, <1>8, <2>1, <2>3, <2>5 DEF FinishFile, TypeOK, NetOK
<1>7. CASE FinishFails(p, m)
  <2> DEFINE t == Stored(p, m)
             n == Total(active[p][m.file].hashes)
  <2>1. /\ NetOK' /\ m.file \in File /\ IsTransfer(t)
        /\ m.file \in DOMAIN active[p] /\ IsTransfer(active[p][m.file])
    BY <1>3, <1>7 DEF FinishFails
  <2>2. Assembled(t) \in Seq(Data) /\ Len(Assembled(t)) = Total(t.hashes)
    BY <1>7, <2>1, AssembledType DEF FinishFails
  <2>3. Total(t.hashes) = n /\ n \in Nat
    BY <2>1, TotalType DEF Stored, Advance, IsTransfer
  <2>4. PICK left \in {disk[m.file], Absent} \cup
                        {SubSeq(Assembled(t), 1, i) : i \in 0 .. n} :
          disk' = [disk EXCEPT ![m.file] = left]
    BY <1>7 DEF FinishFails
  <2>5. torn' \subseteq File /\ spent' \in [Kind -> Nat]
    BY <1>7, <2>1, SpendType DEF FinishFails, TypeOK, Kind
  <2>6. /\ active' = [q \in Peer |-> active'[q]]
        /\ \A q \in Peer : IsTransferMap(active'[q])
    BY <1>4, <1>7, <2>1 DEF FinishFails
  <2> HIDE DEF t, n
  <2>7. left \in {Absent} \cup Seq(Data)
    <3>1. disk[m.file] \in {Absent} \cup Seq(Data)
      BY <2>1 DEF TypeOK
    <3>2. \A i \in 0 .. n : SubSeq(Assembled(t), 1, i) \in Seq(Data)
      BY <2>2, <2>3, SubSeqProperties
    <3> QED
      BY <3>1, <3>2
  <2>8. disk' \in [File -> {Absent} \cup Seq(Data)]
    BY <2>1, <2>4, <2>7 DEF TypeOK
  <2> QED
    BY <1>7, <1>8, <2>1, <2>5, <2>6, <2>8 DEF FinishFails, TypeOK, NetOK
<1> QED
  BY <1>1, <1>2, <1>5, <1>6, <1>7 DEF OnChunk

LEMMA TypeStalls ==
  ASSUME TypeOK, NEW p \in Peer, NEW f \in File, CheckStalls(p, f)
  PROVE  TypeOK'
<1> USE DEF vars, serverVars, diskVars, keyVars, schedVars
<1> DEFINE t    == active[p][f]
           late == Smallest(Missing(t), Window)
           u    == Advance(t, t.got, Max({t.next, Max(late) + 1}))
<1>1. /\ f \in DOMAIN active[p] /\ late # {}
      /\ net' = Sent(p, Requests(f, t.hkey, late))
      /\ active' = [active EXCEPT ![p][f] = u]
  BY DEF CheckStalls, Later
<1>2. IsTransfer(t)
  BY <1>1 DEF TypeOK, IsTransferMap
<1> HIDE DEF t
<1>3. Total(t.hashes) \in Nat
  BY <1>2, TotalType DEF IsTransfer
<1>4. Missing(t) \subseteq 1 .. Total(t.hashes)
  BY DEF Missing
<1>5. /\ Missing(t) \subseteq Nat \ {0} /\ Missing(t) \subseteq Int
      /\ IsFiniteSet(Missing(t)) /\ late \subseteq Missing(t)
  BY <1>3, <1>4, ChunkNumbers
<1>6. late \subseteq Nat \ {0} /\ late \subseteq Int /\ IsFiniteSet(late)
  BY <1>5, FS_Subset
<1> HIDE DEF late
<1>7. Max(late) \in Nat
  BY <1>1, <1>6, MaxOfFinite
<1>8. Max({t.next, Max(late) + 1}) \in Nat \ {0}
  <2> DEFINE a == t.next
             b == Max(late) + 1
  <2>1. a \in Nat \ {0} /\ b \in Nat \ {0}
    BY <1>2, <1>7 DEF IsTransfer
  <2> HIDE DEF a, b
  <2>2. IsFiniteSet({a, b})
    <3>1. IsFiniteSet({a})
      BY FS_Singleton
    <3>2. IsFiniteSet({a} \cup {b}) /\ {a} \cup {b} = {a, b}
      BY <3>1, FS_AddElement
    <3> QED
      BY <3>2
  <2>3. Max({a, b}) \in {a, b}
    BY <2>1, <2>2, MaxOfFinite
  <2> QED
    BY <2>1, <2>3 DEF a, b
<1>9. IsTransfer(u)
  BY <1>2, <1>8 DEF IsTransfer, Advance
<1> HIDE DEF u
<1>10. /\ active' = [q \in Peer |-> active'[q]]
       /\ \A q \in Peer : IsTransferMap(active'[q])
  <2>1. IsTransferMap([active[p] EXCEPT ![f] = u])
    BY <1>1, <1>9, ReplaceTransfer DEF TypeOK
  <2> QED
    BY <1>1, <2>1 DEF TypeOK
<1>11. NetOK'
  <2>1. \A r \in Requests(f, t.hkey, late) : IsMessage(r)
    BY <1>2, <1>6, RequestsType DEF IsTransfer
  <2> QED
    BY <1>1, <2>1, SentNet DEF TypeOK, NetOK
<1>12. LookupOK' /\ spent' \in [Kind -> Nat]
  BY LookupStays, SpendType DEF CheckStalls, Idle, TypeOK, Kind
<1> QED
  BY <1>10, <1>11, <1>12 DEF CheckStalls, TypeOK, NetOK

LEMMA TypeUsers ==
  ASSUME TypeOK
  PROVE  /\ \A f \in File : LocalEdit(f) => TypeOK'
         /\ \A p \in Peer :
              /\ Lose(p) => TypeOK'
              /\ \A f \in File : RemoteEdit(p, f) => TypeOK'
              /\ \A m \in InFlight(p) : OnFileNotice(p, m) => TypeOK'
              /\ \A k \in Key : PeerRekeys(p, k) => TypeOK'
              /\ NodeRekeys(p) => TypeOK'
<1> USE DEF vars, serverVars, diskVars, keyVars, schedVars
<1>0. NetOK
  BY DEF TypeOK, NetOK
<1>1. ASSUME NEW f \in File, LocalEdit(f)
      PROVE  TypeOK'
  <2>1. PICK c \in Version[f] \cup {Absent} : disk' = [disk EXCEPT ![f] = c]
    BY <1>1 DEF LocalEdit
  <2>2. c \in {Absent} \cup Seq(Data)
    BY VersionAssumption
  <2>3. torn' \subseteq File /\ spent' \in [Kind -> Nat]
    BY <1>1, SpendType DEF LocalEdit, TypeOK, Kind
  <2>4. LookupOK'
    <3>1. draft # None => draft' = [walked |-> draft.walked, index |-> draft.index,
                                    got |-> draft.got, raced |-> draft'.raced]
                          /\ draft'.raced \in BOOLEAN
      BY <1>1 DEF LocalEdit, TypeOK, LookupOK, IsLookup
    <3> QED
      BY <1>1, <3>1 DEF LocalEdit, TypeOK, LookupOK, IsLookup, MayStart, ToBeRead
  <2> QED
    BY <1>1, <2>1, <2>2, <2>3, <2>4 DEF LocalEdit, TypeOK
<1>2. ASSUME NEW p \in Peer, Lose(p)
      PROVE  TypeOK'
  <2>1. PICK m \in InFlight(p) : net' = Handled(p, m, {})
    BY <1>2 DEF Lose
  <2>2. NetOK'
    BY <1>0, <2>1, HandledNet
  <2>3. spent' \in [Kind -> Nat]
    BY <1>2, SpendType DEF Lose, TypeOK, Kind
  <2> QED
    BY <1>2, <2>2, <2>3, LookupStays DEF Lose, TypeOK, NetOK
<1>3. ASSUME NEW p \in Peer, NEW f \in File, RemoteEdit(p, f)
      PROVE  TypeOK'
  <2>1. PICK c \in Version[f] \cup {Absent} :
          /\ remote' = [remote EXCEPT ![p][f] = c]
          /\ \/ net' = net
             \/ net' = Sent(p, {FileNotice(IF c = Absent THEN "FileDeleted"
                                           ELSE "FileChanged", f)})
    BY <1>3 DEF RemoteEdit
  <2>2. c \in {Absent} \cup Seq(Data)
    BY VersionAssumption
  <2>3. NetOK'
    <3>1. CASE net' = net
      BY <1>0, <3>1 DEF NetOK
    <3>2. CASE net' = Sent(p, {FileNotice(IF c = Absent THEN "FileDeleted"
                                          ELSE "FileChanged", f)})
      BY <1>0, <3>2, PlainMessages, SentNet
    <3> QED
      BY <2>1, <3>1, <3>2
  <2>4. spent' \in [Kind -> Nat]
    BY <1>3, SpendType DEF RemoteEdit, TypeOK, Kind
  <2>5. remote' \in [Peer -> [File -> {Absent} \cup Seq(Data)]]
    BY <2>1, <2>2 DEF TypeOK
  <2> QED
    BY <1>3, <2>3, <2>4, <2>5, LookupStays DEF RemoteEdit, TypeOK, NetOK
<1>4. ASSUME NEW p \in Peer, NEW m \in InFlight(p), OnFileNotice(p, m)
      PROVE  TypeOK'
  <2>1. IsMessage(m) /\ m.type \in {"FileChanged", "FileDeleted"}
    BY <1>4 DEF OnFileNotice, TypeOK, IsChannel, InFlight
  <2>2. m.file \in File
    BY <2>1 DEF IsMessage, Manifest, ManifestRequest
  <2>3. NetOK'
    BY <1>0, <1>4, PlainMessages, HandledNet DEF OnFileNotice
  <2> QED
    BY <1>4, <2>2, <2>3, LookupStays DEF OnFileNotice, TypeOK, NetOK
<1>5. ASSUME NEW p \in Peer, NEW k \in Key, PeerRekeys(p, k)
      PROVE  TypeOK'
  BY <1>5, SpendType, LookupStays DEF PeerRekeys, TypeOK, Kind
<1>6. ASSUME NEW p \in Peer, NodeRekeys(p)
      PROVE  TypeOK'
  BY <1>6, LookupStays DEF NodeRekeys, TypeOK
<1> QED
  BY <1>1, <1>2, <1>3, <1>4, <1>5, <1>6

LEMMA TypeNext == TypeOK /\ [Next]_vars => TypeOK'
<1> SUFFICES ASSUME TypeOK, [Next]_vars
             PROVE  TypeOK'
  OBVIOUS
<1>1. CASE UNCHANGED vars
  BY <1>1, LookupStays DEF vars, serverVars, diskVars, keyVars, schedVars, TypeOK
<1>2. ASSUME NEW p \in Peer, Protocol(p)
      PROVE  TypeOK'
  BY <1>2, TypeConnections, TypeServing, TypeManifest, TypeLoop, TypeChunk,
     TypeStalls, TypeUsers DEF Protocol
<1>3. ASSUME NEW p \in Peer, Environment(p)
      PROVE  TypeOK'
  BY <1>3, TypeConnections, TypeUsers DEF Environment
<1>4. CASE \E f \in File : LocalEdit(f)
  BY <1>4, TypeUsers
<1>5. CASE Restart
  BY <1>5, TypeConnections
<1> QED
  BY <1>1, <1>2, <1>3, <1>4, <1>5 DEF Next

\* Every reachable state is well typed.
THEOREM TypeCorrect == Spec => []TypeOK
BY TypeInit, TypeNext, PTL DEF Spec

-----------------------------------------------------------------------------
(* Files on disk are whole versions.                                        *)

(***************************************************************************)
(* NoTornFile is not inductive: what FinishFile writes depends on what the *)
(* transfer collected, on the manifest entry it was started from, and on   *)
(* the manifest that entry came from.  The invariant follows the content   *)
(* of a file on this way, and what a lookup has found in the folder from   *)
(* its hashing to its reading.                                             *)
(***************************************************************************)
WholeRemote == \A p \in Peer : \A f \in File : remote[p][f] \in Version[f] \cup {Absent}

WholeManifests ==
    \A p \in Peer : \A m \in InFlight(p) :
        m.type = "Manifest" => \A f \in DOMAIN m.files : m.files[f] \in Version[f]

WholeQueue ==
    \A p \in Peer : \A n \in DOMAIN queue[p] :
        queue[p][n].hashes \in Version[queue[p][n].file]

WholeActive ==
    \A p \in Peer : \A f \in DOMAIN active[p] : active[p][f].hashes \in Version[f]

\* What was found is still there to be read, and what was read is what was
\* looked for, as long as no save came between.
WholeLookup ==
    draft # None /\ ~ draft.raced =>
        LET hashes == Head(queue[loop]).hashes IN
        /\ \A i \in DOMAIN draft.index :
              LET at == draft.index[i] IN
              HasChunk(disk[at.file], at.idx) /\ disk[at.file][at.idx] = hashes[i]
        /\ \A i \in DOMAIN draft.got : draft.got[i] = hashes[i]

WholeInv == /\ TypeOK
            /\ WholeRemote
            /\ WholeManifests
            /\ WholeQueue
            /\ WholeActive
            /\ WholeLookup
            /\ GotVerified
            /\ NoTornFile

LEMMA LookupStaysWhole ==
  /\ LookupOK
  /\ WholeLookup
  /\ \/ draft' = None
     \/ loop = None /\ draft' = draft
     \/ UNCHANGED <<queue, loop, draft, disk>>
  => WholeLookup'
BY DEF LookupOK, WholeLookup

\* What a channel may gain without a manifest in it.
NoManifest(S) == \A m \in S : m.type # "Manifest"

\* A step that sends, or takes and sends, adds to a channel what it sent.
LEMMA ChannelGains ==
  ASSUME TypeOK, NEW p \in Peer, NEW S, NEW x,
         net' \in {Sent(p, S), Handled(p, x, S)}
  PROVE  \A q \in Peer : InFlight(q)' \subseteq InFlight(q) \cup S
<1>1. net = [q \in Peer |-> net[q]]
  BY DEF TypeOK
<1>2. BagToSet(net[p] (+) SetToBag(S)) = BagToSet(net[p]) \cup S
  BY DEF BagToSet, SetToBag, (+)
<1>3. /\ BagToSet(net[p] (-) SetToBag({x})) \subseteq BagToSet(net[p])
      /\ BagToSet((net[p] (-) SetToBag({x})) (+) SetToBag(S))
           = BagToSet(net[p] (-) SetToBag({x})) \cup S
  BY DEF BagToSet, SetToBag, (-), (+)
<1> QED
  BY <1>1, <1>2, <1>3 DEF InFlight, Sent, Handled

LEMMA ManifestsKept ==
  ASSUME TypeOK, WholeManifests, NEW p \in Peer, NEW S, NEW x, NoManifest(S),
         net' \in {Sent(p, S), Handled(p, x, S)}
  PROVE  WholeManifests'
<1>1. \A q \in Peer : InFlight(q)' \subseteq InFlight(q) \cup S
  BY ChannelGains
<1> QED
  BY <1>1 DEF WholeManifests, NoManifest

\* A verified chunk leaves a verified transfer, of the same manifest entry.
LEMMA StoredVerified ==
  ASSUME WholeInv, NEW p \in Peer, NEW m, Accepted(p, m)
  PROVE  LET t == Stored(p, m) IN
         /\ t.hashes = active[p][m.file].hashes
         /\ t.hashes \in Version[m.file]
         /\ t.raced = active[p][m.file].raced
         /\ \A i \in DOMAIN t.got :
               i \in DOMAIN t.hashes /\ (~ t.raced => t.got[i] = t.hashes[i])
<1> DEFINE a == active[p][m.file]
<1>1. /\ m.file \in DOMAIN active[p]
      /\ m.idx \in DOMAIN a.hashes /\ m.data = a.hashes[m.idx]
  BY DEF Accepted, Verified
<1>2. a.hashes \in Version[m.file]
  BY <1>1 DEF WholeInv, WholeActive
<1>3. \A i \in DOMAIN a.got :
        i \in DOMAIN a.hashes /\ (~ a.raced => a.got[i] = a.hashes[i])
  BY <1>1 DEF WholeInv, GotVerified
<1>4. /\ Stored(p, m).hashes = a.hashes
      /\ Stored(p, m).got = Put(m.idx, m.data, a.got)
      /\ Stored(p, m).raced = a.raced
  BY DEF Stored, Advance
<1> HIDE DEF a
<1>5. \A i \in DOMAIN Put(m.idx, m.data, a.got) :
         /\ i \in DOMAIN a.hashes
         /\ ~ a.raced => Put(m.idx, m.data, a.got)[i] = a.hashes[i]
  BY <1>1, <1>3 DEF Put
<1> QED
  BY <1>2, <1>4, <1>5 DEF a

\* When it is complete, what is assembled from it is that entry.
LEMMA AssembledWhole ==
  ASSUME NEW t, IsTransfer(t), Complete(t),
         \A i \in DOMAIN t.got : i \in DOMAIN t.hashes /\ t.got[i] = t.hashes[i]
  PROVE  Assembled(t) = t.hashes
<1>1. DOMAIN t.got = 1 .. Total(t.hashes) /\ Total(t.hashes) \in Nat \ {0}
  BY AssembledType, TotalType DEF IsTransfer
<1>2. t.hashes # <<>>
  <2>1. 1 \in DOMAIN t.hashes
    BY <1>1
  <2> QED
    BY <2>1
<1>3. t.hashes \in Seq(Data) /\ Total(t.hashes) = Len(t.hashes)
  BY <1>2, TotalType DEF IsTransfer
<1>4. t.hashes \in [1 .. Total(t.hashes) -> Data]
  BY <1>3, LenProperties
<1>5. \A i \in 1 .. Total(t.hashes) : t.got[i] = t.hashes[i]
  BY <1>1
<1> QED
  BY <1>4, <1>5 DEF Assembled

LEMMA WholeInit == Init => WholeInv
<1> SUFFICES ASSUME Init PROVE WholeInv
  OBVIOUS
<1>1. TypeOK
  BY TypeInit
<1>2. WholeRemote /\ NoTornFile
  BY DEF Init, WholeRemote, NoTornFile
<1>3. WholeManifests
  BY EmptyChannel DEF Init, WholeManifests, InFlight
<1>4. WholeQueue /\ WholeActive /\ GotVerified /\ WholeLookup
  BY DEF Init, WholeQueue, WholeActive, GotVerified, WholeLookup
<1> QED
  BY <1>1, <1>2, <1>3, <1>4 DEF WholeInv

\* Steps that leave files, transfers and the queue alone, or forget them.
LEMMA WholeQuiet ==
  ASSUME WholeInv, NEW p \in Peer,
         \/ Connect(p) \/ Disconnect(p) \/ RequestSync(p) \/ Restart
         \/ (\E r \in InFlight(p) : ServeChunk(p, r)) \/ EndLoop(p)
         \/ (\E m \in InFlight(p) : DropChunk(p, m) \/ RetryChunk(p, m))
         \/ Lose(p) \/ (\E k \in Key : PeerRekeys(p, k)) \/ NodeRekeys(p)
  PROVE  /\ WholeRemote' /\ WholeManifests' /\ WholeQueue'
         /\ WholeActive' /\ GotVerified' /\ NoTornFile' /\ WholeLookup'
<1> USE DEF vars, serverVars, diskVars, keyVars, schedVars
<1>0. /\ TypeOK /\ WholeRemote /\ WholeManifests /\ WholeQueue
      /\ WholeActive /\ GotVerified /\ NoTornFile /\ WholeLookup
  BY DEF WholeInv
<1>1. UNCHANGED <<remote, diskVars>>
  BY DEF Connect, Disconnect, RequestSync, Restart, ServeChunk, EndLoop,
         DropChunk, RetryChunk, Lose, PeerRekeys, NodeRekeys
<1>2. WholeRemote' /\ NoTornFile'
  BY <1>0, <1>1 DEF WholeRemote, NoTornFile
<1>3. UNCHANGED <<active, queue>> \/ Disconnect(p) \/ Restart
  BY DEF Connect, RequestSync, ServeChunk, EndLoop, DropChunk, RetryChunk,
         Lose, PeerRekeys, NodeRekeys
<1>4. WholeQueue' /\ WholeActive' /\ GotVerified'
  <2>1. CASE UNCHANGED <<active, queue>>
    BY <1>0, <2>1 DEF WholeQueue, WholeActive, GotVerified
  <2>2. CASE Disconnect(p)
    BY <1>0, <2>2 DEF Disconnect, TypeOK, WholeQueue, WholeActive, GotVerified
  <2>3. CASE Restart
    BY <1>0, <2>3 DEF Restart, WholeQueue, WholeActive, GotVerified
  <2> QED
    BY <1>3, <2>1, <2>2, <2>3
<1>6. WholeLookup'
  <2>1. \/ draft' = None
        \/ loop = None /\ draft' = draft
        \/ UNCHANGED <<queue, loop, draft, disk>>
        \/ EndLoop(p)
    BY DEF Connect, Disconnect, RequestSync, Restart, ServeChunk,
           DropChunk, RetryChunk, Lose, PeerRekeys, NodeRekeys, Idle
  <2>2. EndLoop(p) => draft' = draft /\ draft = None
    BY <1>0 DEF EndLoop, TypeOK, LookupOK
  <2> QED
    BY <1>0, <2>1, <2>2, LookupStaysWhole DEF TypeOK
<1>5. WholeManifests'
  <2>1. CASE Disconnect(p)
    BY <1>0, <2>1, EmptyChannel DEF Disconnect, TypeOK, WholeManifests, InFlight
  <2>2. CASE Restart
    BY <2>2, EmptyChannel DEF Restart, WholeManifests, InFlight
  <2>3. CASE net' = net
    BY <1>0, <2>3 DEF WholeManifests, InFlight
  <2>4. CASE Connect(p) \/ RequestSync(p)
    BY <1>0, <2>4, ManifestsKept DEF Connect, RequestSync, NoManifest, ManifestRequest
  <2>5. ASSUME NEW r \in InFlight(p), ServeChunk(p, r)
        PROVE  WholeManifests'
    <3> DEFINE c == ChunkResponse(r, txKey[p], remote[p][r.file][r.idx])
    <3>1. net' \in {Handled(p, r, {c}), Handled(p, r, {})}
      BY <2>5 DEF ServeChunk
    <3>2. NoManifest({c}) /\ NoManifest({})
      BY DEF NoManifest, ChunkResponse
    <3> HIDE DEF c
    <3> QED
      BY <1>0, <3>1, <3>2, ManifestsKept
  <2>6. ASSUME NEW m \in InFlight(p), DropChunk(p, m)
        PROVE  WholeManifests'
    BY <1>0, <2>6, ManifestsKept DEF NoManifest, DropChunk
  <2>7. ASSUME NEW m \in InFlight(p), RetryChunk(p, m)
        PROVE  WholeManifests'
    BY <1>0, <2>7, ManifestsKept DEF NoManifest, RetryChunk, ChunkRequest
  <2>8. CASE Lose(p)
    BY <1>0, <2>8, ManifestsKept DEF NoManifest, Lose
  <2>9. EndLoop(p) \/ (\E k \in Key : PeerRekeys(p, k)) \/ NodeRekeys(p) => net' = net
    BY DEF EndLoop, PeerRekeys, NodeRekeys
  <2> QED
    BY <2>1, <2>2, <2>3, <2>4, <2>5, <2>6, <2>7, <2>8, <2>9
<1> QED
  BY <1>2, <1>4, <1>5, <1>6

LEMMA WholeUsers ==
  ASSUME WholeInv
  PROVE  /\ \A f \in File : LocalEdit(f) =>
               /\ WholeRemote' /\ WholeManifests' /\ WholeQueue'
               /\ WholeActive' /\ GotVerified' /\ NoTornFile' /\ WholeLookup'
         /\ \A p \in Peer :
              (\E f \in File : RemoteEdit(p, f))
                \/ (\E m \in InFlight(p) : OnFileNotice(p, m)) =>
               /\ WholeRemote' /\ WholeManifests' /\ WholeQueue'
               /\ WholeActive' /\ GotVerified' /\ NoTornFile' /\ WholeLookup'
<1> USE DEF vars, serverVars, diskVars, keyVars, schedVars
<1>0. /\ TypeOK /\ WholeRemote /\ WholeManifests /\ WholeQueue
      /\ WholeActive /\ GotVerified /\ NoTornFile /\ WholeLookup
  BY DEF WholeInv
<1>1. ASSUME NEW f \in File, LocalEdit(f)
      PROVE  /\ WholeRemote' /\ WholeManifests' /\ WholeQueue'
             /\ WholeActive' /\ GotVerified' /\ NoTornFile' /\ WholeLookup'
  <2>1. PICK c \in Version[f] \cup {Absent} : disk' = [disk EXCEPT ![f] = c]
    BY <1>1 DEF LocalEdit
  <2>2. NoTornFile'
    BY <1>0, <1>1, <2>1 DEF LocalEdit, NoTornFile, TypeOK
  <2>3. WholeLookup'
    <3>1. ASSUME draft # None, ToBeRead(f)
          PROVE  draft'.raced
      BY <1>0, <1>1, <3>1 DEF LocalEdit, TypeOK, LookupOK, IsLookup
    <3>2. CASE draft = None
      BY <1>1, <3>2 DEF LocalEdit, WholeLookup, ToBeRead
    <3>3. CASE draft # None /\ ~ ToBeRead(f)
      <4>1. \A i \in DOMAIN draft.index :
               /\ draft.index[i].file # f
               /\ disk'[draft.index[i].file] = disk[draft.index[i].file]
        BY <1>0, <2>1, <3>3 DEF ToBeRead, TypeOK
      <4> QED
        BY <1>0, <1>1, <3>3, <4>1 DEF LocalEdit, WholeLookup, HasChunk
    <3>4. CASE draft # None /\ ToBeRead(f)
      BY <3>1, <3>4 DEF WholeLookup
    <3> QED
      BY <3>2, <3>3, <3>4
  <2> QED
    BY <1>0, <1>1, <2>2, <2>3 DEF LocalEdit, WholeRemote, WholeManifests, WholeQueue,
       WholeActive, GotVerified, InFlight
<1>2. ASSUME NEW p \in Peer, NEW f \in File, RemoteEdit(p, f)
      PROVE  /\ WholeRemote' /\ WholeManifests' /\ WholeQueue'
             /\ WholeActive' /\ GotVerified' /\ NoTornFile' /\ WholeLookup'
  <2>1. PICK c \in Version[f] \cup {Absent} :
          /\ remote' = [remote EXCEPT ![p][f] = c]
          /\ \/ net' = net
             \/ net' = Sent(p, {FileNotice(IF c = Absent THEN "FileDeleted"
                                           ELSE "FileChanged", f)})
    BY <1>2 DEF RemoteEdit
  <2>2. WholeRemote'
    BY <1>0, <2>1 DEF WholeRemote, TypeOK
  <2>3. WholeManifests'
    <3>1. CASE net' = net
      BY <1>0, <3>1 DEF WholeManifests, InFlight
    <3>2. ASSUME NEW t \in {"FileChanged", "FileDeleted"},
                 net' = Sent(p, {FileNotice(t, f)})
          PROVE  WholeManifests'
      BY <1>0, <3>2, ManifestsKept DEF NoManifest, FileNotice
    <3> QED
      BY <2>1, <3>1, <3>2
  <2> QED
    BY <1>0, <1>2, <2>2, <2>3, LookupStaysWhole DEF RemoteEdit, WholeQueue,
       WholeActive, GotVerified, NoTornFile, TypeOK
<1>3. ASSUME NEW p \in Peer, NEW m \in InFlight(p), OnFileNotice(p, m)
      PROVE  /\ WholeRemote' /\ WholeManifests' /\ WholeQueue'
             /\ WholeActive' /\ GotVerified' /\ NoTornFile' /\ WholeLookup'
  <2>1. NoTornFile'
    BY <1>0, <1>3 DEF OnFileNotice, NoTornFile, TypeOK
  <2>2. WholeManifests'
    <3>1. NoManifest({ManifestRequest}) /\ NoManifest({})
      BY DEF NoManifest, ManifestRequest
    <3>2. net' \in {Handled(p, m, {ManifestRequest}), Handled(p, m, {})}
      BY <1>3 DEF OnFileNotice
    <3> QED
      BY <1>0, <3>1, <3>2, ManifestsKept
  <2> QED
    BY <1>0, <1>3, <2>1, <2>2, LookupStaysWhole DEF OnFileNotice, WholeRemote,
       WholeQueue, WholeActive, GotVerified, Idle, TypeOK
<1> QED
  BY <1>1, <1>2, <1>3

\* A manifest is made of whole files.
LEMMA WholeServing ==
  ASSUME WholeInv, NEW p \in Peer, ServeManifest(p)
  PROVE  /\ WholeRemote' /\ WholeManifests' /\ WholeQueue'
         /\ WholeActive' /\ GotVerified' /\ NoTornFile' /\ WholeLookup'
<1> DEFINE k == IF EncryptedProtocol THEN txKey[p] ELSE None
           M == Manifest(k, Restrict(remote[p], Shared(p)))
           S == IF Shared(p) = {} THEN {} ELSE {M}
<1>0. /\ TypeOK /\ WholeRemote /\ WholeManifests /\ WholeQueue
      /\ WholeActive /\ GotVerified /\ NoTornFile /\ WholeLookup
  BY DEF WholeInv
<1>1. net' = Handled(p, ManifestRequest, S)
  BY DEF ServeManifest
<1>2. \A f \in DOMAIN M.files : M.files[f] \in Version[f]
  BY <1>0 DEF Manifest, Restrict, Shared, WholeRemote
<1> HIDE DEF M
<1>3. \A m \in S : \A f \in DOMAIN m.files : m.files[f] \in Version[f]
  BY <1>2
<1> HIDE DEF S
<1>4. WholeManifests'
  BY <1>0, <1>1, <1>3, ChannelGains DEF WholeManifests
<1> QED
  BY <1>0, <1>4, LookupStaysWhole DEF ServeManifest, serverVars, diskVars, schedVars,
     WholeRemote, WholeQueue, WholeActive, GotVerified, NoTornFile, TypeOK

\* The files that join the queue come from the manifest.
LEMMA WholeManifest ==
  ASSUME WholeInv, NEW p \in Peer, NEW m, OnManifest(p, m)
  PROVE  /\ WholeRemote' /\ WholeManifests' /\ WholeQueue'
         /\ WholeActive' /\ GotVerified' /\ NoTornFile' /\ WholeLookup'
<1>0. /\ TypeOK /\ WholeRemote /\ WholeManifests /\ WholeQueue
      /\ WholeActive /\ GotVerified /\ NoTornFile /\ WholeLookup
  BY DEF WholeInv
<1>1. WholeManifests'
  BY <1>0, ManifestsKept DEF OnManifest, NoManifest
<1>2. WholeQueue'
  <2>1. CASE queue' = queue
    BY <1>0, <2>1 DEF WholeQueue
  <2>2. ASSUME NEW order \in SetToSeqs(Wanted(p, m.files)),
               queue' = [queue EXCEPT ![p] = @ \o
                           [n \in DOMAIN order |->
                              Pending(order[n], m.files[order[n]], m.key)]]
        PROVE  WholeQueue'
    <3> DEFINE n    == Cardinality(Wanted(p, m.files))
               join == [i \in DOMAIN order |->
                          Pending(order[i], m.files[order[i]], m.key)]
    <3>1. /\ m \in InFlight(p) /\ m.type = "Manifest" /\ IsMessage(m)
      BY <1>0 DEF OnManifest, TypeOK, IsChannel, InFlight
    <3>2. DOMAIN m.files \subseteq File
          /\ m.files \in [DOMAIN m.files -> Seq(Data)] /\ m.key \in Key \cup {None}
      BY <3>1 DEF IsMessage, ManifestRequest
    <3>3. Wanted(p, m.files) \subseteq File /\ Wanted(p, m.files) \subseteq DOMAIN m.files
      BY <3>2 DEF Wanted
    <3>4. n \in Nat /\ order \in [1 .. n -> Wanted(p, m.files)]
      BY <3>3, FileAssumption, FS_Subset, FS_CardinalityType DEF SetToSeqs
    <3>5. join \in Seq(PendingType)
      <4>1. \A i \in 1 .. n : Pending(order[i], m.files[order[i]], m.key) \in PendingType
        BY <3>2, <3>3, <3>4 DEF Pending, PendingType
      <4>2. join \in [1 .. n -> PendingType]
        BY <3>4, <4>1
      <4> QED
        BY <3>4, <4>2
    <3>6. \A i \in DOMAIN join : join[i].hashes \in Version[join[i].file]
      BY <1>0, <3>1, <3>3, <3>4 DEF Pending, WholeManifests
    <3> HIDE DEF join
    <3>7. queue[p] \in Seq(PendingType)
      BY <1>0 DEF TypeOK
    <3>8. \A i \in DOMAIN (queue[p] \o join) :
             \/ i \in DOMAIN queue[p] /\ (queue[p] \o join)[i] = queue[p][i]
             \/ \E j \in DOMAIN join : (queue[p] \o join)[i] = join[j]
      BY <3>5, <3>7
    <3>9. queue' = [queue EXCEPT ![p] = queue[p] \o join]
      BY <2>2 DEF join
    <3>10. \A i \in DOMAIN queue'[p] : queue'[p][i].hashes \in Version[queue'[p][i].file]
      BY <1>0, <3>6, <3>8, <3>9 DEF WholeQueue, TypeOK
    <3> QED
      BY <1>0, <3>9, <3>10 DEF WholeQueue, TypeOK
  <2> QED
    BY <2>1, <2>2 DEF OnManifest
<1> QED
  BY <1>0, <1>1, <1>2, LookupStaysWhole DEF OnManifest, Idle, serverVars, diskVars,
     WholeRemote, WholeActive, GotVerified, NoTornFile, TypeOK

\* The loop looks up what waits: chunks are found where they are, and read as
\* they were found unless a save came between.
LEMMA WholeLooking ==
  ASSUME WholeInv, NEW p \in Peer,
         BeginLookup(p) \/ (\E g \in File : IndexFile(p, g)) \/ ReadLocal(p)
  PROVE  /\ WholeRemote' /\ WholeManifests' /\ WholeQueue'
         /\ WholeActive' /\ GotVerified' /\ NoTornFile' /\ WholeLookup'
<1> USE DEF serverVars, diskVars, keyVars
<1> DEFINE hashes == Head(queue[p]).hashes
<1>0. /\ TypeOK /\ WholeRemote /\ WholeManifests /\ WholeQueue
      /\ WholeActive /\ GotVerified /\ NoTornFile /\ WholeLookup
  BY DEF WholeInv
<1>1. /\ MayStart(p) /\ loop = p
      /\ UNCHANGED <<remote, disk, torn, active, queue, loop, net>>
  BY DEF BeginLookup, IndexFile, ReadLocal, MayStart
<1>2. /\ WholeRemote' /\ WholeManifests' /\ WholeQueue'
      /\ WholeActive' /\ GotVerified' /\ NoTornFile'
  BY <1>0, <1>1 DEF WholeRemote, WholeManifests, WholeQueue, WholeActive, GotVerified,
     NoTornFile, InFlight
<1>3. WholeLookup'
  <2>1. CASE BeginLookup(p)
    <3>1. draft' = Fresh(Head(queue[p])) /\ Head(queue[p]) \in PendingType
      BY <1>0, <1>1, <2>1, HeadOfQueue DEF BeginLookup, MayStart
    <3>2. DOMAIN draft'.index = {} /\ DOMAIN draft'.got = {}
      BY <3>1, FreshLookup
    <3> QED
      BY <3>2 DEF WholeLookup
  <2>2. ASSUME NEW g \in File, IndexFile(p, g)
        PROVE  WholeLookup'
    <3>1. /\ draft'.index = [i \in DOMAIN draft.index \cup Found(Head(queue[p]), g) |->
                              IF i \in DOMAIN draft.index THEN draft.index[i]
                              ELSE [file |-> g, idx |-> FirstPlace(disk[g], hashes[i])]]
          /\ draft'.got = draft.got /\ draft'.raced = draft.raced
      BY <1>0, <2>2, IndexedType
    <3>2. draft # None
      BY <2>2 DEF IndexFile
    <3>3. ASSUME NEW i \in Found(Head(queue[p]), g)
          PROVE  /\ HasChunk(disk[g], FirstPlace(disk[g], hashes[i]))
                 /\ disk[g][FirstPlace(disk[g], hashes[i])] = hashes[i]
      <4>1. disk[g] # Absent /\ hashes[i] \in Range(disk[g])
        BY DEF Found
      <4>2. disk[g] \in Seq(Data)
        BY <1>0, <4>1 DEF TypeOK
      <4> HIDE DEF hashes
      <4> QED
        BY <4>1, <4>2, PlaceOf DEF HasChunk
    <3> HIDE DEF hashes
    <3>4. \A i \in DOMAIN draft'.index :
             \/ i \in DOMAIN draft.index /\ draft'.index[i] = draft.index[i]
             \/ /\ i \in Found(Head(queue[p]), g)
                /\ draft'.index[i].file = g
                /\ draft'.index[i].idx = FirstPlace(disk[g], hashes[i])
      BY <3>1
    <3>5. ASSUME ~ draft.raced
          PROVE  /\ \A i \in DOMAIN draft.index :
                       /\ HasChunk(disk[draft.index[i].file], draft.index[i].idx)
                       /\ disk[draft.index[i].file][draft.index[i].idx] = hashes[i]
                 /\ \A i \in DOMAIN draft.got : draft.got[i] = hashes[i]
      BY <1>0, <1>1, <3>2, <3>5 DEF WholeLookup, hashes
    <3>6. ASSUME ~ draft'.raced
          PROVE  /\ \A i \in DOMAIN draft'.index :
                       /\ HasChunk(disk[draft'.index[i].file], draft'.index[i].idx)
                       /\ disk[draft'.index[i].file][draft'.index[i].idx] = hashes[i]
                 /\ \A i \in DOMAIN draft'.got : draft'.got[i] = hashes[i]
      BY <3>1, <3>3, <3>4, <3>5, <3>6
    <3>7. hashes = Head(queue'[loop']).hashes /\ disk' = disk
      BY <1>1 DEF hashes
    <3> QED
      BY <3>6, <3>7 DEF WholeLookup, HasChunk
  <2>3. CASE ReadLocal(p)
    <3>1. PICK i \in DOMAIN draft.index : LET at == draft.index[i] IN
             /\ at.file \in File
             /\ draft'.index = Drop(i, draft.index)
             /\ draft'.got = IF HasChunk(disk[at.file], at.idx)
                             THEN Put(i, disk[at.file][at.idx], draft.got)
                             ELSE draft.got
             /\ draft'.raced = draft.raced
      BY <1>0, <2>3, ReadType
    <3>2. draft # None
      BY <2>3 DEF ReadLocal
    <3>3. \A j \in DOMAIN draft'.index : j \in DOMAIN draft.index
                                        /\ draft'.index[j] = draft.index[j]
      BY <3>1 DEF Drop
    <3>4. \A j \in DOMAIN draft'.got :
             \/ j \in DOMAIN draft.got /\ draft'.got[j] = draft.got[j]
             \/ j = i /\ draft'.got[j] = disk[draft.index[i].file][draft.index[i].idx]
      BY <3>1 DEF Put
    <3> QED
      BY <1>0, <1>1, <3>1, <3>2, <3>3, <3>4 DEF WholeLookup
  <2> QED
    BY <2>1, <2>2, <2>3
<1> QED
  BY <1>2, <1>3

\* The loop writes and starts what waited.
LEMMA WholeLoop ==
  ASSUME WholeInv, NEW p \in Peer,
         SkipPresent(p) \/ WriteFromLocal(p) \/ LocalWriteFails(p) \/ Activate(p)
  PROVE  /\ WholeRemote' /\ WholeManifests' /\ WholeQueue'
         /\ WholeActive' /\ GotVerified' /\ NoTornFile' /\ WholeLookup'
<1> USE DEF serverVars, diskVars, keyVars
<1> DEFINE pf == Head(queue[p])
<1>0. /\ TypeOK /\ WholeRemote /\ WholeManifests /\ WholeQueue
      /\ WholeActive /\ GotVerified /\ NoTornFile /\ WholeLookup
  BY DEF WholeInv
<1>1. /\ MayStart(p) /\ loop = p /\ queue[p] # <<>> /\ queue' = [queue EXCEPT ![p] = Tail(@)]
      /\ UNCHANGED remote /\ draft' = None
  BY DEF SkipPresent, WriteFromLocal, LocalWriteFails, Activate, LookedUp, MayStart
<1>2. /\ queue[p] \in Seq(PendingType) /\ pf \in PendingType
  BY <1>0, <1>1, HeadOfQueue DEF TypeOK
<1>3. pf.file \in File /\ pf.hashes \in Version[pf.file]
  BY <1>0, <1>1, <1>2 DEF WholeQueue, PendingType
<1>4. WholeQueue' /\ WholeLookup'
  <2>1. \A i \in DOMAIN Tail(queue[p]) :
           i + 1 \in DOMAIN queue[p] /\ Tail(queue[p])[i] = queue[p][i + 1]
    BY <1>1, <1>2
  <2> QED
    BY <1>0, <1>1, <2>1 DEF WholeQueue, WholeLookup, TypeOK
<1>5. WholeRemote'
  BY <1>0, <1>1 DEF WholeRemote
<1>8. ASSUME NEW next \in Nat \ {0}, LookedUp(p)
      PROVE  LET t == Started(p, next) IN
             /\ IsTransfer(t) /\ t.hashes = pf.hashes
             /\ \A i \in DOMAIN t.got :
                   i \in DOMAIN t.hashes /\ (~ t.raced => t.got[i] = t.hashes[i])
  <2> DEFINE t == Started(p, next)
  <2>1. /\ IsTransfer(t) /\ t.hashes = pf.hashes /\ t.raced = draft.raced
        /\ t.got = draft.got /\ DOMAIN t.got \subseteq DOMAIN t.hashes
    BY <1>0, <1>8, StartedType
  <2>2. draft # None
    BY <1>8 DEF LookedUp
  <2>3. ~ draft.raced => \A i \in DOMAIN draft.got : draft.got[i] = pf.hashes[i]
    BY <1>0, <1>1, <2>2 DEF WholeLookup
  <2> HIDE DEF t, pf
  <2> QED
    BY <2>1, <2>3 DEF t
<1> HIDE DEF pf
<1>6. CASE net' = net /\ active' = active
  <2>1. WholeManifests' /\ WholeActive' /\ GotVerified'
    BY <1>0, <1>6 DEF WholeManifests, InFlight, WholeActive, GotVerified
  <2>2. NoTornFile'
    <3>1. CASE SkipPresent(p)
      BY <1>0, <3>1 DEF SkipPresent, NoTornFile
    <3>2. CASE WriteFromLocal(p)
      <4> DEFINE t == Started(p, 1)
      <4>1. /\ disk' = [disk EXCEPT ![pf.file] = Assembled(t)]
            /\ torn' = Written(pf.file, t)
            /\ Complete(t) /\ LookedUp(p)
        BY <3>2 DEF WriteFromLocal, pf
      <4>2. /\ IsTransfer(t) /\ t.hashes = pf.hashes
            /\ \A i \in DOMAIN t.got :
                  i \in DOMAIN t.hashes /\ (~ t.raced => t.got[i] = t.hashes[i])
        BY <1>8, <4>1
      <4> HIDE DEF t
      <4>3. ~ t.raced => Assembled(t) \in Version[pf.file]
        BY <1>3, <4>1, <4>2, AssembledWhole
      <4> QED
        BY <1>0, <1>3, <4>1, <4>3 DEF NoTornFile, Written, TypeOK
    <3>3. CASE LocalWriteFails(p)
      <4>1. /\ \E left : disk' = [disk EXCEPT ![pf.file] = left]
            /\ torn' = torn \cup {pf.file}
        BY <3>3 DEF LocalWriteFails, pf
      <4> QED
        BY <1>0, <1>3, <4>1 DEF NoTornFile, TypeOK
    <3>4. CASE Activate(p)
      BY <1>0, <3>4 DEF Activate, NoTornFile
    <3> QED
      BY <3>1, <3>2, <3>3, <3>4
  <2> QED
    BY <1>4, <1>5, <2>1, <2>2
<1>7. CASE Activate(p)
  <2> DEFINE needed == (1 .. Total(pf.hashes)) \ DOMAIN draft.got
             first  == Smallest(needed, Window)
             next   == IF needed = first THEN Total(pf.hashes) + 1
                       ELSE Min(needed \ first)
             t      == Started(p, next)
  <2>1. /\ active' = [active EXCEPT ![p] = Put(pf.file, t, @)]
        /\ net' = Sent(p, Requests(pf.file, pf.hkey, first))
        /\ UNCHANGED diskVars
    BY <1>7 DEF Activate, pf
  <2>2. /\ t.hashes = pf.hashes
        /\ \A i \in DOMAIN t.got :
              i \in DOMAIN t.hashes /\ (~ t.raced => t.got[i] = t.hashes[i])
    <3>1. LookedUp(p)
      BY <1>7 DEF Activate
    <3>2. /\ Started(p, next).hashes = Started(p, 1).hashes
          /\ Started(p, next).got = Started(p, 1).got
          /\ Started(p, next).raced = Started(p, 1).raced
      BY DEF Started
    <3>3. /\ Started(p, 1).hashes = pf.hashes
          /\ \A i \in DOMAIN Started(p, 1).got :
                /\ i \in DOMAIN Started(p, 1).hashes
                /\ ~ Started(p, 1).raced
                     => Started(p, 1).got[i] = Started(p, 1).hashes[i]
      BY <1>8, <3>1
    <3> HIDE DEF next
    <3> QED
      BY <3>2, <3>3
  <2> HIDE DEF t
  <2>4. WholeManifests'
    <3>1. NoManifest(Requests(pf.file, pf.hkey, first))
      BY DEF NoManifest, Requests, ChunkRequest
    <3> HIDE DEF first
    <3> QED
      BY <1>0, <2>1, <3>1, ManifestsKept
  <2>5. active' = [q \in Peer |-> IF q = p THEN Put(pf.file, t, active[p])
                                  ELSE active[q]]
    BY <1>0, <2>1 DEF TypeOK
  <2>6. WholeActive'
    BY <1>0, <1>3, <2>2, <2>5 DEF WholeActive, Put
  <2>7. GotVerified'
    BY <1>0, <2>2, <2>5 DEF GotVerified, Put
  <2>8. NoTornFile'
    BY <1>0, <2>1 DEF NoTornFile
  <2> QED
    BY <1>4, <1>5, <2>4, <2>6, <2>7, <2>8
<1> QED
  BY <1>6, <1>7 DEF SkipPresent, WriteFromLocal, LocalWriteFails

\* A verified chunk is stored; the last one completes the file.
LEMMA WholeChunk ==
  ASSUME WholeInv, NEW p \in Peer, NEW m,
         StoreChunk(p, m) \/ FinishFile(p, m) \/ FinishFails(p, m)
  PROVE  /\ WholeRemote' /\ WholeManifests' /\ WholeQueue'
         /\ WholeActive' /\ GotVerified' /\ NoTornFile' /\ WholeLookup'
<1> USE DEF serverVars, diskVars, keyVars
<1> DEFINE t == Stored(p, m)
<1>0. /\ TypeOK /\ WholeRemote /\ WholeManifests /\ WholeQueue
      /\ WholeActive /\ GotVerified /\ NoTornFile /\ WholeLookup
  BY DEF WholeInv
<1>1. /\ Accepted(p, m) /\ net' = Handled(p, m, Following(p, m))
      /\ UNCHANGED <<remote, queue>>
  BY DEF StoreChunk, FinishFile, FinishFails
<1>2. /\ m.file \in File /\ m.file \in DOMAIN active[p] /\ IsTransfer(t)
  BY <1>0, <1>1, StoredType DEF Accepted
<1>3. /\ t.hashes \in Version[m.file] /\ t.raced = active[p][m.file].raced
      /\ \A i \in DOMAIN t.got :
            i \in DOMAIN t.hashes /\ (~ t.raced => t.got[i] = t.hashes[i])
  BY <1>1, StoredVerified
<1>8. WholeLookup'
  BY <1>0, LookupStaysWhole DEF StoreChunk, FinishFile, FinishFails, Accepted, Arrived,
     Idle, TypeOK
<1>4. WholeRemote' /\ WholeQueue'
  BY <1>0, <1>1 DEF WholeRemote, WholeQueue
<1>5. WholeManifests'
  <2>1. NoManifest(Following(p, m))
    BY DEF NoManifest, Following, ChunkRequest
  <2> QED
    BY <1>0, <1>1, <2>1, ManifestsKept
<1> HIDE DEF t
<1>6. WholeActive' /\ GotVerified'
  <2>1. CASE active' = [active EXCEPT ![p][m.file] = t]
    <3>1. active' = [q \in Peer |-> IF q = p THEN [active[p] EXCEPT ![m.file] = t]
                                    ELSE active[q]]
      BY <1>0, <2>1 DEF TypeOK
    <3> QED
      BY <1>0, <1>2, <1>3, <3>1 DEF WholeActive, GotVerified
  <2>2. CASE active' = [active EXCEPT ![p] = Drop(m.file, @)]
    <3>1. active' = [q \in Peer |-> IF q = p THEN Drop(m.file, active[p])
                                    ELSE active[q]]
      BY <1>0, <2>2 DEF TypeOK
    <3> QED
      BY <1>0, <3>1 DEF WholeActive, GotVerified, Drop
  <2> QED
    BY <2>1, <2>2 DEF StoreChunk, FinishFile, FinishFails, t
<1>7. NoTornFile'
  <2>1. CASE StoreChunk(p, m)
    BY <1>0, <2>1 DEF StoreChunk, NoTornFile
  <2>2. CASE FinishFile(p, m)
    <3>1. /\ disk' = [disk EXCEPT ![m.file] = Assembled(t)]
          /\ torn' = Written(m.file, active[p][m.file]) /\ Complete(t)
      BY <2>2 DEF FinishFile, t
    <3>2. ~ t.raced => Assembled(t) \in Version[m.file]
      BY <1>2, <1>3, <3>1, AssembledWhole
    <3> QED
      BY <1>0, <1>2, <1>3, <3>1, <3>2 DEF NoTornFile, Written, TypeOK
  <2>3. CASE FinishFails(p, m)
    <3>1. /\ \E left : disk' = [disk EXCEPT ![m.file] = left]
          /\ torn' = torn \cup {m.file}
      BY <2>3 DEF FinishFails
    <3> QED
      BY <1>0, <1>2, <3>1 DEF NoTornFile, TypeOK
  <2> QED
    BY <2>1, <2>2, <2>3
<1> QED
  BY <1>4, <1>5, <1>6, <1>7, <1>8

\* A stall asks again and keeps what is there.
LEMMA WholeStalls ==
  ASSUME WholeInv, NEW p \in Peer, NEW f \in File, CheckStalls(p, f)
  PROVE  /\ WholeRemote' /\ WholeManifests' /\ WholeQueue'
         /\ WholeActive' /\ GotVerified' /\ NoTornFile' /\ WholeLookup'
<1> DEFINE t    == active[p][f]
           late == Smallest(Missing(t), Window)
           u    == Advance(t, t.got, Max({t.next, Max(late) + 1}))
<1>0. /\ TypeOK /\ WholeRemote /\ WholeManifests /\ WholeQueue
      /\ WholeActive /\ GotVerified /\ NoTornFile /\ WholeLookup
  BY DEF WholeInv
<1>1. /\ f \in DOMAIN active[p]
      /\ net' = Sent(p, Requests(f, t.hkey, late))
      /\ active' = [active EXCEPT ![p][f] = u]
      /\ UNCHANGED <<remote, disk, torn, queue, draft>> /\ loop = None
  BY DEF CheckStalls, Later, Idle, serverVars, diskVars
<1>2. u.hashes = t.hashes /\ u.got = t.got /\ u.raced = t.raced
  BY DEF Advance
<1>3. WholeManifests'
  <2>1. NoManifest(Requests(f, t.hkey, late))
    BY DEF NoManifest, Requests, ChunkRequest
  <2> HIDE DEF t, late, u
  <2> QED
    BY <1>0, <1>1, <2>1, ManifestsKept
<1> HIDE DEF u
<1>4. active' = [q \in Peer |-> IF q = p THEN [active[p] EXCEPT ![f] = u] ELSE active[q]]
  BY <1>0, <1>1 DEF TypeOK
<1>5. WholeActive' /\ GotVerified'
  BY <1>0, <1>1, <1>2, <1>4 DEF WholeActive, GotVerified
<1> QED
  BY <1>0, <1>1, <1>3, <1>5, LookupStaysWhole DEF WholeRemote, WholeQueue, NoTornFile, TypeOK

LEMMA WholeNext == WholeInv /\ [Next]_vars => WholeInv'
<1> SUFFICES ASSUME WholeInv, [Next]_vars
             PROVE  WholeInv'
  OBVIOUS
<1>1. TypeOK'
  BY TypeNext DEF WholeInv
<1> DEFINE Kept == /\ WholeRemote' /\ WholeManifests' /\ WholeQueue'
                   /\ WholeActive' /\ GotVerified' /\ NoTornFile' /\ WholeLookup'
<1> SUFFICES Kept
  BY <1>1 DEF WholeInv
<1>2. CASE UNCHANGED vars
  BY <1>2 DEF vars, serverVars, diskVars, keyVars, schedVars, WholeInv, WholeRemote,
     WholeManifests, WholeQueue, WholeActive, GotVerified, NoTornFile, WholeLookup, InFlight
<1>3. ASSUME NEW p \in Peer, Protocol(p)
      PROVE  Kept
  <2>1. CASE Connect(p) \/ NodeRekeys(p) \/ EndLoop(p)
    BY <2>1, WholeQuiet
  <2>2. CASE ServeManifest(p)
    BY <2>2, WholeServing
  <2>3. CASE SkipPresent(p) \/ WriteFromLocal(p) \/ LocalWriteFails(p) \/ Activate(p)
    BY <2>3, WholeLoop
  <2>9. CASE BeginLookup(p) \/ (\E g \in File : IndexFile(p, g)) \/ ReadLocal(p)
    BY <2>9, WholeLooking
  <2>4. ASSUME NEW m \in InFlight(p), ServeChunk(p, m) \/ DropChunk(p, m) \/ RetryChunk(p, m)
        PROVE  Kept
    BY <2>4, WholeQuiet
  <2>5. ASSUME NEW m \in InFlight(p), OnManifest(p, m)
        PROVE  Kept
    BY <2>5, WholeManifest
  <2>6. ASSUME NEW m \in InFlight(p), OnFileNotice(p, m)
        PROVE  Kept
    BY <2>6, WholeUsers
  <2>7. ASSUME NEW m \in InFlight(p),
               StoreChunk(p, m) \/ FinishFile(p, m) \/ FinishFails(p, m)
        PROVE  Kept
    BY <2>7, WholeChunk
  <2>8. ASSUME NEW f \in File, CheckStalls(p, f)
        PROVE  Kept
    BY <2>8, WholeStalls
  <2> QED
    BY <1>3, <2>1, <2>2, <2>3, <2>4, <2>5, <2>6, <2>7, <2>8, <2>9
       DEF Protocol, LoopStep, OnChunk
<1>4. ASSUME NEW p \in Peer, Environment(p)
      PROVE  Kept
  BY <1>4, WholeQuiet, WholeUsers DEF Environment
<1>5. CASE \E f \in File : LocalEdit(f)
  BY <1>5, WholeUsers
<1>6. CASE Restart
  <2>1. ASSUME NEW p \in Peer
        PROVE  Kept
    BY <1>6, WholeQuiet
  <2>2. CASE Peer = {}
    BY <1>6, <2>2 DEF Restart, diskVars, WholeInv, WholeRemote, WholeManifests,
       WholeQueue, WholeActive, GotVerified, NoTornFile, WholeLookup
  <2> QED
    BY <2>1, <2>2
<1> QED
  BY <1>2, <1>3, <1>4, <1>5, <1>6 DEF Next

\* No file on disk is a mixture of versions or a part of one, unless a write
\* of it failed half way or used a chunk whose source was saved between its
\* hashing and its reading: the invariant NoTornFile.
THEOREM NoTornFileHolds == Spec => []NoTornFile
<1>1. WholeInv => NoTornFile
  BY DEF WholeInv
<1> QED
  BY WholeInit, WholeNext, <1>1, PTL DEF Spec

\* Every chunk a transfer holds is the one its manifest named, unless such a
\* save raced the reading of its local chunks: GotVerified.
THEOREM GotVerifiedHolds == Spec => []GotVerified
<1>1. WholeInv => GotVerified
  BY DEF WholeInv
<1> QED
  BY WholeInit, WholeNext, <1>1, PTL DEF Spec

=============================================================================
