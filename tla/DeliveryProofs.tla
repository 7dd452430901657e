--------------------------- MODULE DeliveryProofs ---------------------------
(***************************************************************************)
(* The download scheduler implements FileDelivery, for every set of peers, *)
(* files, chunks and keys and every bound: every step of Download is a     *)
(* step of FileDelivery under the mapping of module DeliveryMapping.       *)
(***************************************************************************)
EXTENDS DeliveryMapping, SlotProofs

\* What of a step of Download shows in FileDelivery besides the folder.
LessUnderway ==
    \A p \in Peer, f \in File :
        /\ InManifests(p, f)' \cup InQueue(p, f)' \cup InTransfer(p, f)'
             \subseteq InManifests(p, f) \cup InQueue(p, f) \cup InTransfer(p, f)

SameNotices == Notices' = Notices

\* A step that sends, or takes and sends, leaves the other messages where they are.
LEMMA ChannelKeeps ==
  ASSUME TypeOK, NEW p \in Peer, NEW S, NEW x, net' = Handled(p, x, S)
  PROVE  /\ \A q \in Peer : q # p => InFlight(q)' = InFlight(q)
         /\ InFlight(p)' \subseteq InFlight(p) \cup S
         /\ InFlight(p) \ {x} \subseteq InFlight(p)'
         /\ S \subseteq InFlight(p)'
<1> DEFINE b == net[p] (-) SetToBag({x})
<1>1. net = [q \in Peer |-> net[q]] /\ IsABag(net[p])
  BY DEF TypeOK, IsChannel
<1>2. net' = [q \in Peer |-> IF q = p THEN b (+) SetToBag(S) ELSE net[q]]
  BY <1>1 DEF Handled
<1>3. BagToSet(b (+) SetToBag(S)) = BagToSet(b) \cup S
  BY DEF BagToSet, SetToBag, (+)
<1>4. BagToSet(b) \subseteq BagToSet(net[p])
  BY DEF BagToSet, SetToBag, (-)
<1>5. BagToSet(net[p]) \ {x} \subseteq BagToSet(b)
  BY <1>1 DEF IsABag, BagToSet, SetToBag, (-)
<1> HIDE DEF b
<1> QED
  BY <1>2, <1>3, <1>4, <1>5 DEF InFlight

LEMMA ChannelAdds ==
  ASSUME TypeOK, NEW p \in Peer, NEW S, net' = Sent(p, S)
  PROVE  \A q \in Peer : InFlight(q)' = InFlight(q) \cup (IF q = p THEN S ELSE {})
<1>1. net = [q \in Peer |-> net[q]]
  BY DEF TypeOK
<1>2. net' = [q \in Peer |-> IF q = p THEN net[p] (+) SetToBag(S) ELSE net[q]]
  BY <1>1 DEF Sent
<1>3. BagToSet(net[p] (+) SetToBag(S)) = BagToSet(net[p]) \cup S
  BY DEF BagToSet, SetToBag, (+)
<1> QED
  BY <1>2, <1>3 DEF InFlight

\* Messages that are neither manifests nor notices.
Plain(S) == \A m \in S : m.type \notin {"Manifest", "FileChanged", "FileDeleted"}

\* Exchanging such messages changes neither what manifests name nor notices.
LEMMA PlainStep ==
  ASSUME TypeOK, NEW p \in Peer, NEW S, NEW x, Plain(S), Plain({x}),
         net' \in {net, Sent(p, S), Handled(p, x, S)}
  PROVE  /\ \A q \in Peer, f \in File : InManifests(q, f)' = InManifests(q, f)
         /\ SameNotices
<1>1. ASSUME NEW q \in Peer
      PROVE  /\ InFlight(q)' \subseteq InFlight(q) \cup S
             /\ InFlight(q) \ {x} \subseteq InFlight(q)'
  <2>1. CASE net' = net
    BY <2>1 DEF InFlight
  <2>2. CASE net' = Sent(p, S)
    BY <2>2, ChannelAdds
  <2>3. CASE net' = Handled(p, x, S)
    BY <2>3, ChannelKeeps
  <2> QED
    BY <2>1, <2>2, <2>3
<1>2. ASSUME NEW q \in Peer, NEW m,
             m.type \in {"Manifest", "FileChanged", "FileDeleted"}
      PROVE  m \in InFlight(q)' <=> m \in InFlight(q)
  BY <1>1, <1>2 DEF Plain
<1> QED
  BY <1>2 DEF InManifests, SameNotices, Notices

\* Nothing is added to a queue or a set of transfers.
LEMMA SameSchedule ==
  ASSUME UNCHANGED <<active, queue>>
  PROVE  \A q \in Peer, f \in File :
            InQueue(q, f)' = InQueue(q, f) /\ InTransfer(q, f)' = InTransfer(q, f)
BY DEF InQueue, InTransfer

-----------------------------------------------------------------------------
(* The steps, one kind of abstract step after the other.                    *)

\* The abstract conditions, in terms of the above.
LEMMA Abstract ==
  ASSUME LessUnderway
  PROVE  \A p \in Peer : Delivery!Shrinks(Underway[p], Underway'[p])
BY DEF LessUnderway, Delivery!Shrinks, Underway

LEMMA GivesUp ==
  ASSUME LessUnderway, Notices' \subseteq Notices, Doubtful' \subseteq Doubtful,
         UNCHANGED <<remote, disk, torn>>
  PROVE  Delivery!GiveUp
BY Abstract DEF Delivery!GiveUp

\* Nothing becomes doubtful when no transfer becomes raced and the lookup ends,
\* stays what it is, or goes on as raced as it was.
LEMMA DoubtLess ==
  ASSUME TypeOK,
         \A q \in Peer : \A f \in DOMAIN active'[q] :
            active'[q][f].raced => f \in DOMAIN active[q] /\ active[q][f].raced,
         \/ draft' = None
         \/ loop = None /\ draft' = draft
         \/ UNCHANGED <<queue, loop>> /\ (draft' # None /\ draft'.raced
                                           => draft # None /\ draft.raced)
  PROVE  Doubtful' \subseteq Doubtful
<1>1. loop = None => draft = None
  BY DEF TypeOK, LookupOK
<1>2. ASSUME NEW q \in Peer, NEW f \in File,
             f \in DOMAIN active'[q], active'[q][f].raced
      PROVE  <<q, f>> \in Doubtful
  BY <1>2 DEF Doubtful
<1>3. ASSUME NEW q \in Peer, NEW f \in File, draft' # None, draft'.raced,
             loop' = q, Head(queue'[loop']).file = f
      PROVE  <<q, f>> \in Doubtful
  <2>1. UNCHANGED <<queue, loop>> /\ draft # None /\ draft.raced
    BY <1>1, <1>3
  <2> QED
    BY <1>3, <2>1 DEF Doubtful
<1> QED
  BY <1>2, <1>3 DEF Doubtful

LEMMA DoubtSame == UNCHANGED <<active, queue, loop, draft>> => Doubtful' = Doubtful
BY DEF Doubtful

\* Of a file that is written from a transfer, what is doubtful is that transfer;
\* of one that is written from the folder, its lookup.
LEMMA DoubtOf ==
  ASSUME SlotInv, NEW p \in Peer
  PROVE  /\ \A f \in DOMAIN active[p] :
              Idle => (<<p, f>> \in Doubtful <=> active[p][f].raced)
         /\ LookedUp(p) =>
              (<<p, Head(queue[p]).file>> \in Doubtful <=> draft.raced)
<1>1. TypeOK /\ NoDuplicateTransfer
  BY DEF SlotInv
<1>2. Idle => draft = None
  BY <1>1 DEF TypeOK, LookupOK, Idle
<1>3. DOMAIN active[p] \subseteq File
  BY <1>1 DEF TypeOK, IsTransferMap
<1>4. ASSUME LookedUp(p)
      PROVE  /\ loop = p /\ draft # None /\ Head(queue[p]).file \in File
             /\ Head(queue[p]).file \notin DOMAIN active[p]
  <2>1. loop = p /\ draft # None /\ queue[p] # <<>>
    BY <1>4 DEF LookedUp, MayStart
  <2>2. queue[p] \in Seq(PendingType) /\ Head(queue[p]) \in PendingType
    BY <1>1, <2>1, HeadOfQueue DEF TypeOK
  <2>3. Head(queue[p]).file \in Waiting(p)
    BY <2>1, <2>2 DEF Waiting
  <2> QED
    BY <1>1, <2>1, <2>2, <2>3 DEF NoDuplicateTransfer, PendingType
<1> QED
  BY <1>2, <1>3, <1>4 DEF Doubtful

LEMMA InitDelivers == Init => Delivery!Init
<1> SUFFICES ASSUME Init PROVE Delivery!Init
  OBVIOUS
<1>1. \A p \in Peer : InFlight(p) = {}
  BY EmptyChannel DEF Init, InFlight
<1>2. \A p \in Peer, f \in File :
         InManifests(p, f) = {} /\ InQueue(p, f) = {} /\ InTransfer(p, f) = {}
  BY <1>1 DEF Init, InManifests, InQueue, InTransfer
<1>3. Underway = [p \in Peer |-> [f \in File |-> {}]]
  BY <1>2 DEF Underway
<1>4. Notices = {}
  BY <1>1 DEF Notices
<1>5. Doubtful = {}
  BY DEF Init, Doubtful
<1> QED
  BY <1>3, <1>4, <1>5 DEF Init, Delivery!Init, Content, Delivery!Content

\* Connections, losses, new keys and chunks that are not kept.
LEMMA QuietDelivers ==
  ASSUME TypeOK, NEW p \in Peer,
         \/ Connect(p) \/ RequestSync(p)
         \/ (\E r \in InFlight(p) : ServeChunk(p, r)) \/ EndLoop(p)
         \/ (\E m \in InFlight(p) : DropChunk(p, m) \/ RetryChunk(p, m))
         \/ (\E k \in Key : PeerRekeys(p, k)) \/ NodeRekeys(p)
         \/ BeginLookup(p) \/ (\E g \in File : IndexFile(p, g)) \/ ReadLocal(p)
  PROVE  Delivery!GiveUp
<1> USE DEF vars, serverVars, diskVars, keyVars, schedVars
<1>1. UNCHANGED <<remote, disk, torn, active, queue>>
  BY DEF Connect, RequestSync, ServeChunk, EndLoop, DropChunk, RetryChunk,
         PeerRekeys, NodeRekeys, BeginLookup, IndexFile, ReadLocal
<1>2. \E S, x : /\ Plain(S) /\ Plain({x})
                /\ net' \in {net, Sent(p, S), Handled(p, x, S)}
  <2>1. CASE Connect(p) \/ RequestSync(p)
    <3>1. Plain({ManifestRequest})
      BY DEF Plain, ManifestRequest
    <3>2. net' = Sent(p, {ManifestRequest})
      BY <2>1 DEF Connect, RequestSync
    <3> QED
      BY <3>1, <3>2
  <2>2. ASSUME NEW r \in InFlight(p), ServeChunk(p, r)
        PROVE  \E S, x : /\ Plain(S) /\ Plain({x})
                         /\ net' \in {net, Sent(p, S), Handled(p, x, S)}
    <3> DEFINE c == ChunkResponse(r, txKey[p], remote[p][r.file][r.idx])
    <3>1. net' \in {Handled(p, r, {c}), Handled(p, r, {})}
      BY <2>2 DEF ServeChunk
    <3>2. Plain({c}) /\ Plain({}) /\ Plain({r})
      BY <2>2 DEF Plain, ChunkResponse, ServeChunk
    <3> HIDE DEF c
    <3> QED
      BY <3>1, <3>2
  <2>3. ASSUME NEW m \in InFlight(p), DropChunk(p, m) \/ RetryChunk(p, m)
        PROVE  \E S, x : /\ Plain(S) /\ Plain({x})
                         /\ net' \in {net, Sent(p, S), Handled(p, x, S)}
    <3> DEFINE c == ChunkRequest(m.key, m.file, m.idx)
    <3>1. net' \in {Handled(p, m, {c}), Handled(p, m, {})}
      BY <2>3 DEF DropChunk, RetryChunk
    <3>2. Plain({c}) /\ Plain({}) /\ Plain({m})
      BY <2>3 DEF Plain, ChunkRequest, DropChunk, RetryChunk, Arrived
    <3> HIDE DEF c
    <3> QED
      BY <3>1, <3>2
  <2>4. EndLoop(p) \/ (\E k \in Key : PeerRekeys(p, k)) \/ NodeRekeys(p) => net' = net
    BY DEF EndLoop, PeerRekeys, NodeRekeys
  <2>6. BeginLookup(p) \/ (\E g \in File : IndexFile(p, g)) \/ ReadLocal(p) => net' = net
    BY DEF BeginLookup, IndexFile, ReadLocal
  <2>5. Plain({}) /\ Plain({ManifestRequest})
    BY DEF Plain, ManifestRequest
  <2> QED
    BY <2>1, <2>2, <2>3, <2>4, <2>5, <2>6
<1>3. SameNotices /\ \A q \in Peer, f \in File : InManifests(q, f)' = InManifests(q, f)
  BY <1>2, PlainStep
<1>4. LessUnderway
  BY <1>1, <1>3, SameSchedule DEF LessUnderway
<1>5. Doubtful' \subseteq Doubtful
  <2>1. CASE UNCHANGED <<loop, draft>>
    BY <1>1, <2>1, DoubtSame
  <2>2. CASE EndLoop(p)
    <3>1. draft = None /\ draft' = None
      BY <2>2, NamesAssumption DEF EndLoop, TypeOK, LookupOK
    <3> QED
      BY <1>1, <3>1, DoubtLess
  <2>3. CASE BeginLookup(p)
    <3>1. /\ draft' = Fresh(Head(queue[p])) /\ draft'.raced = FALSE
          /\ UNCHANGED <<queue, loop>>
      BY <2>3 DEF BeginLookup, Fresh
    <3> QED
      BY <1>1, <3>1, DoubtLess
  <2>4. CASE (\E g \in File : IndexFile(p, g)) \/ ReadLocal(p)
    <3>1. draft # None /\ draft'.raced = draft.raced /\ UNCHANGED <<queue, loop>>
      BY <2>4, IndexedType, ReadType DEF IndexFile, ReadLocal
    <3> QED
      BY <1>1, <3>1, DoubtLess
  <2>5. \/ UNCHANGED <<loop, draft>> \/ EndLoop(p) \/ BeginLookup(p)
        \/ (\E g \in File : IndexFile(p, g)) \/ ReadLocal(p)
    BY DEF Connect, RequestSync, ServeChunk, DropChunk, RetryChunk, PeerRekeys, NodeRekeys
  <2> QED
    BY <2>1, <2>2, <2>3, <2>4, <2>5
<1> QED
  BY <1>1, <1>3, <1>4, <1>5, GivesUp DEF SameNotices

\* Messages get lost, a connection ends, the process dies.
LEMMA LossDelivers ==
  ASSUME TypeOK, Restart \/ \E p \in Peer : Disconnect(p) \/ Lose(p)
  PROVE  Delivery!GiveUp
<1> USE DEF serverVars, diskVars, keyVars, schedVars
<1>1. UNCHANGED <<remote, disk, torn>>
  BY DEF Restart, Disconnect, Lose
<1>2. \A q \in Peer : InFlight(q)' \subseteq InFlight(q)
  <2>1. CASE Restart
    BY <2>1, EmptyChannel DEF Restart, InFlight
  <2>2. ASSUME NEW p \in Peer, Disconnect(p)
        PROVE  \A q \in Peer : InFlight(q)' \subseteq InFlight(q)
    BY <2>2, EmptyChannel DEF Disconnect, InFlight, TypeOK
  <2>3. ASSUME NEW p \in Peer, NEW m \in InFlight(p), net' = Handled(p, m, {})
        PROVE  \A q \in Peer : InFlight(q)' \subseteq InFlight(q)
    BY <2>3, ChannelKeeps
  <2> QED
    BY <2>1, <2>2, <2>3 DEF Lose
<1>3. \A q \in Peer, f \in File :
         InQueue(q, f)' \subseteq InQueue(q, f) /\ InTransfer(q, f)' \subseteq InTransfer(q, f)
  <2>1. CASE UNCHANGED <<active, queue>>
    BY <2>1, SameSchedule
  <2>2. CASE Restart
    BY <2>2 DEF Restart, InQueue, InTransfer
  <2>3. ASSUME NEW p \in Peer, Disconnect(p)
        PROVE  \A q \in Peer, f \in File :
                  /\ InQueue(q, f)' \subseteq InQueue(q, f)
                  /\ InTransfer(q, f)' \subseteq InTransfer(q, f)
    BY <2>3 DEF Disconnect, InQueue, InTransfer, TypeOK
  <2> QED
    BY <2>1, <2>2, <2>3 DEF Lose
<1>4. LessUnderway /\ Notices' \subseteq Notices
  BY <1>2, <1>3 DEF LessUnderway, InManifests, Notices
<1>5. Doubtful' \subseteq Doubtful
  <2>1. CASE UNCHANGED <<active, queue, loop, draft>>
    BY <2>1, DoubtSame
  <2>2. CASE Restart
    BY <2>2, NoTransfers, DoubtLess DEF Restart
  <2>3. ASSUME NEW p \in Peer, Disconnect(p)
        PROVE  Doubtful' \subseteq Doubtful
    <3>1. /\ \A q \in Peer : active'[q] = IF q = p THEN <<>> ELSE active[q]
          /\ loop = None /\ draft' = draft
      BY <2>3 DEF Disconnect, Idle, TypeOK
    <3> QED
      BY <3>1, NoTransfers, DoubtLess
  <2> QED
    BY <2>1, <2>2, <2>3 DEF Lose
<1> QED
  BY <1>1, <1>4, <1>5, GivesUp

-----------------------------------------------------------------------------
(* The peers.                                                               *)

LEMMA PublishDelivers ==
  ASSUME TypeOK, NEW p \in Peer, ServeManifest(p)
  PROVE  Delivery!Publish(p)
<1> USE DEF serverVars, diskVars, keyVars, schedVars
<1> DEFINE k == IF EncryptedProtocol THEN txKey[p] ELSE None
           M == Manifest(k, Restrict(remote[p], Shared(p)))
           S == IF Shared(p) = {} THEN {} ELSE {M}
<1>1. /\ net' = Handled(p, ManifestRequest, S)
      /\ UNCHANGED <<remote, disk, torn, active, queue>>
  BY DEF ServeManifest
<1>2. /\ M.type = "Manifest" /\ DOMAIN M.files = Shared(p)
      /\ \A f \in Shared(p) : M.files[f] = remote[p][f]
      /\ ManifestRequest.type = "ManifestRequest"
  BY DEF Manifest, Restrict, ManifestRequest
<1>3. Shared(p) = {f \in File : remote[p][f] # Absent}
  BY DEF Shared
<1> HIDE DEF M
<1>4. \A m \in S : m = M
  OBVIOUS
<1>5. Shared(p) # {} => M \in S
  OBVIOUS
<1> HIDE DEF S
<1>6. /\ \A q \in Peer : q # p => InFlight(q)' = InFlight(q)
      /\ InFlight(p)' \subseteq InFlight(p) \cup S
      /\ InFlight(p) \ {ManifestRequest} \subseteq InFlight(p)'
      /\ S \subseteq InFlight(p)'
  BY <1>1, ChannelKeeps
<1>7. SameNotices
  <2>1. ASSUME NEW q \in Peer, NEW m, m.type \in {"FileChanged", "FileDeleted"}
        PROVE  m \in InFlight(q)' <=> m \in InFlight(q)
    BY <1>2, <1>4, <1>6, <2>1
  <2> QED
    BY <2>1 DEF SameNotices, Notices
<1>8. \A q \in Peer, f \in File : q # p => InManifests(q, f)' = InManifests(q, f)
  BY <1>6 DEF InManifests
<1>9. ASSUME NEW f \in File
      PROVE  InManifests(p, f)' = InManifests(p, f) \cup ({remote[p][f]} \ {Absent})
  <2>1. ASSUME NEW c \in InManifests(p, f)'
        PROVE  c \in InManifests(p, f) \/ (remote[p][f] # Absent /\ c = remote[p][f])
    <3>1. PICK m \in InFlight(p)' : m.type = "Manifest" /\ f \in DOMAIN m.files /\ c = m.files[f]
      BY DEF InManifests
    <3>2. m \in InFlight(p) \/ m = M
      BY <1>4, <1>6
    <3> QED
      BY <1>2, <1>3, <3>1, <3>2 DEF InManifests
  <2>2. ASSUME NEW c \in InManifests(p, f)
        PROVE  c \in InManifests(p, f)'
    <3>1. PICK m \in InFlight(p) : m.type = "Manifest" /\ f \in DOMAIN m.files /\ c = m.files[f]
      BY DEF InManifests
    <3>2. m \in InFlight(p)'
      BY <1>2, <1>6, <3>1
    <3> QED
      BY <3>1, <3>2 DEF InManifests
  <2>3. remote[p][f] # Absent => remote[p][f] \in InManifests(p, f)'
    <3> SUFFICES ASSUME remote[p][f] # Absent
                 PROVE  remote[p][f] \in InManifests(p, f)'
      OBVIOUS
    <3>1. f \in Shared(p)
      BY <1>3
    <3>2. M \in InFlight(p)'
      BY <1>5, <1>6, <3>1
    <3> QED
      BY <1>2, <3>1, <3>2 DEF InManifests
  <2> QED
    BY <2>1, <2>2, <2>3
<1>10. \A q \in Peer, f \in File :
          InQueue(q, f)' = InQueue(q, f) /\ InTransfer(q, f)' = InTransfer(q, f)
  BY <1>1, SameSchedule
<1>11. Underway' = [Underway EXCEPT ![p] =
                      [f \in File |-> Underway[p][f] \cup ({remote[p][f]} \ {Absent})]]
  <2> DEFINE U(q, f) == InManifests(q, f) \cup InQueue(q, f) \cup InTransfer(q, f)
             V(q, f) == IF q = p THEN U(p, f) \cup ({remote[p][f]} \ {Absent}) ELSE U(q, f)
  <2>1. ASSUME NEW q \in Peer, NEW f \in File
        PROVE  U(q, f)' = V(q, f)
    BY <1>8, <1>9, <1>10
  <2>2. /\ Underway = [q \in Peer |-> [f \in File |-> U(q, f)]]
        /\ Underway' = [q \in Peer |-> [f \in File |-> U(q, f)']]
    BY DEF Underway
  <2> HIDE DEF U
  <2>3. Underway' = [q \in Peer |-> [f \in File |-> V(q, f)]]
    BY <2>1, <2>2
  <2>4. \A f \in File : Underway[p][f] = U(p, f)
    BY <2>2
  <2> QED
    BY <2>2, <2>3, <2>4
<1> QED
  BY <1>1, <1>7, <1>11, DoubtSame DEF Delivery!Publish, SameNotices, ServeManifest

\* A user of a peer edits, and the watcher of the peer may give notice.
LEMMA PeerEditDelivers ==
  ASSUME TypeOK, NEW p \in Peer, NEW f \in File, RemoteEdit(p, f)
  PROVE  Delivery!PeerEdits(p, f)
<1> USE DEF serverVars, diskVars, keyVars, schedVars
<1>1. PICK c \in Version[f] \cup {Absent} :
         /\ remote' = [remote EXCEPT ![p][f] = c]
         /\ \/ net' = net
            \/ net' = Sent(p, {FileNotice(IF c = Absent THEN "FileDeleted"
                                          ELSE "FileChanged", f)})
  BY DEF RemoteEdit
<1>2. UNCHANGED <<disk, torn, active, queue>>
  BY DEF RemoteEdit
<1>3. /\ \A q \in Peer, g \in File : InManifests(q, g)' = InManifests(q, g)
      /\ Notices' \in {Notices, Notices \cup {<<p, f>>}}
  <2>1. CASE net' = net
    BY <2>1 DEF InManifests, Notices, InFlight
  <2>2. ASSUME NEW t \in {"FileChanged", "FileDeleted"}, net' = Sent(p, {FileNotice(t, f)})
        PROVE  /\ \A q \in Peer, g \in File : InManifests(q, g)' = InManifests(q, g)
               /\ Notices' = Notices \cup {<<p, f>>}
    <3> DEFINE n == FileNotice(t, f)
    <3>1. n.type = t /\ n.file = f
      BY DEF FileNotice
    <3> HIDE DEF n
    <3>2. \A q \in Peer : InFlight(q)' = InFlight(q) \cup (IF q = p THEN {n} ELSE {})
      BY <2>2, ChannelAdds DEF n
    <3>3. \A q \in Peer, g \in File : InManifests(q, g)' = InManifests(q, g)
      BY <3>1, <3>2 DEF InManifests
    <3>4. Notices' = Notices \cup {<<p, f>>}
      BY <3>1, <3>2 DEF Notices
    <3> QED
      BY <3>3, <3>4
  <2> QED
    BY <1>1, <2>1, <2>2
<1>4. Underway' = Underway
  BY <1>2, <1>3, SameSchedule DEF Underway
<1> QED
  BY <1>1, <1>2, <1>3, <1>4, DoubtSame DEF Delivery!PeerEdits, RemoteEdit

\* The notice arrives.
LEMMA NoticeDelivers ==
  ASSUME TypeOK, NEW p \in Peer, NEW m, OnFileNotice(p, m)
  PROVE  \E f \in File : Delivery!TakeAway(p, f)
<1> USE DEF serverVars, diskVars, keyVars, schedVars
<1>1. /\ m \in InFlight(p) /\ m.type \in {"FileChanged", "FileDeleted"}
      /\ disk' = [disk EXCEPT ![m.file] = Absent] /\ torn' = torn \ {m.file}
      /\ UNCHANGED <<remote, active, queue>>
  BY DEF OnFileNotice
<1>2. m.file \in File
  <2>1. IsMessage(m)
    BY <1>1 DEF TypeOK, IsChannel, InFlight
  <2> QED
    BY <1>1, <2>1 DEF IsMessage, ManifestRequest
<1>3. PICK S \in {{ManifestRequest}, {}} : net' = Handled(p, m, S)
  BY DEF OnFileNotice
<1>4. Plain(S)
  BY DEF Plain, ManifestRequest
<1>5. /\ \A q \in Peer : q # p => InFlight(q)' = InFlight(q)
      /\ InFlight(p)' \subseteq InFlight(p) \cup S
      /\ InFlight(p) \ {m} \subseteq InFlight(p)'
  BY <1>3, ChannelKeeps
<1>6. \A q \in Peer, f \in File : InManifests(q, f)' = InManifests(q, f)
  <2>1. ASSUME NEW q \in Peer, NEW x, x.type = "Manifest"
        PROVE  x \in InFlight(q)' <=> x \in InFlight(q)
    BY <1>1, <1>4, <1>5, <2>1 DEF Plain
  <2> QED
    BY <2>1 DEF InManifests
<1>7. <<p, m.file>> \in Notices
  BY <1>1, <1>2 DEF Notices
<1>8. Notices' \in {Notices, Notices \ {<<p, m.file>>}}
  <2>1. ASSUME NEW x \in Notices'
        PROVE  x \in Notices
    BY <1>4, <1>5 DEF Notices, Plain
  <2>2. ASSUME NEW x \in Notices, x # <<p, m.file>>
        PROVE  x \in Notices'
    <3>1. PICK y \in InFlight(x[1]) :
             y.type \in {"FileChanged", "FileDeleted"} /\ y.file = x[2]
      BY DEF Notices
    <3>2. x[1] # p \/ x[2] # m.file
      BY <2>2 DEF Notices
    <3>3. y \in InFlight(x[1])'
      BY <1>5, <3>1, <3>2 DEF Notices
    <3> QED
      BY <3>1, <3>3 DEF Notices
  <2> QED
    BY <2>1, <2>2
<1>9. Underway' = Underway
  BY <1>1, <1>6, SameSchedule DEF Underway
<1> QED
  BY <1>1, <1>2, <1>7, <1>8, <1>9, DoubtSame DEF Delivery!TakeAway, OnFileNotice

\* A save makes at most the file doubtful whose lookup found chunks in what it
\* replaces, and that file waits.
LEMMA UserDelivers ==
  ASSUME TypeOK, NEW f \in File, LocalEdit(f)
  PROVE  Delivery!UserEdits(f)
<1>1. UNCHANGED <<remote, net, active, queue>>
  BY DEF LocalEdit, serverVars
<1>2. Underway' = Underway /\ Notices' = Notices
  BY <1>1 DEF Underway, Notices, InManifests, InQueue, InTransfer, InFlight
<1>3. ASSUME NEW x \in Doubtful' \ Doubtful
      PROVE  Underway[x[1]][x[2]] # {}
  <2>1. /\ loop' = loop /\ draft' # None /\ loop = x[1] /\ Head(queue[loop]).file = x[2]
        /\ x[1] \in Peer /\ x[2] \in File
    BY <1>1 DEF Doubtful, LocalEdit
  <2>2. draft # None
    BY <2>1 DEF LocalEdit, ToBeRead
  <2>3. queue[x[1]] \in Seq(PendingType) /\ queue[x[1]] # <<>>
    BY <2>1, <2>2 DEF TypeOK, LookupOK, MayStart
  <2>4. 1 \in DOMAIN queue[x[1]] /\ queue[x[1]][1].file = x[2]
    BY <2>1, <2>3
  <2>5. queue[x[1]][1].hashes \in InQueue(x[1], x[2])
    BY <2>4 DEF InQueue
  <2> QED
    BY <2>1, <2>5 DEF Underway
<1> QED
  BY <1>1, <1>2, <1>3 DEF LocalEdit, Delivery!UserEdits

-----------------------------------------------------------------------------
(* The node.                                                                *)

\* The files that join the queue are those of the manifest that leaves.
LEMMA ManifestDelivers ==
  ASSUME TypeOK, NEW p \in Peer, NEW m, OnManifest(p, m)
  PROVE  Delivery!GiveUp
<1> USE DEF serverVars, diskVars, keyVars, schedVars
<1>1. /\ m \in InFlight(p) /\ m.type = "Manifest" /\ net' = Handled(p, m, {})
      /\ UNCHANGED <<remote, disk, torn, active>>
  BY DEF OnManifest
<1>2. /\ \A q \in Peer : InFlight(q)' \subseteq InFlight(q)
      /\ \A q \in Peer : InFlight(q) \ {m} \subseteq InFlight(q)'
  BY <1>1, ChannelKeeps
<1>3. \A q \in Peer, f \in File :
         /\ InManifests(q, f)' \subseteq InManifests(q, f)
         /\ InTransfer(q, f)' = InTransfer(q, f)
  BY <1>1, <1>2 DEF InManifests, InTransfer
<1>4. Notices' = Notices
  BY <1>1, <1>2 DEF Notices
<1>5. ASSUME NEW q \in Peer, NEW f \in File
      PROVE  InQueue(q, f)' \subseteq InQueue(q, f) \cup InManifests(q, f)
  <2>1. CASE queue' = queue
    BY <2>1 DEF InQueue
  <2>2. ASSUME NEW order \in SetToSeqs(Wanted(p, m.files)),
               queue' = [queue EXCEPT ![p] = @ \o
                           [n \in DOMAIN order |->
                              Pending(order[n], m.files[order[n]], m.key)]]
        PROVE  InQueue(q, f)' \subseteq InQueue(q, f) \cup InManifests(q, f)
    <3> DEFINE join == [i \in DOMAIN order |->
                          Pending(order[i], m.files[order[i]], m.key)]
    <3>1. IsMessage(m)
      BY <1>1 DEF TypeOK, IsChannel, InFlight
    <3>2. DOMAIN m.files \subseteq File
          /\ m.files \in [DOMAIN m.files -> Seq(Data)] /\ m.key \in Key \cup {None}
      BY <1>1, <3>1 DEF IsMessage, ManifestRequest
    <3>3. Wanted(p, m.files) \subseteq File /\ Wanted(p, m.files) \subseteq DOMAIN m.files
      BY <3>2 DEF Wanted
    <3>4. join \in Seq(PendingType)
      <4> DEFINE n == Cardinality(Wanted(p, m.files))
      <4>1. n \in Nat /\ order \in [1 .. n -> Wanted(p, m.files)]
        BY <3>3, FileAssumption, FS_Subset, FS_CardinalityType DEF SetToSeqs
      <4>2. \A i \in 1 .. n : Pending(order[i], m.files[order[i]], m.key) \in PendingType
        BY <3>2, <3>3, <4>1 DEF Pending, PendingType
      <4>3. join \in [1 .. n -> PendingType]
        BY <4>1, <4>2
      <4> QED
        BY <4>1, <4>3
    <3>5. DOMAIN join = DOMAIN order /\ \A i \in DOMAIN order : order[i] \in DOMAIN m.files
      <4>1. order \in [1 .. Cardinality(Wanted(p, m.files)) -> Wanted(p, m.files)]
        BY DEF SetToSeqs
      <4> QED
        BY <3>3, <4>1
    <3>6. ASSUME NEW i \in DOMAIN join, join[i].file = f
          PROVE  join[i].hashes \in InManifests(p, f)
      <4>1. join[i].file = order[i] /\ join[i].hashes = m.files[order[i]]
        BY <3>5 DEF Pending
      <4> QED
        BY <1>1, <3>5, <3>6, <4>1 DEF InManifests
    <3>7. queue' = [queue EXCEPT ![p] = queue[p] \o join] /\ queue[p] \in Seq(PendingType)
      BY <2>2 DEF TypeOK
    <3> HIDE DEF join
    <3>8. \A i \in DOMAIN (queue[p] \o join) :
             \/ i \in DOMAIN queue[p] /\ (queue[p] \o join)[i] = queue[p][i]
             \/ \E j \in DOMAIN join : (queue[p] \o join)[i] = join[j]
      BY <3>4, <3>7
    <3>9. queue' = [r \in Peer |-> IF r = p THEN queue[p] \o join ELSE queue[r]]
      BY <3>7 DEF TypeOK
    <3> QED
      BY <3>6, <3>8, <3>9 DEF InQueue
  <2> QED
    BY <2>1, <2>2 DEF OnManifest
<1>6. LessUnderway
  BY <1>3, <1>5 DEF LessUnderway
<1>7. Doubtful' \subseteq Doubtful
  BY <1>1, DoubtLess DEF OnManifest, Idle
<1> QED
  BY <1>1, <1>4, <1>6, <1>7, GivesUp

\* What a complete transfer writes is what FileDelivery lets be written.
LEMMA WrittenAs ==
  ASSUME NEW p \in Peer, NEW f \in File, NEW t, IsTransfer(t), Complete(t),
         t.hashes \in Underway[p][f], DOMAIN t.got \subseteq DOMAIN t.hashes,
         \/ <<p, f>> \in Doubtful
         \/ \A i \in DOMAIN t.got : i \in DOMAIN t.hashes /\ t.got[i] = t.hashes[i]
  PROVE  /\ Assembled(t) \in Delivery!Written(p, f)
         /\ Len(Assembled(t)) = Total(t.hashes)
<1>1. /\ DOMAIN t.got = 1 .. Total(t.hashes) /\ Assembled(t) \in Seq(Data)
      /\ Len(Assembled(t)) = Total(t.hashes)
  BY AssembledType
<1>2. DOMAIN t.hashes = 1 .. Total(t.hashes)
  BY <1>1, TotalType DEF IsTransfer
<1>3. Assembled(t) \in [DOMAIN t.hashes -> Data]
  <2>1. t.got \in [1 .. Total(t.hashes) -> Data]
    BY <1>1 DEF IsTransfer
  <2> QED
    BY <1>2, <2>1 DEF Assembled
<1>4. CASE <<p, f>> \in Doubtful
  BY <1>1, <1>3, <1>4 DEF Delivery!Written
<1>5. CASE \A i \in DOMAIN t.got : i \in DOMAIN t.hashes /\ t.got[i] = t.hashes[i]
  <2>1. Assembled(t) = t.hashes
    BY <1>5, AssembledWhole
  <2> QED
    BY <1>1, <2>1 DEF Delivery!Written
<1> QED
  BY <1>4, <1>5

\* The loop takes the first of the queue: it is there, is written, or becomes a
\* transfer of the same version.
LEMMA LoopDelivers ==
  ASSUME WholeInv, SlotInv, NEW p \in Peer,
         SkipPresent(p) \/ WriteFromLocal(p) \/ LocalWriteFails(p) \/ Activate(p)
  PROVE  Delivery!GiveUp \/ \E f \in File : Delivery!Deliver(p, f) \/ Delivery!Break(p, f)
<1> USE DEF serverVars, diskVars, keyVars, schedVars
<1> DEFINE pf == Head(queue[p])
<1>0. TypeOK
  BY DEF WholeInv
<1>1. /\ queue[p] # <<>> /\ queue' = [queue EXCEPT ![p] = Tail(@)]
      /\ UNCHANGED <<remote, loop>> /\ draft' = None
  BY DEF SkipPresent, WriteFromLocal, LocalWriteFails, Activate, LookedUp, MayStart
<1>2. queue[p] \in Seq(PendingType) /\ pf \in PendingType /\ pf.file \in File
      /\ pf.hashes \in Seq(Data)
  BY <1>0, <1>1, HeadOfQueue DEF TypeOK, PendingType
<1>3. \A i \in DOMAIN Tail(queue[p]) :
         i + 1 \in DOMAIN queue[p] /\ Tail(queue[p])[i] = queue[p][i + 1]
  BY <1>1, <1>2
<1>4. 1 \in DOMAIN queue[p] /\ queue[p][1] = pf
  BY <1>1, <1>2
<1>5. queue' = [q \in Peer |-> IF q = p THEN Tail(queue[p]) ELSE queue[q]]
  BY <1>0, <1>1 DEF TypeOK
<1>6. \A q \in Peer, f \in File : InQueue(q, f)' \subseteq InQueue(q, f)
  BY <1>3, <1>5 DEF InQueue
<1>7. pf.hashes \in InQueue(p, pf.file)
  BY <1>4 DEF InQueue
<1> HIDE DEF pf
<1>8. pf.hashes \in Underway[p][pf.file]
  BY <1>2, <1>7 DEF Underway
<1>9. CASE net' = net /\ active' = active
  <2>1. /\ \A q \in Peer, f \in File : InManifests(q, f)' = InManifests(q, f)
        /\ \A q \in Peer, f \in File : InTransfer(q, f)' = InTransfer(q, f)
        /\ Notices' = Notices
    BY <1>9 DEF InManifests, InTransfer, Notices, InFlight
  <2>2. LessUnderway /\ Doubtful' \subseteq Doubtful
    BY <1>0, <1>1, <1>6, <1>9, <2>1, DoubtLess DEF LessUnderway
  <2>3. CASE SkipPresent(p) \/ Activate(p)
    <3>1. UNCHANGED <<disk, torn>>
      BY <2>3 DEF SkipPresent, Activate
    <3> QED
      BY <1>1, <2>1, <2>2, <3>1, GivesUp
  <2>4. CASE WriteFromLocal(p) \/ LocalWriteFails(p)
    <3> DEFINE t == Started(p, 1)
    <3>1. LookedUp(p) /\ Complete(t)
      BY <2>4 DEF WriteFromLocal, LocalWriteFails
    <3>2. Assembled(t) \in Delivery!Written(p, pf.file) /\ Len(Assembled(t)) = Total(t.hashes)
      <4>1. /\ IsTransfer(t) /\ t.hashes = pf.hashes /\ t.raced = draft.raced
            /\ t.got = draft.got /\ DOMAIN t.got \subseteq DOMAIN t.hashes
        BY <1>0, <3>1, StartedType DEF pf
      <4>2. draft.raced \/ \A i \in DOMAIN t.got : i \in DOMAIN t.hashes /\ t.got[i] = t.hashes[i]
        BY <1>1, <3>1, <4>1 DEF WholeInv, WholeLookup, LookedUp, MayStart, pf
      <4>3. draft.raced => <<p, pf.file>> \in Doubtful
        BY <3>1, DoubtOf DEF pf
      <4> HIDE DEF t
      <4> QED
        BY <1>2, <1>8, <3>1, <4>1, <4>2, <4>3, WrittenAs
    <3>3. CASE WriteFromLocal(p)
      <4>1. disk' = [disk EXCEPT ![pf.file] = Assembled(t)] /\ torn' = Written(pf.file, t)
        BY <3>3 DEF WriteFromLocal, pf
      <4>2. torn' = IF <<p, pf.file>> \in Doubtful THEN torn \cup {pf.file}
                    ELSE torn \ {pf.file}
        BY <3>1, <4>1, DoubtOf DEF pf, Written, Started
      <4> HIDE DEF t
      <4>3. Delivery!Deliver(p, pf.file)
        BY <1>1, <2>1, <2>2, <3>2, <4>1, <4>2, Abstract DEF Delivery!Deliver
      <4> QED
        BY <1>2, <4>3
    <3>4. CASE LocalWriteFails(p)
      <4>1. /\ \E left \in {disk[pf.file], Absent}
                      \cup {SubSeq(Assembled(t), 1, n) : n \in 0 .. Total(t.hashes)} :
                  disk' = [disk EXCEPT ![pf.file] = left]
            /\ torn' = torn \cup {pf.file}
        BY <3>4 DEF LocalWriteFails, pf
      <4> HIDE DEF t
      <4>2. Delivery!Break(p, pf.file)
        BY <1>1, <2>1, <2>2, <3>2, <4>1, Abstract DEF Delivery!Break
      <4> QED
        BY <1>2, <4>2
    <3> QED
      BY <2>4, <3>3, <3>4
  <2> QED
    BY <2>3, <2>4
<1>10. CASE Activate(p)
  <2> DEFINE needed == (1 .. Total(pf.hashes)) \ DOMAIN draft.got
             first  == Smallest(needed, Window)
             next   == IF needed = first THEN Total(pf.hashes) + 1
                       ELSE Min(needed \ first)
             t      == Started(p, next)
  <2>1. /\ active' = [active EXCEPT ![p] = Put(pf.file, t, @)]
        /\ net' = Sent(p, Requests(pf.file, pf.hkey, first))
        /\ UNCHANGED <<disk, torn>>
    BY <1>10 DEF Activate, pf
  <2>2. t.hashes = pf.hashes /\ t.raced = draft.raced
    BY DEF Started, pf
  <2> HIDE DEF t, first
  <2>3. /\ \A q \in Peer, f \in File : InManifests(q, f)' = InManifests(q, f)
        /\ Notices' = Notices
    <3>1. Plain(Requests(pf.file, pf.hkey, first))
      BY DEF Plain, Requests, ChunkRequest
    <3>2. Plain({ManifestRequest})
      BY DEF Plain, ManifestRequest
    <3> QED
      BY <1>0, <2>1, <3>1, <3>2, PlainStep DEF SameNotices
  <2>4. active' = [q \in Peer |-> IF q = p THEN Put(pf.file, t, active[p]) ELSE active[q]]
    BY <1>0, <2>1 DEF TypeOK
  <2>5. \A q \in Peer, f \in File :
           InTransfer(q, f)' \subseteq InTransfer(q, f) \cup InQueue(q, f)
    BY <1>7, <2>2, <2>4 DEF InTransfer, Put
  <2>6. LessUnderway
    BY <1>6, <2>3, <2>5 DEF LessUnderway
  <2>7. Doubtful' \subseteq Doubtful
    <3>1. draft.raced => <<p, pf.file>> \in Doubtful
      BY <1>10, DoubtOf DEF Activate, pf
    <3>2. ASSUME NEW q \in Peer, NEW f \in File,
                 f \in DOMAIN active'[q], active'[q][f].raced
          PROVE  <<q, f>> \in Doubtful
      <4>1. CASE q = p /\ f = pf.file
        BY <2>2, <2>4, <3>1, <3>2, <4>1 DEF Put
      <4>2. CASE f \in DOMAIN active[q] /\ active'[q][f] = active[q][f]
        BY <3>2, <4>2 DEF Doubtful
      <4> QED
        BY <2>4, <3>2, <4>1, <4>2 DEF Put
    <3> QED
      BY <1>1, <3>2 DEF Doubtful
  <2> QED
    BY <1>1, <2>1, <2>3, <2>6, <2>7, GivesUp
<1> QED
  BY <1>9, <1>10 DEF SkipPresent, WriteFromLocal, LocalWriteFails

\* A chunk is kept; with the last one the version its manifest named is there.
LEMMA ChunkDelivers ==
  ASSUME WholeInv, SlotInv, NEW p \in Peer, NEW m,
         StoreChunk(p, m) \/ FinishFile(p, m) \/ FinishFails(p, m)
  PROVE  Delivery!GiveUp \/ \E f \in File : Delivery!Deliver(p, f) \/ Delivery!Break(p, f)
<1> USE DEF serverVars, diskVars, keyVars
<1> DEFINE t == Stored(p, m)
           c == active[p][m.file].hashes
<1>0. TypeOK
  BY DEF WholeInv
<1>1. /\ Accepted(p, m) /\ net' = Handled(p, m, Following(p, m))
      /\ UNCHANGED <<remote, queue>>
  BY DEF StoreChunk, FinishFile, FinishFails
<1>2. /\ m.file \in File /\ m.file \in DOMAIN active[p] /\ IsTransfer(t)
      /\ m.type = "ChunkResponse"
  BY <1>0, <1>1, StoredType DEF Accepted, Arrived
<1>3. /\ t.hashes = c /\ t.raced = active[p][m.file].raced
      /\ \A i \in DOMAIN t.got :
            i \in DOMAIN t.hashes /\ (~ t.raced => t.got[i] = t.hashes[i])
  BY <1>1, StoredVerified
<1>13. Idle /\ UNCHANGED draft
  BY DEF StoreChunk, FinishFile, FinishFails, Accepted, Arrived
<1>14. <<p, m.file>> \in Doubtful <=> t.raced
  BY <1>2, <1>3, <1>13, DoubtOf
<1>4. /\ \A q \in Peer, f \in File : InManifests(q, f)' = InManifests(q, f)
      /\ Notices' = Notices
  <2>1. Plain(Following(p, m)) /\ Plain({m})
    BY <1>2 DEF Plain, Following, ChunkRequest
  <2> QED
    BY <1>0, <1>1, <2>1, PlainStep DEF SameNotices
<1>5. c \in Underway[p][m.file]
  BY <1>2 DEF Underway, InTransfer
<1> HIDE DEF t
<1>6. ASSUME Complete(t)
      PROVE  /\ Assembled(t) \in Delivery!Written(p, m.file)
             /\ Len(Assembled(t)) = Total(t.hashes)
  <2>1. \/ <<p, m.file>> \in Doubtful
        \/ \A i \in DOMAIN t.got : i \in DOMAIN t.hashes /\ t.got[i] = t.hashes[i]
    BY <1>3, <1>14
  <2>2. DOMAIN t.got \subseteq DOMAIN t.hashes /\ t.hashes \in Underway[p][m.file]
    BY <1>3, <1>5
  <2> QED
    BY <1>2, <1>6, <2>1, <2>2, WrittenAs
<1>15. Doubtful' \subseteq Doubtful
  <2>1. CASE active' = [active EXCEPT ![p][m.file] = t]
    <3>1. active' = [q \in Peer |-> IF q = p THEN [active[p] EXCEPT ![m.file] = t]
                                    ELSE active[q]]
      BY <1>0, <2>1 DEF TypeOK
    <3>2. \A q \in Peer : \A f \in DOMAIN active'[q] :
             active'[q][f].raced => f \in DOMAIN active[q] /\ active[q][f].raced
      BY <1>2, <1>3, <3>1
    <3> QED
      BY <1>0, <1>13, <3>2, DoubtLess DEF Idle
  <2>2. CASE active' = [active EXCEPT ![p] = Drop(m.file, @)]
    <3>1. active' = [q \in Peer |-> IF q = p THEN Drop(m.file, active[p])
                                    ELSE active[q]]
      BY <1>0, <2>2 DEF TypeOK
    <3>2. \A q \in Peer : \A f \in DOMAIN active'[q] :
             f \in DOMAIN active[q] /\ active'[q][f] = active[q][f]
      BY <3>1 DEF Drop
    <3> QED
      BY <1>0, <1>13, <3>2, DoubtLess DEF Idle
  <2> QED
    BY <2>1, <2>2 DEF StoreChunk, FinishFile, FinishFails, t
<1>7. \A q \in Peer, f \in File : InTransfer(q, f)' \subseteq InTransfer(q, f)
  <2>1. CASE active' = [active EXCEPT ![p][m.file] = t]
    <3>1. active' = [q \in Peer |-> IF q = p THEN [active[p] EXCEPT ![m.file] = t]
                                    ELSE active[q]]
      BY <1>0, <2>1 DEF TypeOK
    <3> QED
      BY <1>2, <1>3, <3>1 DEF InTransfer
  <2>2. CASE active' = [active EXCEPT ![p] = Drop(m.file, @)]
    <3>1. active' = [q \in Peer |-> IF q = p THEN Drop(m.file, active[p])
                                    ELSE active[q]]
      BY <1>0, <2>2 DEF TypeOK
    <3> QED
      BY <3>1 DEF InTransfer, Drop
  <2> QED
    BY <2>1, <2>2 DEF StoreChunk, FinishFile, FinishFails, t
<1>8. \A q \in Peer, f \in File : InQueue(q, f)' = InQueue(q, f)
  BY <1>1 DEF InQueue
<1>9. LessUnderway
  BY <1>4, <1>7, <1>8 DEF LessUnderway
<1> HIDE DEF c
<1>10. CASE StoreChunk(p, m)
  <2>1. UNCHANGED <<disk, torn>>
    BY <1>10 DEF StoreChunk
  <2> QED
    BY <1>1, <1>4, <1>9, <1>15, <2>1, GivesUp
<1>11. CASE FinishFile(p, m)
  <2>1. /\ disk' = [disk EXCEPT ![m.file] = Assembled(t)] /\ Complete(t)
        /\ torn' = Written(m.file, active[p][m.file])
    BY <1>11 DEF FinishFile, t
  <2>2. torn' = IF <<p, m.file>> \in Doubtful THEN torn \cup {m.file} ELSE torn \ {m.file}
    BY <1>3, <1>14, <2>1 DEF Written
  <2>3. Delivery!Deliver(p, m.file)
    BY <1>1, <1>4, <1>6, <1>9, <1>15, <2>1, <2>2, Abstract DEF Delivery!Deliver
  <2> QED
    BY <1>2, <2>3
<1>12. CASE FinishFails(p, m)
  <2>1. /\ Complete(t)
        /\ \E left \in {disk[m.file], Absent}
                 \cup {SubSeq(Assembled(t), 1, n) : n \in 0 .. Total(t.hashes)} :
              disk' = [disk EXCEPT ![m.file] = left]
        /\ torn' = torn \cup {m.file}
    BY <1>3, <1>12 DEF FinishFails, t, c
  <2>2. Delivery!Break(p, m.file)
    BY <1>1, <1>4, <1>6, <1>9, <1>15, <2>1, Abstract DEF Delivery!Break
  <2> QED
    BY <1>2, <2>2
<1> QED
  BY <1>10, <1>11, <1>12

\* A stall check repeats requests.
LEMMA StallDelivers ==
  ASSUME TypeOK, NEW p \in Peer, NEW f \in File, CheckStalls(p, f)
  PROVE  Delivery!GiveUp
<1> DEFINE t    == active[p][f]
           late == Smallest(Missing(t), Window)
           u    == Advance(t, t.got, Max({t.next, Max(late) + 1}))
<1>1. /\ f \in DOMAIN active[p]
      /\ net' = Sent(p, Requests(f, t.hkey, late))
      /\ active' = [active EXCEPT ![p][f] = u]
      /\ UNCHANGED <<remote, disk, torn, queue, draft>> /\ loop = None
  BY DEF CheckStalls, Later, Idle, serverVars, diskVars
<1>2. u.hashes = t.hashes /\ u.raced = t.raced
  BY DEF Advance
<1>3. /\ \A q \in Peer, g \in File : InManifests(q, g)' = InManifests(q, g)
      /\ Notices' = Notices
  <2>1. Plain(Requests(f, t.hkey, late)) /\ Plain({ManifestRequest})
    BY DEF Plain, Requests, ChunkRequest, ManifestRequest
  <2> HIDE DEF t, late, u
  <2> QED
    BY <1>1, <2>1, PlainStep DEF SameNotices
<1> HIDE DEF u
<1>4. active' = [q \in Peer |-> IF q = p THEN [active[p] EXCEPT ![f] = u] ELSE active[q]]
  BY <1>1 DEF TypeOK
<1>5. \A q \in Peer, g \in File :
         InTransfer(q, g)' \subseteq InTransfer(q, g) /\ InQueue(q, g)' = InQueue(q, g)
  BY <1>1, <1>2, <1>4 DEF InTransfer, InQueue
<1>6. LessUnderway
  BY <1>3, <1>5 DEF LessUnderway
<1>7. Doubtful' \subseteq Doubtful
  BY <1>1, <1>2, <1>4, DoubtLess
<1> QED
  BY <1>1, <1>3, <1>6, <1>7, GivesUp

-----------------------------------------------------------------------------
LEMMA NextDelivers ==
  WholeInv /\ SlotInv /\ [Next]_vars => [Delivery!Next]_(Delivery!vars)
<1> SUFFICES ASSUME WholeInv, SlotInv, [Next]_vars
             PROVE  Delivery!Next \/ UNCHANGED Delivery!vars
  OBVIOUS
<1>0. TypeOK
  BY DEF WholeInv
<1>1. CASE UNCHANGED vars
  BY <1>1 DEF vars, serverVars, diskVars, keyVars, schedVars, Delivery!vars, Underway,
     Notices, Doubtful, InManifests, InQueue, InTransfer, InFlight
<1>2. ASSUME NEW p \in Peer, Protocol(p)
      PROVE  Delivery!Next
  <2>1. CASE \/ Connect(p) \/ NodeRekeys(p) \/ EndLoop(p)
             \/ BeginLookup(p) \/ (\E g \in File : IndexFile(p, g)) \/ ReadLocal(p)
    BY <1>0, <2>1, QuietDelivers DEF Delivery!Next
  <2>2. CASE ServeManifest(p)
    BY <1>0, <2>2, PublishDelivers DEF Delivery!Next
  <2>3. CASE SkipPresent(p) \/ WriteFromLocal(p) \/ LocalWriteFails(p) \/ Activate(p)
    BY <2>3, LoopDelivers DEF Delivery!Next
  <2>4. ASSUME NEW m \in InFlight(p), ServeChunk(p, m) \/ DropChunk(p, m) \/ RetryChunk(p, m)
        PROVE  Delivery!Next
    BY <1>0, <2>4, QuietDelivers DEF Delivery!Next
  <2>5. ASSUME NEW m \in InFlight(p), OnManifest(p, m)
        PROVE  Delivery!Next
    BY <1>0, <2>5, ManifestDelivers DEF Delivery!Next
  <2>6. ASSUME NEW m \in InFlight(p), OnFileNotice(p, m)
        PROVE  Delivery!Next
    BY <1>0, <2>6, NoticeDelivers DEF Delivery!Next
  <2>7. ASSUME NEW m \in InFlight(p),
               StoreChunk(p, m) \/ FinishFile(p, m) \/ FinishFails(p, m)
        PROVE  Delivery!Next
    BY <2>7, ChunkDelivers DEF Delivery!Next
  <2>8. ASSUME NEW f \in File, CheckStalls(p, f)
        PROVE  Delivery!Next
    BY <1>0, <2>8, StallDelivers DEF Delivery!Next
  <2> QED
    BY <1>2, <2>1, <2>2, <2>3, <2>4, <2>5, <2>6, <2>7, <2>8
       DEF Protocol, LoopStep, OnChunk
<1>3. ASSUME NEW p \in Peer, Environment(p)
      PROVE  Delivery!Next
  <2>1. CASE RequestSync(p) \/ \E k \in Key : PeerRekeys(p, k)
    BY <1>0, <2>1, QuietDelivers DEF Delivery!Next
  <2>2. CASE Disconnect(p) \/ Lose(p)
    BY <1>0, <2>2, LossDelivers DEF Delivery!Next
  <2>3. ASSUME NEW f \in File, RemoteEdit(p, f)
        PROVE  Delivery!Next
    BY <1>0, <2>3, PeerEditDelivers DEF Delivery!Next
  <2> QED
    BY <1>3, <2>1, <2>2, <2>3 DEF Environment
<1>4. CASE \E f \in File : LocalEdit(f)
  BY <1>0, <1>4, UserDelivers DEF Delivery!Next
<1>5. CASE Restart
  BY <1>0, <1>5, LossDelivers DEF Delivery!Next
<1> QED
  BY <1>1, <1>2, <1>3, <1>4, <1>5 DEF Next

\* The download scheduler implements FileDelivery: whatever is lost, retried,
\* re-keyed, edited or restarted, the folder changes only by whole versions that
\* are under way, by notices, by its user and by writes that fail, or that a
\* save between the hashing and the reading of a chunk made doubtful.
THEOREM DeliversFilesHolds == Spec => DeliversFiles
BY WholeInit, WholeNext, SlotInit, SlotNext, InitDelivers, NextDelivers, PTL
   DEF Spec, DeliversFiles, Delivery!Spec

=============================================================================
