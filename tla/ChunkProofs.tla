----------------------------- MODULE ChunkProofs -----------------------------
(***************************************************************************)
(* Proofs about the chunks of a transfer in module Download, for every set *)
(* of peers, files, chunks and keys and every bound: the scheduler forgets *)
(* no chunk while nothing disturbs it (NoChunkForgotten), however slow the *)
(* peers are, however often stalls repeat what is open and whatever users  *)
(* save in the node's own folder.                                          *)
(*                                                                         *)
(* NoChunkForgotten is not inductive. A request may be refused, and its    *)
(* answer dropped, for reasons that lie in an earlier message: the key and *)
(* the files of the last manifest, and the version its hashes were taken   *)
(* from. The invariant ChunkInv says that as long as no message was lost,  *)
(* no file edited at a peer and no key changed, all of these agree with    *)
(* what the peer has and both sides' keys. The theorem needs that no       *)
(* version of a file is empty: storage.rs counts one chunk for such a file *)
(* and can serve none (total_chunks).                                      *)
(***************************************************************************)
EXTENDS SlotProofs

NoEmptyVersion == \A f \in File : <<>> \notin Version[f]

\* Nothing happened that only a stall check repairs.
Undisturbed == \A k \in {"loss", "edit", "rekey"} : spent[k] = 0

\* The key of the manifests p answers with.
ServedKey(p) == IF EncryptedProtocol THEN txKey[p] ELSE None

IsChunkMessage(m) == m.type \in {"ChunkRequest", "ChunkResponse"}

\* Messages carry the key in use, and manifests what the peer has.
FaithfulChannels ==
    \A p \in Peer : \A m \in InFlight(p) :
        /\ IsChunkMessage(m) => m.key = ServedKey(p)
        /\ m.type = "Manifest" =>
             /\ m.key = ServedKey(p)
             /\ m.files = Restrict(remote[p], Shared(p))
             /\ m.key # None => outbound[p] = {<<m.key, f>> : f \in Shared(p)}

\* An entry of p's manifest is still what p would answer, under a file id
\* that both sides resolve.
IsFaithful(p, f, hashes, k) ==
    /\ k = ServedKey(p)
    /\ f \in Shared(p)
    /\ hashes = remote[p][f]
    /\ k # None => <<k, f>> \in inbound[p] /\ <<k, f>> \in outbound[p]

FaithfulQueue ==
    \A p \in Peer : \A n \in DOMAIN queue[p] :
        IsFaithful(p, queue[p][n].file, queue[p][n].hashes, queue[p][n].hkey)

FaithfulActive ==
    \A p \in Peer : \A f \in DOMAIN active[p] :
        IsFaithful(p, f, active[p][f].hashes, active[p][f].hkey)

\* Chunk i of f is there, or asked for or answered at p.
IsComing(p, f, i) ==
    i \in DOMAIN active[p][f].got \/ Copies(p, active[p][f].hkey, f, i) # {}

AllComing ==
    \A p \in Peer : \A f \in DOMAIN active[p] :
        /\ active[p][f].next <= Total(active[p][f].hashes) + 1
        /\ \A i \in 1 .. (active[p][f].next - 1) : IsComing(p, f, i)

Faithful == /\ rxKey = txKey
            /\ FaithfulChannels
            /\ FaithfulQueue
            /\ FaithfulActive
            /\ AllComing

ChunkInv == WholeInv /\ (Undisturbed => Faithful)

-----------------------------------------------------------------------------
(* Channels.                                                                *)

\* Taking a message leaves the others; sending leaves all of them.
LEMMA TakenOne ==
  ASSUME NEW b, IsChannel(b), NEW m, NEW S
  PROVE  LET c == (b (-) SetToBag({m})) (+) SetToBag(S)
         IN /\ BagToSet(b) \ {m} \subseteq BagToSet(c)
            /\ S \subseteq BagToSet(c)
            /\ BagToSet(c) \subseteq BagToSet(b) \cup S
BY DEF IsChannel, IsABag, BagToSet, SetToBag, (-), (+)

\* The channels after a step that sends, or takes one and sends.
LEMMA SentAlong ==
  ASSUME NetOK, NEW p \in Peer, NEW S, NEW m,
         net' \in {Sent(p, S), Handled(p, m, S)}
  PROVE  /\ \A q \in Peer \ {p} : InFlight(q)' = InFlight(q)
         /\ InFlight(p) \ {m} \subseteq InFlight(p)'
         /\ net' = Sent(p, S) => InFlight(p) \subseteq InFlight(p)'
         /\ S \subseteq InFlight(p)'
         /\ InFlight(p)' \subseteq InFlight(p) \cup S
<1>1. /\ net = [q \in Peer |-> net[q]] /\ IsChannel(net[p])
  BY DEF NetOK
<1>2. CASE net' = Sent(p, S)
  <2>1. net'[p] = net[p] (+) SetToBag(S) /\ \A q \in Peer \ {p} : net'[q] = net[q]
    BY <1>1, <1>2 DEF Sent
  <2>2. BagToSet(net[p] (+) SetToBag(S)) = BagToSet(net[p]) \cup S
    BY DEF BagToSet, SetToBag, (+)
  <2> QED
    BY <2>1, <2>2 DEF InFlight
<1>3. CASE net' = Handled(p, m, S) /\ net' # Sent(p, S)
  <2>1. /\ net'[p] = (net[p] (-) SetToBag({m})) (+) SetToBag(S)
        /\ \A q \in Peer \ {p} : net'[q] = net[q]
    BY <1>1, <1>3 DEF Handled
  <2> QED
    BY <1>1, <1>3, <2>1, TakenOne DEF InFlight
<1> QED
  BY <1>2, <1>3

\* Chunks that were coming are still coming after a message was sent, or one
\* was taken that is about no chunk of an active file of p.
LEMMA ComingStill ==
  ASSUME NetOK, NEW p \in Peer, NEW S, NEW m, UNCHANGED active,
         \/ net' = Sent(p, S)
         \/ /\ net' = Handled(p, m, S)
            /\ ~ IsChunkMessage(m) \/ m.file \notin DOMAIN active[p]
  PROVE  \A q \in Peer : \A f \in DOMAIN active[q] : \A i :
            IsComing(q, f, i) => IsComing(q, f, i)'
<1> SUFFICES ASSUME NEW q \in Peer, NEW f \in DOMAIN active[q], NEW i,
                    NEW c \in Copies(q, active[q][f].hkey, f, i)
             PROVE  c \in Copies(q, active[q][f].hkey, f, i)'
  BY DEF IsComing
<1>1. /\ c \in InFlight(q) /\ IsChunkMessage(c) /\ c.file = f
      /\ c.key = active[q][f].hkey /\ c.idx = i
  BY DEF Copies, IsChunkMessage
<1>2. c \in InFlight(q)'
  BY <1>1, SentAlong
<1> QED
  BY <1>1, <1>2 DEF Copies, IsChunkMessage

\* They are after a chunk message was taken and one for the same chunk sent.
LEMMA ComingAgain ==
  ASSUME NetOK, NEW p \in Peer, NEW m, NEW r, UNCHANGED active,
         net' = Handled(p, m, {r}),
         IsChunkMessage(r) /\ r.key = m.key /\ r.file = m.file /\ r.idx = m.idx
  PROVE  \A q \in Peer : \A f \in DOMAIN active[q] : \A i :
            IsComing(q, f, i) => IsComing(q, f, i)'
<1> SUFFICES ASSUME NEW q \in Peer, NEW f \in DOMAIN active[q], NEW i,
                    NEW c \in Copies(q, active[q][f].hkey, f, i)
             PROVE  Copies(q, active[q][f].hkey, f, i)' # {}
  BY DEF IsComing
<1>1. /\ c \in InFlight(q) /\ IsChunkMessage(c) /\ c.file = f
      /\ c.key = active[q][f].hkey /\ c.idx = i
  BY DEF Copies, IsChunkMessage
<1>2. c \in InFlight(q)' \/ (q = p /\ c = m /\ r \in InFlight(p)')
  BY <1>1, SentAlong
<1> QED
  BY <1>1, <1>2 DEF Copies, IsChunkMessage

-----------------------------------------------------------------------------
(* What holds of every step.                                                *)

\* The steps of the loop that change its lookup alone.
Looking(p) == BeginLookup(p) \/ (\E g \in File : IndexFile(p, g)) \/ ReadLocal(p)

\* The steps that end the quiet have not been taken before or now.
LEMMA QuietSpend ==
  ASSUME TypeOK, Undisturbed', NEW k \in Kind, Spend(k)
  PROVE  Undisturbed /\ k \notin {"loss", "edit", "rekey"}
<1>1. spent \in [Kind -> Nat] /\ {"loss", "edit", "rekey"} \subseteq Kind
  BY DEF TypeOK, Kind
<1>2. \A j \in {"loss", "edit", "rekey"} :
        /\ spent'[j] = 0
        /\ spent'[j] = IF j = k THEN spent[j] + 1 ELSE spent[j]
  BY <1>1 DEF Undisturbed, Spend
<1>3. \A j \in {"loss", "edit", "rekey"} : spent[j] \in Nat
  BY <1>1
<1> QED
  BY <1>2, <1>3 DEF Undisturbed

\* As long as it lasts the peers' files and all keys stay.
LEMMA QuietNext ==
  ASSUME ChunkInv, [Next]_vars, Undisturbed'
  PROVE  /\ Undisturbed
         /\ Faithful
         /\ UNCHANGED <<remote, txKey, rxKey>>
<1> USE DEF serverVars, diskVars, keyVars, schedVars
<1>0. TypeOK /\ (Undisturbed => rxKey = txKey)
  BY DEF ChunkInv, WholeInv, Faithful
<1> DEFINE Still == Undisturbed /\ UNCHANGED <<remote, txKey, rxKey>>
<1> SUFFICES Still
  BY DEF ChunkInv
<1>1. CASE UNCHANGED spent /\ UNCHANGED <<remote, txKey, rxKey>>
  BY <1>1 DEF Undisturbed
<1>2. ASSUME NEW k \in Kind \ {"loss", "edit", "rekey"}, Spend(k),
             UNCHANGED <<remote, txKey, rxKey>>
      PROVE  Still
  BY <1>0, <1>2, QuietSpend
<1>3. CASE UNCHANGED vars
  BY <1>1, <1>3 DEF vars
<1>4. ASSUME NEW p \in Peer, Protocol(p)
      PROVE  Still
  <2>1. CASE Connect(p) \/ ServeManifest(p) \/ EndLoop(p) \/ SkipPresent(p)
             \/ WriteFromLocal(p) \/ Activate(p)
    BY <1>1, <2>1 DEF Connect, ServeManifest, EndLoop, SkipPresent,
       WriteFromLocal, Activate
  <2>7. CASE Looking(p)
    BY <1>1, <2>7 DEF Looking, BeginLookup, IndexFile, ReadLocal
  <2>2. CASE LocalWriteFails(p)
    <3>1. "ioerror" \in Kind \ {"loss", "edit", "rekey"}
      BY DEF Kind
    <3> QED
      BY <1>2, <2>2, <3>1 DEF LocalWriteFails
  <2>3. ASSUME NEW m \in InFlight(p), ServeChunk(p, m) \/ OnManifest(p, m)
               \/ DropChunk(p, m) \/ RetryChunk(p, m) \/ StoreChunk(p, m)
               \/ FinishFile(p, m) \/ OnFileNotice(p, m)
        PROVE  Still
    BY <1>1, <2>3 DEF ServeChunk, OnManifest, DropChunk, RetryChunk, StoreChunk,
       FinishFile, OnFileNotice
  <2>4. ASSUME NEW m \in InFlight(p), FinishFails(p, m)
        PROVE  Still
    <3>1. "ioerror" \in Kind \ {"loss", "edit", "rekey"}
      BY DEF Kind
    <3> QED
      BY <1>2, <2>4, <3>1 DEF FinishFails
  <2>5. ASSUME NEW f \in File, CheckStalls(p, f)
        PROVE  Still
    <3>1. "stall" \in Kind \ {"loss", "edit", "rekey"}
      BY DEF Kind
    <3> QED
      BY <1>1, <1>2, <2>5, <3>1 DEF CheckStalls
  <2>6. CASE NodeRekeys(p)
    <3>1. UNCHANGED spent /\ rxKey[p] # txKey[p]
      BY <2>6 DEF NodeRekeys
    <3> QED
      BY <1>0, <3>1 DEF Undisturbed
  <2> QED
    BY <1>4, <2>1, <2>2, <2>3, <2>4, <2>5, <2>6, <2>7
       DEF Protocol, LoopStep, OnChunk, Looking
<1>5. ASSUME NEW p \in Peer, Environment(p)
      PROVE  Still
  <2>1. {"sync", "drop", "loss", "edit", "rekey"} \subseteq Kind
    BY DEF Kind
  <2>2. CASE RequestSync(p)
    BY <1>2, <2>1, <2>2 DEF RequestSync
  <2>3. CASE Disconnect(p)
    BY <1>2, <2>1, <2>3 DEF Disconnect
  <2>4. CASE Lose(p) \/ (\E f \in File : RemoteEdit(p, f)) \/ \E k \in Key : PeerRekeys(p, k)
    BY <1>0, <2>1, <2>4, QuietSpend DEF Lose, RemoteEdit, PeerRekeys
  <2> QED
    BY <1>5, <2>2, <2>3, <2>4 DEF Environment
<1>6. ASSUME NEW f \in File, LocalEdit(f)
      PROVE  Still
  <2>1. "local" \in Kind \ {"loss", "edit", "rekey"}
    BY DEF Kind
  <2> QED
    BY <1>2, <1>6, <2>1 DEF LocalEdit
<1>7. CASE Restart
  <2>1. "restart" \in Kind \ {"loss", "edit", "rekey"}
    BY DEF Kind
  <2> QED
    BY <1>2, <1>7, <2>1 DEF Restart
<1> QED
  BY <1>3, <1>4, <1>5, <1>6, <1>7 DEF Next

\* Which messages a step may add without harm.
Harmless(p, S) ==
    \A m \in S : /\ m.type # "Manifest"
                 /\ IsChunkMessage(m) => m.key = ServedKey(p)

LEMMA ChannelsKept ==
  ASSUME NetOK, FaithfulChannels, UNCHANGED <<remote, txKey, outbound>>,
         NEW p \in Peer, NEW S, NEW m, Harmless(p, S),
         net' \in {Sent(p, S), Handled(p, m, S)}
  PROVE  FaithfulChannels'
<1>1. \A q \in Peer : ServedKey(q)' = ServedKey(q) /\ Shared(q)' = Shared(q)
  BY DEF ServedKey, Shared
<1>2. \A q \in Peer : InFlight(q)' \subseteq InFlight(q) \cup (IF q = p THEN S ELSE {})
  BY SentAlong
<1> QED
  BY <1>1, <1>2 DEF FaithfulChannels, Harmless, IsChunkMessage

\* After a step that leaves them alone or empties some, channels are faithful.
LEMMA ChannelsQuiet ==
  ASSUME FaithfulChannels, UNCHANGED <<remote, txKey, outbound>>,
         \A q \in Peer : InFlight(q)' \subseteq InFlight(q)
  PROVE  FaithfulChannels'
<1>1. \A q \in Peer : ServedKey(q)' = ServedKey(q) /\ Shared(q)' = Shared(q)
  BY DEF ServedKey, Shared
<1> QED
  BY <1>1 DEF FaithfulChannels, IsChunkMessage

\* The first file waiting is an entry of the queue.
LEMMA FaithfulHead ==
  ASSUME TypeOK, FaithfulQueue, NEW p \in Peer, queue[p] # <<>>
  PROVE  LET pf == Head(queue[p]) IN IsFaithful(p, pf.file, pf.hashes, pf.hkey)
<1>1. queue[p] \in Seq(PendingType)
  BY DEF TypeOK
<1>2. 1 \in DOMAIN queue[p] /\ Head(queue[p]) = queue[p][1]
  BY <1>1, EmptySeq, LenProperties
<1> QED
  BY <1>2 DEF FaithfulQueue

\* The manifest p answers with is what it has now, under the key in use.
LEMMA ChannelsManifest ==
  ASSUME NetOK, FaithfulChannels, UNCHANGED <<remote, txKey>>,
         NEW p \in Peer, ServeManifest(p), TypeOK
  PROVE  FaithfulChannels'
<1> DEFINE k == ServedKey(p)
           ids == {<<k, f>> : f \in Shared(p)}
           x == Manifest(k, Restrict(remote[p], Shared(p)))
<1>1. \A q \in Peer : ServedKey(q)' = ServedKey(q) /\ Shared(q)' = Shared(q)
  BY DEF ServedKey, Shared
<1>2. outbound' = IF k = None THEN outbound ELSE [outbound EXCEPT ![p] = ids]
  BY DEF ServeManifest, ServedKey
<1>3. PICK S : net' = Handled(p, ManifestRequest, S) /\ S \subseteq {x}
  BY DEF ServeManifest, ServedKey
<1>4. /\ \A q \in Peer \ {p} : InFlight(q)' = InFlight(q)
      /\ InFlight(p)' \subseteq InFlight(p) \cup {x}
  BY <1>3, SentAlong
<1>5. /\ \A q \in Peer \ {p} : outbound'[q] = outbound[q]
      /\ k # None => outbound'[p] = ids
  BY <1>2 DEF TypeOK
<1>6. /\ x.type = "Manifest" /\ x.key = k
      /\ x.files = Restrict(remote[p], Shared(p))
  BY DEF Manifest
<1> SUFFICES ASSUME NEW q \in Peer, NEW m \in InFlight(q)'
             PROVE  /\ IsChunkMessage(m) => m.key = ServedKey(q)
                    /\ m.type = "Manifest" =>
                         /\ m.key = ServedKey(q)
                         /\ m.files = Restrict(remote[q], Shared(q))
                         /\ m.key # None =>
                              outbound'[q] = {<<m.key, f>> : f \in Shared(q)}
  BY <1>1 DEF FaithfulChannels, IsChunkMessage
<1>7. CASE q # p
  BY <1>4, <1>5, <1>7 DEF FaithfulChannels
<1>8. CASE q = p /\ m \in InFlight(p)
  BY <1>5, <1>8 DEF FaithfulChannels
<1>9. CASE q = p /\ m = x
  BY <1>5, <1>6, <1>9 DEF IsChunkMessage
<1> QED
  BY <1>4, <1>7, <1>8, <1>9

\* Channels stay faithful.
LEMMA ChannelsNext ==
  ASSUME ChunkInv, [Next]_vars, Undisturbed'
  PROVE  FaithfulChannels'
<1> USE DEF serverVars, diskVars, keyVars, schedVars
<1>0. /\ TypeOK /\ NetOK /\ FaithfulChannels /\ FaithfulQueue /\ FaithfulActive
      /\ UNCHANGED <<remote, txKey>>
  BY QuietNext DEF ChunkInv, WholeInv, Faithful, TypeOK, NetOK
<1> DEFINE Same == UNCHANGED <<txKey, outbound>>
<1>1. CASE Same /\ UNCHANGED net
  BY <1>0, <1>1, ChannelsQuiet DEF InFlight
<1>2. ASSUME NEW p \in Peer, NEW S, NEW m, Same, Harmless(p, S),
             net' \in {Sent(p, S), Handled(p, m, S)}
      PROVE  FaithfulChannels'
  BY <1>0, <1>2, ChannelsKept
<1>3. \A p \in Peer : Harmless(p, {}) /\ Harmless(p, {ManifestRequest})
  BY DEF Harmless, ManifestRequest, IsChunkMessage
<1>4. \A p \in Peer : \A k, f, S : k = ServedKey(p) => Harmless(p, Requests(f, k, S))
  BY DEF Harmless, Requests, ChunkRequest
<1>5. \A p \in Peer : \A m \in InFlight(p) :
         IsChunkMessage(m) => \A f, i, d :
           /\ Harmless(p, {ChunkRequest(m.key, f, i)})
           /\ Harmless(p, {ChunkResponse(m, txKey[p], d)})
  BY <1>0 DEF FaithfulChannels, Harmless, ChunkRequest, ChunkResponse
<1>6. CASE UNCHANGED vars \/ \E f \in File : LocalEdit(f)
  BY <1>1, <1>6 DEF vars, LocalEdit
<1>7. CASE Restart
  <2>1. Same /\ \A q \in Peer : net'[q] = EmptyBag
    BY <1>7 DEF Restart
  <2> QED
    BY <1>0, <2>1, ChannelsQuiet, EmptyChannel DEF InFlight
<1>8. ASSUME NEW p \in Peer, Protocol(p) \/ Environment(p)
      PROVE  FaithfulChannels'
  <2>1. CASE EndLoop(p) \/ SkipPresent(p) \/ WriteFromLocal(p) \/ LocalWriteFails(p)
             \/ NodeRekeys(p)
    BY <1>1, <2>1 DEF EndLoop, SkipPresent, WriteFromLocal, LocalWriteFails, NodeRekeys
  <2>0. CASE Looking(p)
    BY <1>1, <2>0 DEF Looking, BeginLookup, IndexFile, ReadLocal
  <2>2. CASE Connect(p) \/ RequestSync(p)
    BY <1>2, <1>3, <2>2 DEF Connect, RequestSync
  <2>3. CASE Disconnect(p)
    <3>1. Same /\ net' = [net EXCEPT ![p] = EmptyBag]
      BY <2>3 DEF Disconnect
    <3>2. \A q \in Peer : net'[q] = IF q = p THEN EmptyBag ELSE net[q]
      BY <1>0, <3>1 DEF NetOK
    <3> QED
      BY <1>0, <3>1, <3>2, ChannelsQuiet, EmptyChannel DEF InFlight
  <2>4. CASE ServeManifest(p)
    BY <1>0, <2>4, ChannelsManifest
  <2>5. CASE Activate(p)
    <3>1. PICK S : net' = Sent(p, Requests(Head(queue[p]).file, Head(queue[p]).hkey, S))
      BY <2>5 DEF Activate
    <3>2. Head(queue[p]).hkey = ServedKey(p)
      BY <1>0, <2>5, FaithfulHead DEF Activate, LookedUp, MayStart, IsFaithful
    <3> QED
      BY <1>2, <1>4, <2>5, <3>1, <3>2 DEF Activate
  <2>6. ASSUME NEW r \in InFlight(p), ServeChunk(p, r)
        PROVE  FaithfulChannels'
    <3>1. PICK S, d : /\ net' = Handled(p, r, S)
                      /\ S \in {{}, {ChunkResponse(r, txKey[p], d)}}
      BY <2>6 DEF ServeChunk
    <3> QED
      BY <1>2, <1>3, <1>5, <2>6, <3>1 DEF ServeChunk, IsChunkMessage
  <2>7. ASSUME NEW m \in InFlight(p), OnManifest(p, m) \/ DropChunk(p, m)
        PROVE  FaithfulChannels'
    BY <1>2, <1>3, <2>7 DEF OnManifest, DropChunk
  <2>8. ASSUME NEW m \in InFlight(p), OnFileNotice(p, m)
        PROVE  FaithfulChannels'
    <3>1. net' = Handled(p, m, {ManifestRequest}) \/ net' = Handled(p, m, {})
      BY <2>8 DEF OnFileNotice
    <3> QED
      BY <1>2, <1>3, <2>8, <3>1 DEF OnFileNotice
  <2>9. ASSUME NEW m \in InFlight(p), RetryChunk(p, m)
        PROVE  FaithfulChannels'
    BY <1>2, <1>5, <2>9 DEF RetryChunk, Arrived, IsChunkMessage
  <2>10. ASSUME NEW m \in InFlight(p),
                StoreChunk(p, m) \/ FinishFile(p, m) \/ FinishFails(p, m)
         PROVE  FaithfulChannels'
    <3>1. /\ net' = Handled(p, m, Following(p, m)) /\ Same /\ IsChunkMessage(m)
      BY <2>10 DEF StoreChunk, FinishFile, FinishFails, Accepted, Arrived, IsChunkMessage
    <3>2. Harmless(p, Following(p, m))
      BY <1>3, <1>5, <3>1 DEF Following
    <3> QED
      BY <1>2, <3>1, <3>2
  <2>11. ASSUME NEW f \in File, CheckStalls(p, f)
         PROVE  FaithfulChannels'
    <3>1. PICK S : net' = Sent(p, Requests(f, active[p][f].hkey, S))
      BY <2>11 DEF CheckStalls
    <3>2. active[p][f].hkey = ServedKey(p)
      BY <1>0, <2>11 DEF CheckStalls, FaithfulActive, IsFaithful
    <3> QED
      BY <1>2, <1>4, <2>11, <3>1, <3>2 DEF CheckStalls
  <2>12. ~ Lose(p) /\ (\A f \in File : ~ RemoteEdit(p, f)) /\ \A k \in Key : ~ PeerRekeys(p, k)
    <3>1. {"loss", "edit", "rekey"} \subseteq Kind
      BY DEF Kind
    <3> QED
      BY <1>0, <3>1, QuietSpend DEF Lose, RemoteEdit, PeerRekeys
  <2> QED
    BY <1>8, <2>0, <2>1, <2>2, <2>3, <2>4, <2>5, <2>6, <2>7, <2>8, <2>9, <2>10, <2>11,
       <2>12 DEF Protocol, Environment, LoopStep, OnChunk, Looking
<1> QED
  BY <1>6, <1>7, <1>8 DEF Next

-----------------------------------------------------------------------------
(* Entries stay faithful.                                                   *)

\* Every step but a restart keeps the file ids of what a peer has.
LEMMA EntryKept ==
  ASSUME ChunkInv, [Next]_vars, Undisturbed', ~ Restart
  PROVE  \A p \in Peer : \A f, h, k : IsFaithful(p, f, h, k) => IsFaithful(p, f, h, k)'
<1> USE DEF serverVars, diskVars, keyVars, schedVars
<1>0. /\ TypeOK /\ FaithfulChannels /\ UNCHANGED <<remote, txKey>>
  BY QuietNext DEF ChunkInv, WholeInv, Faithful
<1>1. \A q \in Peer : ServedKey(q)' = ServedKey(q) /\ Shared(q)' = Shared(q)
  BY <1>0 DEF ServedKey, Shared
<1> SUFFICES ASSUME NEW q \in Peer, NEW f \in Shared(q), ServedKey(q) # None
             PROVE  /\ <<ServedKey(q), f>> \in inbound[q]
                         => <<ServedKey(q), f>> \in inbound'[q]
                    /\ <<ServedKey(q), f>> \in outbound[q]
                         => <<ServedKey(q), f>> \in outbound'[q]
  BY <1>0, <1>1 DEF IsFaithful
<1>2. CASE UNCHANGED <<inbound, outbound>>
  BY <1>2
<1>3. ASSUME NEW p \in Peer, ServeManifest(p)
      PROVE  /\ inbound' = inbound
             /\ <<ServedKey(q), f>> \in outbound[q]
                  => <<ServedKey(q), f>> \in outbound'[q]
  <2> DEFINE ids == {<<ServedKey(p), g>> : g \in Shared(p)}
  <2>1. /\ inbound' = inbound
        /\ outbound' = IF ServedKey(p) = None THEN outbound
                       ELSE [outbound EXCEPT ![p] = ids]
    BY <1>3 DEF ServeManifest, ServedKey
  <2> QED
    BY <1>0, <2>1 DEF TypeOK
<1>4. ASSUME NEW p \in Peer, NEW m \in InFlight(p), OnManifest(p, m)
      PROVE  /\ outbound' = outbound
             /\ <<ServedKey(q), f>> \in inbound[q]
                  => <<ServedKey(q), f>> \in inbound'[q]
  <2> DEFINE ids == {<<m.key, g>> : g \in DOMAIN m.files}
  <2>1. /\ outbound' = outbound
        /\ inbound' = inbound \/ inbound' = [inbound EXCEPT ![p] = ids]
    BY <1>4 DEF OnManifest
  <2>2. m.key = ServedKey(p) /\ m.files = Restrict(remote[p], Shared(p))
    BY <1>0, <1>4 DEF FaithfulChannels, OnManifest
  <2>3. q = p => <<ServedKey(q), f>> \in ids
    BY <2>2 DEF Restrict
  <2> HIDE DEF ids
  <2>4. inbound \in [Peer -> SUBSET (Key \X File)]
    BY <1>0 DEF TypeOK
  <2> QED
    BY <2>1, <2>3, <2>4
<1>5. ASSUME NEW p \in Peer, Protocol(p) \/ Environment(p)
      PROVE  \/ UNCHANGED <<inbound, outbound>>
             \/ ServeManifest(p)
             \/ \E m \in InFlight(p) : OnManifest(p, m)
  <2>1. LoopStep(p) => UNCHANGED <<inbound, outbound>>
    BY DEF LoopStep, EndLoop, SkipPresent, BeginLookup, IndexFile, ReadLocal,
       WriteFromLocal, LocalWriteFails, Activate
  <2>2. \A m : OnChunk(p, m) \/ ServeChunk(p, m) \/ OnFileNotice(p, m)
                 => UNCHANGED <<inbound, outbound>>
    BY DEF OnChunk, DropChunk, RetryChunk, StoreChunk, FinishFile, FinishFails,
       ServeChunk, OnFileNotice
  <2>3. Connect(p) \/ NodeRekeys(p) \/ (\E g \in File : CheckStalls(p, g))
          => UNCHANGED <<inbound, outbound>>
    BY DEF Connect, NodeRekeys, CheckStalls
  <2>4. Environment(p) => UNCHANGED <<inbound, outbound>>
    BY DEF Environment, RequestSync, Disconnect, Lose, RemoteEdit, PeerRekeys
  <2> QED
    BY <1>5, <2>1, <2>2, <2>3, <2>4 DEF Protocol
<1>6. UNCHANGED vars \/ (\E g \in File : LocalEdit(g)) => UNCHANGED <<inbound, outbound>>
  BY DEF vars, LocalEdit
<1> QED
  BY <1>2, <1>3, <1>4, <1>5, <1>6 DEF Next

\* Which transfers a step may leave: those that were there, with their entry,
\* or one for the first file waiting.
LEMMA TransferFrom ==
  ASSUME TypeOK, [Next]_vars
  PROVE  \A p \in Peer : \A f \in DOMAIN active'[p] :
            \/ /\ f \in DOMAIN active[p]
               /\ active'[p][f].hashes = active[p][f].hashes
               /\ active'[p][f].hkey = active[p][f].hkey
            \/ /\ queue[p] # <<>>
               /\ f = Head(queue[p]).file
               /\ active'[p][f].hashes = Head(queue[p]).hashes
               /\ active'[p][f].hkey = Head(queue[p]).hkey
<1> USE DEF serverVars, diskVars, keyVars, schedVars
<1> SUFFICES ASSUME NEW q \in Peer, NEW g \in DOMAIN active'[q]
             PROVE  \/ /\ g \in DOMAIN active[q]
                       /\ active'[q][g].hashes = active[q][g].hashes
                       /\ active'[q][g].hkey = active[q][g].hkey
                    \/ /\ queue[q] # <<>>
                       /\ g = Head(queue[q]).file
                       /\ active'[q][g].hashes = Head(queue[q]).hashes
                       /\ active'[q][g].hkey = Head(queue[q]).hkey
  OBVIOUS
<1>0. active = [p \in Peer |-> active[p]]
  BY DEF TypeOK
<1>1. ASSUME NEW p \in Peer, NEW f \in DOMAIN active[p], NEW got, NEW next,
             active' = [active EXCEPT ![p][f] = Advance(active[p][f], got, next)]
      PROVE  /\ g \in DOMAIN active[q]
             /\ active'[q][g].hashes = active[q][g].hashes
             /\ active'[q][g].hkey = active[q][g].hkey
  <2> DEFINE u == Advance(active[p][f], got, next)
  <2>1. u.hashes = active[p][f].hashes /\ u.hkey = active[p][f].hkey
    BY DEF Advance
  <2> HIDE DEF u
  <2>2. active'[q] = IF q = p THEN [active[p] EXCEPT ![f] = u] ELSE active[q]
    BY <1>0, <1>1 DEF u
  <2> QED
    BY <2>1, <2>2
<1>2. CASE UNCHANGED active
  BY <1>2
<1>3. ASSUME NEW p \in Peer, Activate(p)
      PROVE  \/ g \in DOMAIN active[q] /\ active'[q][g] = active[q][g]
             \/ /\ q = p /\ queue[p] # <<>> /\ g = Head(queue[p]).file
                /\ active'[q][g].hashes = Head(queue[p]).hashes
                /\ active'[q][g].hkey = Head(queue[p]).hkey
  <2>1. PICK next :
          active' = [active EXCEPT ![p] = Put(Head(queue[p]).file, Started(p, next), @)]
    BY <1>3 DEF Activate
  <2> DEFINE u == Started(p, next)
  <2>2. u.hashes = Head(queue[p]).hashes /\ u.hkey = Head(queue[p]).hkey
    BY DEF Started
  <2>3. queue[p] # <<>>
    BY <1>3 DEF Activate, LookedUp, MayStart
  <2> HIDE DEF u
  <2>4. active'[q] = IF q = p THEN Put(Head(queue[p]).file, u, active[p]) ELSE active[q]
    BY <1>0, <2>1 DEF u
  <2> QED
    BY <2>2, <2>3, <2>4 DEF Put
<1>4. ASSUME NEW p \in Peer, NEW m, StoreChunk(p, m) \/ FinishFails(p, m)
      PROVE  /\ g \in DOMAIN active[q]
             /\ active'[q][g].hashes = active[q][g].hashes
             /\ active'[q][g].hkey = active[q][g].hkey
  <2>1. m.file \in DOMAIN active[p]
    BY <1>4 DEF StoreChunk, FinishFails, Accepted
  <2>2. active' = [active EXCEPT ![p][m.file] = Stored(p, m)]
    BY <1>4 DEF StoreChunk, FinishFails
  <2> QED
    BY <1>1, <2>1, <2>2 DEF Stored
<1>5. ASSUME NEW p \in Peer, NEW m, FinishFile(p, m)
      PROVE  g \in DOMAIN active[q] /\ active'[q][g] = active[q][g]
  <2>1. active'[q] = IF q = p THEN Drop(m.file, active[p]) ELSE active[q]
    BY <1>0, <1>5 DEF FinishFile
  <2> QED
    BY <2>1 DEF Drop
<1>6. ASSUME NEW p \in Peer, NEW f \in File, CheckStalls(p, f)
      PROVE  /\ g \in DOMAIN active[q]
             /\ active'[q][g].hashes = active[q][g].hashes
             /\ active'[q][g].hkey = active[q][g].hkey
  <2>1. /\ f \in DOMAIN active[p]
        /\ \E got, next : active' = [active EXCEPT ![p][f] = Advance(active[p][f], got, next)]
    BY <1>6 DEF CheckStalls, Later
  <2> QED
    BY <1>1, <2>1
<1>7. CASE Restart
  BY <1>7, NoTransfers DEF Restart
<1>8. ASSUME NEW p \in Peer, Disconnect(p)
      PROVE  g \in DOMAIN active[q] /\ active'[q][g] = active[q][g]
  <2>1. active'[q] = IF q = p THEN <<>> ELSE active[q]
    BY <1>0, <1>8 DEF Disconnect
  <2> QED
    BY <2>1, NoTransfers
<1>9. ASSUME NEW p \in Peer, Protocol(p) \/ Environment(p)
      PROVE  \/ UNCHANGED active \/ Activate(p) \/ Disconnect(p)
             \/ (\E m : StoreChunk(p, m) \/ FinishFails(p, m) \/ FinishFile(p, m))
             \/ (\E f \in File : CheckStalls(p, f))
  <2>1. \A m : DropChunk(p, m) \/ RetryChunk(p, m) \/ ServeChunk(p, m)
                 \/ OnManifest(p, m) \/ OnFileNotice(p, m) => UNCHANGED active
    BY DEF DropChunk, RetryChunk, ServeChunk, OnManifest, OnFileNotice
  <2>2. EndLoop(p) \/ SkipPresent(p) \/ WriteFromLocal(p) \/ LocalWriteFails(p)
          \/ Connect(p) \/ ServeManifest(p) \/ NodeRekeys(p) => UNCHANGED active
    BY DEF EndLoop, SkipPresent, WriteFromLocal, LocalWriteFails, Connect,
       ServeManifest, NodeRekeys
  <2>4. Looking(p) => UNCHANGED active
    BY DEF Looking, BeginLookup, IndexFile, ReadLocal
  <2>3. Environment(p) => UNCHANGED active \/ Disconnect(p)
    BY DEF Environment, RequestSync, Lose, RemoteEdit, PeerRekeys
  <2> QED
    BY <1>9, <2>1, <2>2, <2>3, <2>4 DEF Protocol, LoopStep, OnChunk, Looking
<1>10. UNCHANGED vars \/ (\E f \in File : LocalEdit(f)) => UNCHANGED active
  BY DEF vars, LocalEdit
<1> QED
  BY <1>2, <1>3, <1>4, <1>5, <1>6, <1>7, <1>8, <1>9, <1>10 DEF Next

\* Active files keep faithful entries.
LEMMA ActiveNext ==
  ASSUME ChunkInv, [Next]_vars, Undisturbed'
  PROVE  FaithfulActive'
<1>0. TypeOK /\ FaithfulQueue /\ FaithfulActive
  BY QuietNext DEF ChunkInv, WholeInv, Faithful
<1>1. CASE Restart
  BY <1>1, NoTransfers DEF Restart, FaithfulActive
<1>2. CASE ~ Restart
  BY <1>0, <1>2, EntryKept, TransferFrom, FaithfulHead DEF FaithfulActive
<1> QED
  BY <1>1, <1>2

\* The members of a concatenation are members of its parts.
LEMMA Concatenated ==
  ASSUME NEW R, NEW a \in Seq(R), NEW b \in Seq(R), NEW n \in DOMAIN (a \o b)
  PROVE  \/ \E i \in DOMAIN a : (a \o b)[n] = a[i]
         \/ \E i \in DOMAIN b : (a \o b)[n] = b[i]
<1>1. n \in 1 .. (Len(a) + Len(b)) /\ DOMAIN a = 1 .. Len(a) /\ DOMAIN b = 1 .. Len(b)
  BY ConcatProperties, LenProperties
<1>2. Len(a) \in Nat /\ Len(b) \in Nat
  BY LenProperties
<1>3. CASE n <= Len(a)
  <2>1. n \in DOMAIN a /\ (a \o b)[n] = a[n]
    BY <1>1, <1>2, <1>3, ConcatProperties
  <2> QED
    BY <2>1
<1>4. CASE ~ n <= Len(a)
  <2>1. n - Len(a) \in DOMAIN b /\ (a \o b)[n] = b[n - Len(a)]
    BY <1>1, <1>2, <1>4, ConcatProperties
  <2> QED
    BY <2>1
<1> QED
  BY <1>3, <1>4

\* Files join the queue as the manifest has them.
LEMMA QueueManifest ==
  ASSUME ChunkInv, Faithful, NEW p \in Peer, NEW m, OnManifest(p, m),
         UNCHANGED <<remote, txKey>>
  PROVE  \A q \in Peer : \A n \in DOMAIN queue'[q] :
            \/ \E i \in DOMAIN queue[q] : queue'[q][n] = queue[q][i]
            \/ \E x : queue'[q][n] = x /\ IsFaithful(q, x.file, x.hashes, x.hkey)'
<1>0. /\ TypeOK /\ FaithfulChannels /\ rxKey = txKey
  BY DEF ChunkInv, WholeInv, Faithful
<1>1. /\ m \in InFlight(p) /\ m.type = "Manifest"
      /\ outbound' = outbound
  BY DEF OnManifest, serverVars
<1>2. /\ m.key = ServedKey(p) /\ m.files = Restrict(remote[p], Shared(p))
      /\ m.key # None => outbound[p] = {<<m.key, f>> : f \in Shared(p)}
  BY <1>0, <1>1 DEF FaithfulChannels
<1>3. /\ DOMAIN m.files = Shared(p) /\ Shared(p) \subseteq File
      /\ \A f \in Shared(p) : m.files[f] = remote[p][f]
  BY <1>2 DEF Restrict, Shared
<1>4. CASE queue' = queue
  BY <1>4
<1>5. CASE queue' # queue
  <2>1. m.key # None => inbound'[p] = {<<m.key, f>> : f \in DOMAIN m.files}
    BY <1>0, <1>5 DEF OnManifest, TypeOK
  <2>2. PICK order \in SetToSeqs(Wanted(p, m.files)) :
          queue' = [queue EXCEPT ![p] = @ \o
                      [n \in DOMAIN order |->
                         Pending(order[n], m.files[order[n]], m.key)]]
    BY <1>5 DEF OnManifest
  <2> DEFINE join == [n \in DOMAIN order |->
                        Pending(order[n], m.files[order[n]], m.key)]
  <2>3. /\ Wanted(p, m.files) \subseteq Shared(p)
        /\ Wanted(p, m.files) \subseteq File
        /\ Wanted(p, m.files) \subseteq DOMAIN m.files
    BY <1>3 DEF Wanted
  <2>4. /\ m.files \in [DOMAIN m.files -> Seq(Data)]
        /\ m.key \in Key \cup {None}
    <3>1. IsMessage(m)
      BY <1>0, <1>1 DEF TypeOK, IsChannel, InFlight
    <3> QED
      BY <1>1, <3>1 DEF IsMessage, ManifestRequest
  <2>5. /\ Cardinality(Wanted(p, m.files)) \in Nat
        /\ order \in [1 .. Cardinality(Wanted(p, m.files)) -> Wanted(p, m.files)]
    BY <2>3, FileAssumption, FS_Subset, FS_CardinalityType DEF SetToSeqs
  <2>6. join \in Seq(PendingType)
    <3>1. \A i \in DOMAIN order :
             Pending(order[i], m.files[order[i]], m.key) \in PendingType
      BY <2>3, <2>4, <2>5 DEF Pending, PendingType
    <3>2. join \in [1 .. Cardinality(Wanted(p, m.files)) -> PendingType]
      BY <2>5, <3>1
    <3> QED
      BY <2>5, <3>2
  <2>7. ASSUME NEW i \in DOMAIN join, NEW x, x = join[i]
        PROVE  IsFaithful(p, x.file, x.hashes, x.hkey)'
    <3>1. order[i] \in Shared(p)
      BY <2>3, <2>5
    <3>2. /\ join[i].file = order[i] /\ join[i].hkey = m.key
          /\ join[i].hashes = m.files[order[i]]
      BY DEF Pending
    <3>3. ServedKey(p)' = ServedKey(p) /\ Shared(p)' = Shared(p)
      BY DEF ServedKey, Shared
    <3> HIDE DEF join
    <3> QED
      BY <1>1, <1>2, <1>3, <2>1, <2>7, <3>1, <3>2, <3>3 DEF IsFaithful
  <2>8. queue'[p] = queue[p] \o join /\ queue[p] \in Seq(PendingType)
    BY <1>0, <2>2 DEF TypeOK
  <2>9. \A q \in Peer \ {p} : queue'[q] = queue[q]
    BY <1>0, <2>2 DEF TypeOK
  <2> HIDE DEF join
  <2>10. \A n \in DOMAIN (queue[p] \o join) :
           \/ \E i \in DOMAIN queue[p] : (queue[p] \o join)[n] = queue[p][i]
           \/ \E i \in DOMAIN join : (queue[p] \o join)[n] = join[i]
    <3>1. \A a, b \in Seq(PendingType) : \A n \in DOMAIN (a \o b) :
             \/ \E i \in DOMAIN a : (a \o b)[n] = a[i]
             \/ \E i \in DOMAIN b : (a \o b)[n] = b[i]
      BY Concatenated
    <3> QED
      BY <2>8, <2>6, <3>1
  <2>11. \A n \in DOMAIN queue'[p] :
           \/ \E i \in DOMAIN queue[p] : queue'[p][n] = queue[p][i]
           \/ \E x : queue'[p][n] = x /\ IsFaithful(p, x.file, x.hashes, x.hkey)'
    BY <2>7, <2>8, <2>10
  <2> QED
    BY <2>9, <2>11
<1> QED
  BY <1>4, <1>5

\* Files waiting keep faithful entries.
LEMMA QueueNext ==
  ASSUME ChunkInv, [Next]_vars, Undisturbed'
  PROVE  FaithfulQueue'
<1> USE DEF serverVars, diskVars, keyVars, schedVars
<1>0. /\ TypeOK /\ Faithful /\ FaithfulQueue
      /\ UNCHANGED <<remote, txKey>>
  BY QuietNext DEF ChunkInv, WholeInv, Faithful
<1>1. CASE Restart
  BY <1>1 DEF Restart, FaithfulQueue
<1> DEFINE From(q) == \A n \in DOMAIN queue'[q] :
              \/ \E i \in DOMAIN queue[q] : queue'[q][n] = queue[q][i]
              \/ \E x : queue'[q][n] = x /\ IsFaithful(q, x.file, x.hashes, x.hkey)'
<1>2. CASE ~ Restart /\ \A q \in Peer : From(q)
  <2>1. \A q \in Peer : \A i \in DOMAIN queue[q] : \A x :
          x = queue[q][i] => IsFaithful(q, x.file, x.hashes, x.hkey)'
    BY <1>0, <1>2, EntryKept DEF FaithfulQueue
  <2>2. \A q \in Peer : \A n \in DOMAIN queue'[q] : \A x :
          x = queue'[q][n] => IsFaithful(q, x.file, x.hashes, x.hkey)'
    BY <1>2, <2>1
  <2> QED
    BY <2>2 DEF FaithfulQueue
<1> SUFFICES ASSUME ~ Restart, NEW q \in Peer PROVE From(q)
  BY <1>1, <1>2
<1>3. CASE UNCHANGED queue
  BY <1>3
<1>4. ASSUME NEW p \in Peer, queue[p] # <<>>, queue' = [queue EXCEPT ![p] = Tail(@)]
      PROVE  From(q)
  <2>1. queue'[q] = IF q = p THEN Tail(queue[p]) ELSE queue[q]
    BY <1>0, <1>4 DEF TypeOK
  <2>2. queue[p] \in Seq(PendingType)
    BY <1>0 DEF TypeOK
  <2>3. \A n \in DOMAIN Tail(queue[p]) :
           n + 1 \in DOMAIN queue[p] /\ Tail(queue[p])[n] = queue[p][n + 1]
    BY <1>4, <2>2, HeadTailProperties, LenProperties
  <2> QED
    BY <2>1, <2>3
<1>5. ASSUME NEW p \in Peer, Disconnect(p)
      PROVE  From(q)
  <2>1. queue'[q] = IF q = p THEN <<>> ELSE queue[q]
    BY <1>0, <1>5 DEF Disconnect, TypeOK
  <2> QED
    BY <2>1, NoTransfers
<1>6. ASSUME NEW p \in Peer, NEW m, OnManifest(p, m)
      PROVE  From(q)
  BY <1>0, <1>6, QueueManifest
<1>7. ASSUME NEW p \in Peer, Protocol(p) \/ Environment(p)
      PROVE  \/ UNCHANGED queue \/ Disconnect(p)
             \/ (\E m : OnManifest(p, m))
             \/ queue[p] # <<>> /\ queue' = [queue EXCEPT ![p] = Tail(@)]
  <2>1. \A m : OnChunk(p, m) \/ ServeChunk(p, m) \/ OnFileNotice(p, m)
                 => UNCHANGED queue
    BY DEF OnChunk, DropChunk, RetryChunk, StoreChunk, FinishFile, FinishFails,
       ServeChunk, OnFileNotice
  <2>2. Connect(p) \/ ServeManifest(p) \/ NodeRekeys(p) \/ EndLoop(p)
          \/ (\E f \in File : CheckStalls(p, f)) => UNCHANGED queue
    BY DEF Connect, ServeManifest, NodeRekeys, EndLoop, CheckStalls
  <2>3. SkipPresent(p) \/ WriteFromLocal(p) \/ LocalWriteFails(p) \/ Activate(p)
          => queue[p] # <<>> /\ queue' = [queue EXCEPT ![p] = Tail(@)]
    BY DEF SkipPresent, WriteFromLocal, LocalWriteFails, Activate, LookedUp, MayStart
  <2>5. Looking(p) => UNCHANGED queue
    BY DEF Looking, BeginLookup, IndexFile, ReadLocal
  <2>4. Environment(p) => UNCHANGED queue \/ Disconnect(p)
    BY DEF Environment, RequestSync, Lose, RemoteEdit, PeerRekeys
  <2> QED
    BY <1>7, <2>1, <2>2, <2>3, <2>4, <2>5 DEF Protocol, LoopStep, Looking
<1>8. UNCHANGED vars \/ (\E f \in File : LocalEdit(f)) => UNCHANGED queue
  BY DEF vars, LocalEdit
<1> QED
  BY <1>3, <1>4, <1>5, <1>6, <1>7, <1>8 DEF Next

-----------------------------------------------------------------------------
(* Chunks keep coming.                                                      *)

\* What is asked for of an active file can be served, and is known here.
LEMMA Servable ==
  ASSUME NoEmptyVersion, ChunkInv, Faithful,
         NEW p \in Peer, NEW f \in DOMAIN active[p]
  PROVE  LET t == active[p][f] IN
         /\ IsTransfer(t)
         /\ t.hkey = ServedKey(p)
         /\ Total(t.hashes) = Len(t.hashes)
         /\ DOMAIN t.hashes = 1 .. Total(t.hashes)
         /\ \A i \in 1 .. Total(t.hashes) : HasChunk(remote[p][f], i)
         /\ t.hkey # None => /\ txKey[p] # None /\ rxKey[p] # None
                             /\ <<t.hkey, f>> \in inbound[p]
                             /\ <<t.hkey, f>> \in outbound[p]
<1> DEFINE t == active[p][f]
<1>1. IsTransfer(t) /\ t.hashes \in Version[f] /\ f \in File
  BY DEF ChunkInv, WholeInv, WholeActive, TypeOK, IsTransferMap
<1>2. IsFaithful(p, f, t.hashes, t.hkey) /\ rxKey = txKey
  BY DEF Faithful, FaithfulActive
<1>3. t.hashes # <<>> /\ t.hashes \in Seq(Data)
  BY <1>1 DEF NoEmptyVersion, IsTransfer
<1>4. Total(t.hashes) = Len(t.hashes) /\ DOMAIN t.hashes = 1 .. Total(t.hashes)
  BY <1>3, TotalType, LenProperties
<1>5. \A i \in 1 .. Total(t.hashes) : HasChunk(remote[p][f], i)
  BY <1>2, <1>4 DEF HasChunk, IsFaithful, Shared
<1>6. t.hkey # None => txKey[p] # None
  BY <1>2 DEF IsFaithful, ServedKey
<1> HIDE DEF t
<1> QED
  BY <1>1, <1>2, <1>4, <1>5, <1>6 DEF IsFaithful, t

\* Any step that leaves the transfers alone keeps their chunks coming.
LEMMA ComingQuiet ==
  ASSUME AllComing, UNCHANGED active,
         \A p \in Peer : \A f \in DOMAIN active[p] :
            \A i \in 1 .. (active[p][f].next - 1) : IsComing(p, f, i) => IsComing(p, f, i)'
  PROVE  AllComing'
BY DEF AllComing

\* A peer answers what is asked of it.
LEMMA ComingServed ==
  ASSUME NoEmptyVersion, ChunkInv, Faithful, NEW p \in Peer, NEW r, ServeChunk(p, r)
  PROVE  AllComing'
<1> DEFINE x == ChunkResponse(r, txKey[p], remote[p][r.file][r.idx])
<1>0. NetOK /\ AllComing /\ FaithfulChannels
  BY DEF ChunkInv, WholeInv, TypeOK, NetOK, Faithful
<1>1. /\ r \in InFlight(p) /\ r.type = "ChunkRequest" /\ UNCHANGED active
      /\ IsChunkMessage(r)
  BY DEF ServeChunk, schedVars, IsChunkMessage
<1>2. CASE net' = Handled(p, r, {x})
  <2>1. IsChunkMessage(x) /\ x.key = r.key /\ x.file = r.file /\ x.idx = r.idx
    BY DEF ChunkResponse, IsChunkMessage
  <2> HIDE DEF x
  <2> QED
    BY <1>0, <1>1, <1>2, <2>1, ComingAgain, ComingQuiet
<1>3. CASE net' # Handled(p, r, {x})
  <2>1. net' = Handled(p, r, {})
    BY <1>3 DEF ServeChunk
  <2>2. CASE r.file \notin DOMAIN active[p]
    BY <1>0, <1>1, <2>1, <2>2, ComingStill, ComingQuiet
  <2>3. CASE r.file \in DOMAIN active[p]
    <3> DEFINE t == active[p][r.file]
    <3>1. r.key = t.hkey
      BY <1>0, <1>1, <2>3, Servable DEF FaithfulChannels
    <3>2. r.idx \notin 1 .. Total(t.hashes)
      <4>1. ~ (/\ HasChunk(remote[p][r.file], r.idx)
               /\ r.key # None => /\ txKey[p] # None
                                  /\ <<r.key, r.file>> \in outbound[p])
        BY <1>3 DEF ServeChunk
      <4> QED
        BY <2>3, <3>1, <4>1, Servable
    <3>3. /\ t.next \in Nat \ {0} /\ Total(t.hashes) \in Nat
          /\ t.next <= Total(t.hashes) + 1
      BY <1>0, <2>3, Servable, TotalType DEF AllComing, IsTransfer
    <3>4. \A i \in 1 .. (t.next - 1) : i \in 1 .. Total(t.hashes)
      BY <3>3
    <3> HIDE DEF t
    <3>5. ASSUME NEW q \in Peer, NEW f \in DOMAIN active[q],
                 NEW i \in 1 .. (active[q][f].next - 1),
                 NEW c \in Copies(q, active[q][f].hkey, f, i)
          PROVE  c \in Copies(q, active[q][f].hkey, f, i)'
      <4>1. /\ c \in InFlight(q) /\ c.file = f /\ c.idx = i
        BY DEF Copies
      <4>2. q # p \/ c # r
        BY <3>2, <3>4, <4>1 DEF t
      <4>3. c \in InFlight(q)'
        BY <1>0, <2>1, <4>1, <4>2, SentAlong
      <4> QED
        BY <1>1, <4>3 DEF Copies
    <3> QED
      BY <1>0, <1>1, <3>5, ComingQuiet DEF IsComing
  <2> QED
    BY <2>2, <2>3
<1> QED
  BY <1>2, <1>3

\* An answer that cannot be used is asked for again, unless its file left.
LEMMA ComingRetried ==
  ASSUME NoEmptyVersion, ChunkInv, Faithful, NEW p \in Peer, NEW m,
         DropChunk(p, m) \/ RetryChunk(p, m)
  PROVE  AllComing'
<1>0. NetOK /\ AllComing /\ FaithfulChannels
  BY DEF ChunkInv, WholeInv, TypeOK, NetOK, Faithful
<1>1. m \in InFlight(p) /\ IsChunkMessage(m) /\ UNCHANGED active
  BY DEF DropChunk, RetryChunk, Arrived, schedVars, IsChunkMessage
<1>2. CASE DropChunk(p, m)
  <2>1. m.file \notin DOMAIN active[p]
    <3> SUFFICES ASSUME m.file \in DOMAIN active[p] PROVE Known(p, m)
      BY <1>2 DEF DropChunk
    <3> QED
      BY <1>0, <1>1, Servable DEF FaithfulChannels, Known
  <2>2. net' = Handled(p, m, {})
    BY <1>2 DEF DropChunk
  <2> QED
    BY <1>0, <1>1, <2>1, <2>2, ComingStill, ComingQuiet
<1>3. CASE RetryChunk(p, m)
  <2> DEFINE x == ChunkRequest(m.key, m.file, m.idx)
  <2>1. IsChunkMessage(x) /\ x.key = m.key /\ x.file = m.file /\ x.idx = m.idx
    BY DEF ChunkRequest, IsChunkMessage
  <2>2. net' = Handled(p, m, {x})
    BY <1>3 DEF RetryChunk
  <2> HIDE DEF x
  <2> QED
    BY <1>0, <1>1, <2>1, <2>2, ComingAgain, ComingQuiet
<1> QED
  BY <1>2, <1>3

\* A chunk that is stored leaves the others coming and asks for the next.
LEMMA ComingStored ==
  ASSUME NoEmptyVersion, ChunkInv, Faithful, NEW p \in Peer, NEW m,
         StoreChunk(p, m) \/ FinishFile(p, m) \/ FinishFails(p, m)
  PROVE  AllComing'
<1> DEFINE t == active[p][m.file]
           u == Stored(p, m)
<1>0. /\ TypeOK /\ NetOK /\ AllComing /\ FaithfulChannels
      /\ active = [q \in Peer |-> active[q]]
  BY DEF ChunkInv, WholeInv, TypeOK, NetOK, Faithful
<1>1. /\ m \in InFlight(p) /\ IsChunkMessage(m) /\ m.file \in DOMAIN active[p]
      /\ net' = Handled(p, m, Following(p, m))
  BY DEF StoreChunk, FinishFile, FinishFails, Accepted, Arrived, IsChunkMessage
<1>2. /\ m.key = t.hkey /\ IsTransfer(t)
      /\ t.next \in Nat \ {0} /\ Total(t.hashes) \in Nat
      /\ t.next <= Total(t.hashes) + 1
  <2>1. IsTransfer(t) /\ t.hkey = ServedKey(p)
    BY <1>1, Servable
  <2>2. m.key = ServedKey(p)
    BY <1>0, <1>1 DEF FaithfulChannels
  <2>3. t.next <= Total(t.hashes) + 1
    BY <1>0, <1>1 DEF AllComing
  <2> HIDE DEF t
  <2> QED
    BY <2>1, <2>2, <2>3, TotalType DEF IsTransfer
<1>3. /\ u.hashes = t.hashes /\ u.hkey = t.hkey
      /\ u.got = Put(m.idx, m.data, t.got)
      /\ u.next = IF t.next <= Total(t.hashes) THEN t.next + 1 ELSE t.next
  BY DEF Stored, Advance
<1>4. DOMAIN u.got = DOMAIN t.got \cup {m.idx}
  BY <1>3 DEF Put
<1>5. \A i : i = t.next /\ t.next <= Total(t.hashes)
                => Copies(p, m.key, m.file, i)' # {}
  <2> SUFFICES ASSUME NEW i, i = t.next, t.next <= Total(t.hashes)
               PROVE  Copies(p, m.key, m.file, i)' # {}
    OBVIOUS
  <2> DEFINE x == ChunkRequest(m.key, m.file, i)
  <2>1. x \in Following(p, m)
    BY DEF Following
  <2>2. x \in InFlight(p)'
    BY <1>0, <1>1, <2>1, SentAlong
  <2>3. /\ x.type = "ChunkRequest" /\ x.key = m.key /\ x.file = m.file
        /\ x.idx = i
    BY DEF ChunkRequest
  <2> HIDE DEF x
  <2> QED
    BY <2>2, <2>3 DEF Copies
<1>6. ASSUME NEW q \in Peer, NEW f, NEW k, NEW i,
             q # p \/ f # m.file \/ i # m.idx,
             Copies(q, k, f, i) # {}
      PROVE  Copies(q, k, f, i)' # {}
  <2>1. PICK c : c \in Copies(q, k, f, i)
    BY <1>6
  <2>2. c \in InFlight(q) /\ c.file = f /\ c.idx = i
    BY <2>1 DEF Copies
  <2>3. q # p \/ c # m
    BY <1>6, <2>2
  <2>4. c \in InFlight(q)'
    BY <1>0, <1>1, <2>2, <2>3, SentAlong
  <2> QED
    BY <2>1, <2>4 DEF Copies
<1> DEFINE Good(q, g, a) ==
             /\ a.next <= Total(a.hashes) + 1
             /\ \A i \in 1 .. (a.next - 1) :
                   i \in DOMAIN a.got \/ Copies(q, a.hkey, g, i)' # {}
<1>7. ASSUME NEW q \in Peer, NEW g \in DOMAIN active[q], NEW a,
             a = active[q][g], q # p \/ g # m.file
      PROVE  Good(q, g, a)
  <2>1. /\ a.next <= Total(a.hashes) + 1
        /\ \A i \in 1 .. (a.next - 1) :
              i \in DOMAIN a.got \/ Copies(q, a.hkey, g, i) # {}
    BY <1>0, <1>7 DEF AllComing, IsComing
  <2> QED
    BY <1>6, <1>7, <2>1
<1>8. ASSUME NEW a, a = u
      PROVE  Good(p, m.file, a)
  <2>1. \A i \in 1 .. (t.next - 1) :
           i \in DOMAIN t.got \/ Copies(p, t.hkey, m.file, i) # {}
    BY <1>0, <1>1 DEF AllComing, IsComing
  <2> HIDE DEF t, u
  <2>2. a.next <= Total(a.hashes) + 1
    BY <1>2, <1>3, <1>8
  <2>3. ASSUME NEW i \in 1 .. (a.next - 1)
        PROVE  i \in DOMAIN a.got \/ Copies(p, m.key, m.file, i)' # {}
    <3>1. i \in 1 .. (t.next - 1) \/ (i = t.next /\ t.next <= Total(t.hashes))
      BY <1>2, <1>3, <1>8
    <3>2. CASE i = t.next /\ t.next <= Total(t.hashes)
      BY <1>5, <3>2
    <3>3. CASE i \in 1 .. (t.next - 1) /\ i # m.idx
      <4>1. i \in DOMAIN t.got \/ Copies(p, m.key, m.file, i) # {}
        BY <1>2, <2>1, <3>3
      <4> QED
        BY <1>4, <1>6, <1>8, <3>3, <4>1
    <3>4. CASE i = m.idx
      BY <1>4, <1>8, <3>4
    <3> QED
      BY <3>1, <3>2, <3>3, <3>4
  <2>4. a.hkey = m.key
    BY <1>2, <1>3, <1>8
  <2> QED
    BY <2>2, <2>3, <2>4
<1>9. \A q \in Peer : \A g \in DOMAIN active'[q] :
         \/ g \in DOMAIN active[q] /\ active'[q][g] = active[q][g] /\ (q # p \/ g # m.file)
         \/ q = p /\ g = m.file /\ active'[q][g] = u
  <2> HIDE DEF t, u
  <2>1. CASE active' = [active EXCEPT ![p][m.file] = u]
    BY <1>0, <1>1, <2>1
  <2>2. CASE active' = [active EXCEPT ![p] = Drop(m.file, @)]
    BY <1>0, <1>1, <2>2 DEF Drop
  <2> QED
    BY <2>1, <2>2 DEF StoreChunk, FinishFile, FinishFails, u
<1>10. \A q \in Peer : \A g \in DOMAIN active'[q] : \A a :
          a = active'[q][g] => Good(q, g, a)
  <2> HIDE DEF u, Good
  <2> QED
    BY <1>7, <1>8, <1>9
<1> HIDE DEF t, u
<1> QED
  BY <1>10 DEF AllComing, IsComing, Copies, InFlight

\* The requests for some chunks of a file that were sent.
LEMMA RequestsFly ==
  ASSUME NetOK, NEW p \in Peer, NEW f, NEW k, NEW S, net' = Sent(p, Requests(f, k, S))
  PROVE  /\ \A i \in S : Copies(p, k, f, i)' # {}
         /\ \A q \in Peer : \A g, j, i : Copies(q, j, g, i) # {} => Copies(q, j, g, i)' # {}
<1>1. \A q \in Peer : InFlight(q) \subseteq InFlight(q)'
  BY SentAlong
<1>2. Requests(f, k, S) \subseteq InFlight(p)'
  BY SentAlong
<1>3. ASSUME NEW i \in S
      PROVE  Copies(p, k, f, i)' # {}
  <2> DEFINE x == ChunkRequest(k, f, i)
  <2>1. x \in InFlight(p)'
    BY <1>2 DEF Requests
  <2>2. x.type = "ChunkRequest" /\ x.key = k /\ x.file = f /\ x.idx = i
    BY DEF ChunkRequest
  <2> HIDE DEF x
  <2> QED
    BY <2>1, <2>2 DEF Copies
<1>4. \A q \in Peer : \A g, j, i : Copies(q, j, g, i) # {} => Copies(q, j, g, i)' # {}
  BY <1>1 DEF Copies
<1> QED
  BY <1>3, <1>4

\* A step that requests the chunks S of file f from p and leaves the transfer
\* u of it, whose chunks below next were coming or are now asked for.
Asks(p, f, u, S) ==
    /\ net' = Sent(p, Requests(f, u.hkey, S))
    /\ \A q \in Peer : \A g \in DOMAIN active'[q] :
          \/ g \in DOMAIN active[q] /\ active'[q][g] = active[q][g]
          \/ q = p /\ g = f /\ active'[q][g] = u
    /\ u.next <= Total(u.hashes) + 1
    /\ \A i \in 1 .. (u.next - 1) :
          i \in DOMAIN u.got \/ i \in S \/ Copies(p, u.hkey, f, i) # {}

LEMMA ComingAsked ==
  ASSUME TypeOK, AllComing, NEW p \in Peer, NEW f \in File, NEW u, NEW S,
         Asks(p, f, u, S)
  PROVE  AllComing'
<1> USE DEF Asks
<1>0. NetOK
  BY DEF TypeOK, NetOK
<1>1. /\ \A i \in S : Copies(p, u.hkey, f, i)' # {}
      /\ \A q \in Peer : \A g, j, i : Copies(q, j, g, i) # {} => Copies(q, j, g, i)' # {}
  BY <1>0, RequestsFly
<1>2. ASSUME NEW q \in Peer, NEW g \in DOMAIN active'[q], NEW a, a = active'[q][g]
      PROVE  /\ a.next <= Total(a.hashes) + 1
             /\ \A i \in 1 .. (a.next - 1) :
                   i \in DOMAIN a.got \/ Copies(q, a.hkey, g, i)' # {}
  <2>1. CASE g \in DOMAIN active[q] /\ a = active[q][g]
    <3>1. /\ a.next <= Total(a.hashes) + 1
          /\ \A i \in 1 .. (a.next - 1) :
                i \in DOMAIN a.got \/ Copies(q, a.hkey, g, i) # {}
      BY <2>1 DEF AllComing, IsComing
    <3> QED
      BY <1>1, <3>1
  <2>2. CASE q = p /\ g = f /\ a = u
    BY <1>1, <2>2
  <2> QED
    BY <1>2, <2>1, <2>2
<1> QED
  BY <1>2 DEF AllComing, IsComing, Copies, InFlight

\* The first requests of a file are for every missing chunk below next.
LEMMA ComingActivated ==
  ASSUME ChunkInv, Faithful, NEW p \in Peer, Activate(p)
  PROVE  AllComing'
<1> DEFINE pf     == Head(queue[p])
           hits   == DOMAIN draft.got
           needed == (1 .. Total(pf.hashes)) \ hits
           first  == Smallest(needed, Window)
           next   == IF needed = first THEN Total(pf.hashes) + 1
                     ELSE Min(needed \ first)
           u      == Started(p, next)
<1>0. TypeOK /\ AllComing /\ active = [q \in Peer |-> active[q]]
  BY DEF ChunkInv, WholeInv, TypeOK, Faithful
<1>1. /\ active' = [active EXCEPT ![p] = Put(pf.file, u, @)]
      /\ net' = Sent(p, Requests(pf.file, pf.hkey, first))
      /\ queue[p] # <<>>
  BY DEF Activate, LookedUp, MayStart
<1>2. /\ pf.file \in File /\ pf.hashes \in Seq(Data) /\ pf.hkey \in Key \cup {None}
  BY <1>0, <1>1, HeadOfQueue DEF PendingType
<1>3. /\ u.hashes = pf.hashes /\ u.hkey = pf.hkey /\ u.next = next
      /\ DOMAIN u.got = hits
  BY DEF Started
<1> HIDE DEF pf, hits, u
<1>4. Total(pf.hashes) \in Nat \ {0}
  BY <1>2, TotalType
<1>5. needed \subseteq 1 .. Total(pf.hashes)
  OBVIOUS
<1>6. /\ needed \subseteq Int /\ IsFiniteSet(needed) /\ first \subseteq needed
  BY <1>4, <1>5, ChunkNumbers
<1>7. \A i \in 1 .. Total(pf.hashes) : i \in hits \/ i \in needed
  OBVIOUS
<1> HIDE DEF needed, first
<1>8. /\ next <= Total(pf.hashes) + 1
      /\ \A i \in 1 .. (next - 1) : i \in hits \/ i \in first
  <2>1. CASE needed = first
    BY <1>4, <1>7, <2>1
  <2>2. CASE needed # first
    <3>1. /\ needed \ first \subseteq Int /\ needed \ first # {}
          /\ IsFiniteSet(needed \ first)
      BY <1>6, <2>2, FS_Subset
    <3>2. /\ next \in needed \ first
          /\ \A y \in needed \ first : next <= y
      BY <2>2, <3>1, MinOfFinite
    <3> HIDE DEF next
    <3>3. next \in Int /\ next <= Total(pf.hashes)
      BY <1>4, <1>5, <3>2
    <3>4. ASSUME NEW i \in 1 .. (next - 1), i \notin hits
          PROVE  i \in first
      <4>1. i \in 1 .. Total(pf.hashes) /\ i < next
        BY <1>4, <3>3
      <4>2. i \in needed /\ i \in Int
        BY <1>7, <3>4, <4>1
      <4> QED
        BY <3>2, <3>3, <4>1, <4>2
    <3> QED
      BY <1>4, <3>3, <3>4
  <2> QED
    BY <2>1, <2>2
<1> HIDE DEF next
<1>9. \A q \in Peer : \A g \in DOMAIN active'[q] :
         \/ g \in DOMAIN active[q] /\ active'[q][g] = active[q][g]
         \/ q = p /\ g = pf.file /\ active'[q][g] = u
  BY <1>0, <1>1 DEF Put
<1>10. Asks(p, pf.file, u, first)
  BY <1>1, <1>3, <1>8, <1>9 DEF Asks
<1> QED
  BY <1>0, <1>2, <1>10, ComingAsked

\* With a chunk, every missing one below it is among the smallest.
LEMMA SmallestBelow ==
  ASSUME NEW S, S \subseteq Int, IsFiniteSet(S), NEW n \in Nat,
         NEW j \in Smallest(S, n), NEW i \in S, i <= j
  PROVE  i \in Smallest(S, n)
<1> DEFINE A == {x \in S : x < i}
           B == {x \in S : x < j}
<1>1. j \in S /\ Cardinality(B) < n
  BY DEF Smallest
<1>2. IsFiniteSet(B)
  BY FS_Subset
<1>3. A \subseteq B
  <2>1. i \in Int /\ j \in Int
    BY <1>1
  <2>2. ASSUME NEW x \in S, x < i
        PROVE  x < j
    <3>1. x \in Int
      OBVIOUS
    <3> QED
      BY <2>1, <2>2, <3>1
  <2> QED
    BY <2>2
<1>4. Cardinality(A) <= Cardinality(B) /\ Cardinality(A) \in Nat /\ Cardinality(B) \in Nat
  BY <1>2, <1>3, FS_Subset, FS_CardinalityType
<1>5. Cardinality(A) < n
  <2> HIDE DEF A, B
  <2> QED
    BY <1>1, <1>4
<1> QED
  BY <1>5 DEF Smallest

\* A stall asks for every missing chunk between the old next and the new one.
LEMMA ComingStalled ==
  ASSUME NoEmptyVersion, ChunkInv, Faithful, NEW p \in Peer, NEW f \in File,
         CheckStalls(p, f)
  PROVE  AllComing'
<1> DEFINE t    == active[p][f]
           late == Smallest(Missing(t), Window)
           next == Max({t.next, Max(late) + 1})
           u    == Advance(t, t.got, next)
<1>0. TypeOK /\ AllComing /\ active = [q \in Peer |-> active[q]]
  BY DEF ChunkInv, WholeInv, TypeOK, Faithful
<1>1. /\ f \in DOMAIN active[p] /\ late # {}
      /\ net' = Sent(p, Requests(f, t.hkey, late))
      /\ active' = [active EXCEPT ![p][f] = u]
  BY DEF CheckStalls, Later
<1>2. /\ u.hashes = t.hashes /\ u.hkey = t.hkey /\ u.got = t.got /\ u.next = next
  BY DEF Advance
<1>3. /\ t.next <= Total(t.hashes) + 1
      /\ \A i \in 1 .. (t.next - 1) :
            i \in DOMAIN t.got \/ Copies(p, t.hkey, f, i) # {}
  BY <1>0, <1>1 DEF AllComing, IsComing
<1>4. IsTransfer(t)
  BY <1>0, <1>1 DEF TypeOK, IsTransferMap
<1> HIDE DEF t, u
<1>5. Total(t.hashes) \in Nat /\ t.next \in Nat \ {0}
  BY <1>4, TotalType DEF IsTransfer
<1>6. Missing(t) \subseteq 1 .. Total(t.hashes)
  BY DEF Missing
<1>7. /\ Missing(t) \subseteq Int /\ IsFiniteSet(Missing(t))
      /\ late \subseteq Missing(t) /\ late \subseteq Int /\ IsFiniteSet(late)
  BY <1>5, <1>6, ChunkNumbers, FS_Subset
<1>8. Window \in Nat
  BY LimitsAssumption
<1>9. /\ Max(late) \in late
      /\ Max(late) \in 1 .. Total(t.hashes)
  <2> HIDE DEF late
  <2> QED
    BY <1>1, <1>6, <1>7, MaxOfFinite
<1>10. \A i \in Missing(t) : i <= Max(late) => i \in late
  BY <1>7, <1>8, <1>9, SmallestBelow
<1> HIDE DEF late
<1>11. /\ next \in {t.next, Max(late) + 1}
       /\ next <= Total(t.hashes) + 1
  <2> DEFINE a == t.next
             b == Max(late) + 1
  <2>1. a \in Int /\ b \in Int /\ a <= Total(t.hashes) + 1 /\ b <= Total(t.hashes) + 1
    BY <1>3, <1>5, <1>9
  <2> HIDE DEF a, b
  <2>2. IsFiniteSet({a, b})
    <3>1. IsFiniteSet({a})
      BY FS_Singleton
    <3>2. IsFiniteSet({a} \cup {b}) /\ {a} \cup {b} = {a, b}
      BY <3>1, FS_AddElement
    <3> QED
      BY <3>2
  <2>3. Max({a, b}) \in {a, b}
    BY <2>1, <2>2, MaxOfFinite
  <2> QED
    BY <2>1, <2>3 DEF a, b
<1> HIDE DEF next
<1>12. ASSUME NEW i \in 1 .. (next - 1)
       PROVE  i \in DOMAIN t.got \/ i \in late \/ Copies(p, t.hkey, f, i) # {}
  <2>1. i \in 1 .. (t.next - 1) \/ i <= Max(late)
    BY <1>5, <1>9, <1>11
  <2>2. CASE i \in 1 .. (t.next - 1)
    BY <1>3, <2>2
  <2>3. CASE i <= Max(late)
    <3>1. i \in 1 .. Total(t.hashes)
      BY <1>5, <1>9, <2>3
    <3> QED
      BY <1>10, <2>3, <3>1 DEF Missing
  <2> QED
    BY <2>1, <2>2, <2>3
<1>13. \A q \in Peer : \A g \in DOMAIN active'[q] :
         \/ g \in DOMAIN active[q] /\ active'[q][g] = active[q][g]
         \/ q = p /\ g = f /\ active'[q][g] = u
  BY <1>0, <1>1
<1>14. Asks(p, f, u, late)
  BY <1>1, <1>2, <1>11, <1>12, <1>13 DEF Asks
<1> QED
  BY <1>0, <1>14, ComingAsked

\* Chunks keep coming whatever happens in the quiet.
LEMMA ComingNext ==
  ASSUME NoEmptyVersion, ChunkInv, [Next]_vars, Undisturbed'
  PROVE  AllComing'
<1> USE DEF serverVars, diskVars, keyVars, schedVars
<1>0. /\ TypeOK /\ NetOK /\ Faithful /\ AllComing
      /\ active = [q \in Peer |-> active[q]]
  BY QuietNext DEF ChunkInv, WholeInv, Faithful, TypeOK, NetOK
<1>1. CASE UNCHANGED <<active, net>>
  BY <1>1, <1>0 DEF AllComing, IsComing, Copies, InFlight
<1>2. ASSUME NEW p \in Peer, NEW S, NEW m, UNCHANGED active,
             \/ net' = Sent(p, S)
             \/ net' = Handled(p, m, S) /\ ~ IsChunkMessage(m)
      PROVE  AllComing'
  BY <1>0, <1>2, ComingStill, ComingQuiet
<1>3. CASE UNCHANGED vars \/ \E f \in File : LocalEdit(f)
  BY <1>1, <1>3 DEF vars, LocalEdit
<1>4. CASE Restart
  BY <1>4, NoTransfers DEF Restart, AllComing
<1>5. ASSUME NEW p \in Peer, Protocol(p) \/ Environment(p)
      PROVE  AllComing'
  <2>1. CASE EndLoop(p) \/ SkipPresent(p) \/ WriteFromLocal(p) \/ LocalWriteFails(p)
             \/ NodeRekeys(p)
    BY <1>1, <2>1 DEF EndLoop, SkipPresent, WriteFromLocal, LocalWriteFails, NodeRekeys
  <2>0. CASE Looking(p)
    BY <1>1, <2>0 DEF Looking, BeginLookup, IndexFile, ReadLocal
  <2>2. CASE Connect(p) \/ RequestSync(p)
    BY <1>2, <2>2 DEF Connect, RequestSync
  <2>3. CASE Disconnect(p)
    <3>1. /\ \A q \in Peer : active'[q] = IF q = p THEN <<>> ELSE active[q]
          /\ \A q \in Peer \ {p} : net'[q] = net[q]
      BY <1>0, <2>3 DEF Disconnect, NetOK
    <3>2. ASSUME NEW q \in Peer, NEW g \in DOMAIN active'[q]
          PROVE  /\ q # p /\ g \in DOMAIN active[q] /\ active'[q] = active[q]
                 /\ InFlight(q)' = InFlight(q)
      BY <3>1, NoTransfers DEF InFlight
    <3> QED
      BY <1>0, <3>2 DEF AllComing, IsComing, Copies
  <2>4. CASE ServeManifest(p)
    <3>1. ~ IsChunkMessage(ManifestRequest)
      BY DEF IsChunkMessage, ManifestRequest
    <3>2. \E S : net' = Handled(p, ManifestRequest, S)
      BY <2>4 DEF ServeManifest
    <3> QED
      BY <1>2, <2>4, <3>1, <3>2 DEF ServeManifest
  <2>5. CASE Activate(p)
    BY <1>0, <2>5, ComingActivated
  <2>6. ASSUME NEW r \in InFlight(p), ServeChunk(p, r)
        PROVE  AllComing'
    BY <1>0, <2>6, ComingServed
  <2>7. ASSUME NEW m \in InFlight(p), OnManifest(p, m) \/ OnFileNotice(p, m)
        PROVE  AllComing'
    <3>1. \E S : net' = Handled(p, m, S)
      BY <2>7 DEF OnManifest, OnFileNotice
    <3> QED
      BY <1>2, <2>7, <3>1 DEF OnManifest, OnFileNotice, IsChunkMessage
  <2>8. ASSUME NEW m \in InFlight(p), DropChunk(p, m) \/ RetryChunk(p, m)
        PROVE  AllComing'
    BY <1>0, <2>8, ComingRetried
  <2>9. ASSUME NEW m \in InFlight(p),
               StoreChunk(p, m) \/ FinishFile(p, m) \/ FinishFails(p, m)
        PROVE  AllComing'
    BY <1>0, <2>9, ComingStored
  <2>10. ASSUME NEW f \in File, CheckStalls(p, f)
         PROVE  AllComing'
    BY <1>0, <2>10, ComingStalled
  <2>11. ~ Lose(p) /\ (\A f \in File : ~ RemoteEdit(p, f)) /\ \A k \in Key : ~ PeerRekeys(p, k)
    <3>1. {"loss", "edit", "rekey"} \subseteq Kind
      BY DEF Kind
    <3> QED
      BY <1>0, <3>1, QuietSpend DEF Lose, RemoteEdit, PeerRekeys
  <2> QED
    BY <1>5, <2>0, <2>1, <2>2, <2>3, <2>4, <2>5, <2>6, <2>7, <2>8, <2>9, <2>10, <2>11
       DEF Protocol, Environment, LoopStep, OnChunk, Looking
<1> QED
  BY <1>3, <1>4, <1>5 DEF Next

-----------------------------------------------------------------------------
LEMMA ChunkInit == Init => ChunkInv
<1> SUFFICES ASSUME Init PROVE Faithful
  BY WholeInit DEF ChunkInv
<1>1. FaithfulChannels
  BY EmptyChannel DEF Init, FaithfulChannels, InFlight
<1>2. FaithfulQueue /\ FaithfulActive /\ AllComing
  BY NoTransfers DEF Init, FaithfulQueue, FaithfulActive, AllComing
<1> QED
  BY <1>1, <1>2 DEF Init, Faithful

LEMMA ChunkNext == NoEmptyVersion /\ ChunkInv /\ [Next]_vars => ChunkInv'
<1> SUFFICES ASSUME NoEmptyVersion, ChunkInv, [Next]_vars PROVE ChunkInv'
  OBVIOUS
<1>1. WholeInv'
  BY WholeNext DEF ChunkInv
<1>2. ASSUME Undisturbed'
      PROVE  Faithful'
  <2>1. rxKey' = txKey'
    BY <1>2, QuietNext DEF Faithful
  <2> QED
    BY <1>2, <2>1, ChannelsNext, QueueNext, ActiveNext, ComingNext DEF Faithful
<1> QED
  BY <1>1, <1>2 DEF ChunkInv

\* As long as no message is lost, no file edited at a peer and no key changed,
\* every chunk below next that a transfer lacks is asked for or answered: the
\* invariant NoChunkForgotten, for versions that have a chunk (handle_chunk,
\* start_queued_files and check_stalls of handler.rs).
THEOREM NoChunkForgottenHolds ==
  ASSUME NoEmptyVersion
  PROVE  Spec => []NoChunkForgotten
<1>1. Init => ChunkInv
  BY ChunkInit
<1>2. ChunkInv /\ [Next]_vars => ChunkInv'
  BY ChunkNext
<1>3. ChunkInv => NoChunkForgotten
  BY DEF ChunkInv, Undisturbed, Faithful, AllComing, IsComing, NoChunkForgotten
<1> QED
  BY <1>1, <1>2, <1>3, PTL DEF Spec

=============================================================================
