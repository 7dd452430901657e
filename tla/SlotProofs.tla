----------------------------- MODULE SlotProofs -----------------------------
(***************************************************************************)
(* Slots and queues of the download scheduler: no slot is exceeded or left *)
(* idle while a file waits, no file is taken up twice, and no transfer     *)
(* loses what it has, for every set of peers and files, every number of    *)
(* slots and every size of a window.                                       *)
(***************************************************************************)
EXTENDS DownloadProofs

SlotInv == TypeOK /\ WorkConserving /\ NoDuplicateTransfer

\* What a step may do to the schedule of a peer.
Calm(q) == DOMAIN active'[q] = DOMAIN active[q] /\ queue'[q] = queue[q]
Forgets(q) == DOMAIN active'[q] = {} /\ queue'[q] = <<>>

Quiet == \/ loop' = loop /\ \A q \in Peer : Calm(q) \/ Forgets(q)
         \/ loop' = None /\ \A q \in Peer : Forgets(q)

Frees(p) ==
    /\ loop' = p
    /\ \A q \in Peer : q # p => Calm(q)
    /\ DOMAIN active'[p] \subseteq DOMAIN active[p]
    /\ queue'[p] = queue[p]

Takes(p) ==
    /\ MayStart(p) /\ loop' = p
    /\ \A q \in Peer : q # p => Calm(q)
    /\ DOMAIN active'[p] \in {DOMAIN active[p], DOMAIN active[p] \cup {Head(queue[p]).file}}
    /\ queue'[p] = Tail(queue[p])

\* Files that come with a manifest: each once, and none that is there.
Joins(p, join) ==
    /\ join \in Seq(PendingType)
    /\ \A i, j \in DOMAIN join : join[i].file = join[j].file => i = j
    /\ \A i \in DOMAIN join : join[i].file \notin DOMAIN active[p] \cup Waiting(p)

Queues(p) ==
    /\ loop = None /\ loop' = p
    /\ \A q \in Peer : q # p => Calm(q)
    /\ DOMAIN active'[p] = DOMAIN active[p]
    /\ \E join : Joins(p, join) /\ queue'[p] = queue[p] \o join

-----------------------------------------------------------------------------
(* What these do to the invariants.                                         *)

\* The transfers of a peer are finitely many.
LEMMA FewTransfers ==
  ASSUME TypeOK, NEW p \in Peer
  PROVE  DOMAIN active[p] \subseteq File /\ IsFiniteSet(DOMAIN active[p])
BY FileAssumption, FS_Subset DEF TypeOK, IsTransferMap

LEMMA FewerTransfers ==
  ASSUME TypeOK, NEW p \in Peer, NEW S, S \subseteq DOMAIN active[p]
  PROVE  Cardinality(S) <= Cardinality(DOMAIN active[p])
         /\ Cardinality(S) \in Nat /\ Cardinality(DOMAIN active[p]) \in Nat
BY FewTransfers, FS_Subset, FS_CardinalityType

LEMMA SlotQuiet ==
  ASSUME SlotInv, Quiet
  PROVE  WorkConserving' /\ NoDuplicateTransfer'
<1>1. Cardinality({}) = 0 /\ MaxConcurrentFiles \in Nat \ {0}
  BY FS_EmptySet, LimitsAssumption
<1>2. ASSUME NEW q \in Peer
      PROVE  /\ Cardinality(DOMAIN active'[q]) <= MaxConcurrentFiles
             /\ loop' # q /\ queue'[q] # <<>>
                  => Cardinality(DOMAIN active'[q]) = MaxConcurrentFiles
  <2>1. CASE Forgets(q)
    BY <1>1, <2>1 DEF Forgets
  <2>2. CASE Calm(q) /\ loop' = loop
    BY <2>2 DEF Calm, SlotInv, WorkConserving
  <2> QED
    BY <2>1, <2>2 DEF Quiet
<1>3. NoDuplicateTransfer'
  BY DEF SlotInv, Quiet, Calm, Forgets, NoDuplicateTransfer, Waiting
<1> QED
  BY <1>2, <1>3 DEF WorkConserving

LEMMA SlotEndLoop ==
  ASSUME SlotInv, NEW p \in Peer, EndLoop(p)
  PROVE  WorkConserving' /\ NoDuplicateTransfer'
<1>1. /\ UNCHANGED <<active, queue>> /\ loop = p /\ loop' = None
      /\ queue[p] # <<>> => ~ (Cardinality(DOMAIN active[p]) < MaxConcurrentFiles)
  BY DEF EndLoop, MayStart
<1>2. Cardinality(DOMAIN active[p]) \in Nat /\ MaxConcurrentFiles \in Nat
  BY FewerTransfers, LimitsAssumption DEF SlotInv
<1>3. WorkConserving'
  BY <1>1, <1>2 DEF SlotInv, WorkConserving
<1>4. NoDuplicateTransfer'
  BY <1>1 DEF SlotInv, NoDuplicateTransfer, Waiting
<1> QED
  BY <1>3, <1>4

LEMMA SlotFrees ==
  ASSUME SlotInv, NEW p \in Peer, Frees(p), Idle
  PROVE  WorkConserving' /\ NoDuplicateTransfer'
<1>1. /\ Cardinality(DOMAIN active'[p]) <= Cardinality(DOMAIN active[p])
      /\ Cardinality(DOMAIN active'[p]) \in Nat /\ Cardinality(DOMAIN active[p]) \in Nat
  BY FewerTransfers DEF SlotInv, Frees
<1>2. MaxConcurrentFiles \in Nat
  BY LimitsAssumption
<1>3. WorkConserving'
  <2>1. Cardinality(DOMAIN active'[p]) <= MaxConcurrentFiles
    BY <1>1, <1>2 DEF SlotInv, WorkConserving
  <2>2. \A q \in Peer : q # p => loop # q
    BY NamesAssumption DEF Idle
  <2> QED
    BY <2>1, <2>2 DEF SlotInv, WorkConserving, Frees, Calm
<1>4. NoDuplicateTransfer'
  BY DEF SlotInv, NoDuplicateTransfer, Waiting, Frees, Calm
<1> QED
  BY <1>3, <1>4

LEMMA SlotTakes ==
  ASSUME SlotInv, NEW p \in Peer, Takes(p)
  PROVE  WorkConserving' /\ NoDuplicateTransfer'
<1> DEFINE f == Head(queue[p]).file
<1>1. /\ loop = p /\ loop' = p /\ queue[p] # <<>>
      /\ Cardinality(DOMAIN active[p]) < MaxConcurrentFiles
      /\ queue[p] \in Seq(PendingType)
  BY DEF Takes, MayStart, SlotInv, TypeOK
<1>2. Cardinality(DOMAIN active'[p]) <= MaxConcurrentFiles
  <2>1. IsFiniteSet(DOMAIN active[p]) /\ Cardinality(DOMAIN active[p]) \in Nat
    BY FewTransfers, FS_CardinalityType DEF SlotInv
  <2> HIDE DEF f
  <2> DEFINE S == DOMAIN active[p]
  <2>2. Cardinality(S \cup {f}) \in {Cardinality(S), Cardinality(S) + 1}
    <3> HIDE DEF S
    <3>1. IsFiniteSet(S)
      BY <2>1 DEF S
    <3> QED
      BY <3>1, FS_AddElement
  <2>3. MaxConcurrentFiles \in Nat
    BY LimitsAssumption
  <2>4. DOMAIN active'[p] \in {DOMAIN active[p], DOMAIN active[p] \cup {f}}
    BY DEF Takes, f
  <2> QED
    BY <1>1, <2>1, <2>2, <2>3, <2>4
<1>3. WorkConserving'
  BY <1>1, <1>2 DEF SlotInv, WorkConserving, Takes, Calm
<1>4. /\ \A i \in DOMAIN Tail(queue[p]) :
           /\ i + 1 \in DOMAIN queue[p] /\ Tail(queue[p])[i] = queue[p][i + 1]
           /\ i + 1 # 1 /\ i \in Int
      /\ 1 \in DOMAIN queue[p] /\ queue[p][1].file = f
  BY <1>1
<1>5. NoDuplicateTransfer'
  <2> DEFINE w == queue[p]
             v == Tail(queue[p])
  <2>1. /\ \A i, j \in DOMAIN w : w[i].file = w[j].file => i = j
        /\ \A i \in DOMAIN w : w[i].file \notin DOMAIN active[p]
    BY DEF SlotInv, NoDuplicateTransfer, Waiting
  <2>2. \A i, j \in DOMAIN v : v[i].file = v[j].file => i = j
    <3> SUFFICES ASSUME NEW i \in DOMAIN v, NEW j \in DOMAIN v, v[i].file = v[j].file
                 PROVE  i = j
      OBVIOUS
    <3>1. i + 1 = j + 1
      BY <1>4, <2>1
    <3> QED
      BY <1>4, <3>1
  <2>3. \A i \in DOMAIN v : v[i].file \notin DOMAIN active[p] /\ v[i].file # f
    BY <1>4, <2>1
  <2> HIDE DEF w, v, f
  <2>4. queue'[p] = v /\ DOMAIN active'[p] \subseteq DOMAIN active[p] \cup {f}
    BY DEF Takes, v, f
  <2> QED
    BY <2>2, <2>3, <2>4 DEF SlotInv, NoDuplicateTransfer, Waiting, Takes, Calm
<1> QED
  BY <1>3, <1>5

LEMMA SlotQueues ==
  ASSUME SlotInv, NEW p \in Peer, Queues(p)
  PROVE  WorkConserving' /\ NoDuplicateTransfer'
<1>1. WorkConserving'
  <2>1. \A q \in Peer : q # p => loop # q
    BY NamesAssumption DEF Queues
  <2> QED
    BY <2>1 DEF SlotInv, WorkConserving, Queues, Calm
<1>2. PICK join : Joins(p, join) /\ queue'[p] = queue[p] \o join
  BY DEF Queues
<1> DEFINE w == queue[p]
           v == w \o join
<1>3. w \in Seq(PendingType) /\ join \in Seq(PendingType)
  BY <1>2 DEF SlotInv, TypeOK, Joins
<1>4. \A i \in DOMAIN v :
         \/ i \in DOMAIN w /\ v[i] = w[i]
         \/ i - Len(w) \in DOMAIN join /\ v[i] = join[i - Len(w)] /\ i \in Int /\ Len(w) \in Int
  BY <1>3
<1>5. /\ \A i, j \in DOMAIN w : w[i].file = w[j].file => i = j
      /\ \A i \in DOMAIN w : w[i].file \notin DOMAIN active[p] /\ w[i].file \in Waiting(p)
  BY DEF SlotInv, NoDuplicateTransfer, Waiting
<1> HIDE DEF w, v
<1>6. \A i, j \in DOMAIN v : v[i].file = v[j].file => i = j
  <2> SUFFICES ASSUME NEW i \in DOMAIN v, NEW j \in DOMAIN v, v[i].file = v[j].file
               PROVE  i = j
    OBVIOUS
  <2>1. CASE i \in DOMAIN w /\ v[i] = w[i] /\ j \in DOMAIN w /\ v[j] = w[j]
    BY <1>5, <2>1
  <2>2. CASE /\ i - Len(w) \in DOMAIN join /\ v[i] = join[i - Len(w)] /\ i \in Int
             /\ j - Len(w) \in DOMAIN join /\ v[j] = join[j - Len(w)] /\ j \in Int
             /\ Len(w) \in Int
    <3>1. i - Len(w) = j - Len(w)
      BY <1>2, <2>2 DEF Joins
    <3> QED
      BY <2>2, <3>1
  <2>3. ~ \E a \in DOMAIN w, b \in DOMAIN join : w[a].file = join[b].file
    BY <1>2, <1>5 DEF Joins
  <2> QED
    BY <1>4, <2>1, <2>2, <2>3
<1>7. \A i \in DOMAIN v : v[i].file \notin DOMAIN active[p]
  BY <1>2, <1>4, <1>5 DEF Joins
<1>8. queue'[p] = v /\ DOMAIN active'[p] = DOMAIN active[p]
  BY <1>2 DEF Queues, v, w
<1>9. NoDuplicateTransfer'
  BY <1>6, <1>7, <1>8 DEF SlotInv, NoDuplicateTransfer, Waiting, Queues, Calm
<1> QED
  BY <1>1, <1>9

-----------------------------------------------------------------------------
(* What the actions do.                                                     *)

LEMMA QuietSteps ==
  ASSUME TypeOK
  PROVE  /\ UNCHANGED vars => Quiet
         /\ Restart => Quiet
         /\ \A f \in File : LocalEdit(f) => Quiet
         /\ \A p \in Peer :
              /\ Connect(p) \/ Disconnect(p) \/ RequestSync(p) \/ Lose(p) => Quiet
              /\ ServeManifest(p) \/ NodeRekeys(p) => Quiet
              /\ BeginLookup(p) \/ (\E g \in File : IndexFile(p, g)) \/ ReadLocal(p) => Quiet
              /\ \A k \in Key : PeerRekeys(p, k) => Quiet
              /\ \A f \in File : RemoteEdit(p, f) \/ CheckStalls(p, f) => Quiet
              /\ \A m \in InFlight(p) :
                   ServeChunk(p, m) \/ DropChunk(p, m) \/ RetryChunk(p, m)
                   \/ StoreChunk(p, m) \/ FinishFails(p, m) \/ OnFileNotice(p, m) => Quiet
<1> USE DEF vars, serverVars, diskVars, keyVars, schedVars, Calm
<1>1. UNCHANGED schedVars => Quiet
  BY DEF Quiet
<1>2. Restart => Quiet
  BY DEF Restart, Quiet, Forgets
<1>3. /\ UNCHANGED vars => Quiet
      /\ \A f \in File : LocalEdit(f) => Quiet
  BY <1>1 DEF LocalEdit, Quiet
<1>4. ASSUME NEW p \in Peer
      PROVE  /\ Connect(p) \/ RequestSync(p) \/ Lose(p) => Quiet
             /\ ServeManifest(p) \/ NodeRekeys(p) => Quiet
             /\ BeginLookup(p) \/ (\E g \in File : IndexFile(p, g)) \/ ReadLocal(p) => Quiet
             /\ \A k \in Key : PeerRekeys(p, k) => Quiet
             /\ \A f \in File : RemoteEdit(p, f) => Quiet
             /\ \A m \in InFlight(p) :
                  ServeChunk(p, m) \/ DropChunk(p, m) \/ RetryChunk(p, m)
                  \/ OnFileNotice(p, m) => Quiet
  <2>1. BeginLookup(p) \/ (\E g \in File : IndexFile(p, g)) \/ ReadLocal(p) => Quiet
    BY DEF BeginLookup, IndexFile, ReadLocal, Quiet
  <2>2. ASSUME NEW m \in InFlight(p)
        PROVE  ServeChunk(p, m) \/ DropChunk(p, m) \/ RetryChunk(p, m)
               \/ OnFileNotice(p, m) => Quiet
    BY <1>1 DEF ServeChunk, DropChunk, RetryChunk, OnFileNotice
  <2>3. /\ Connect(p) \/ RequestSync(p) \/ Lose(p) => Quiet
        /\ ServeManifest(p) \/ NodeRekeys(p) => Quiet
        /\ \A k \in Key : PeerRekeys(p, k) => Quiet
        /\ \A f \in File : RemoteEdit(p, f) => Quiet
    BY <1>1 DEF Connect, RequestSync, Lose, ServeManifest, NodeRekeys, PeerRekeys, RemoteEdit
  <2> QED
    BY <2>1, <2>2, <2>3
<1>5. ASSUME NEW p \in Peer, Disconnect(p)
      PROVE  Quiet
  <2>1. /\ loop' = loop
        /\ active' = [active EXCEPT ![p] = <<>>] /\ queue' = [queue EXCEPT ![p] = <<>>]
    BY <1>5 DEF Disconnect
  <2>2. \A q \in Peer :
           /\ active'[q] = IF q = p THEN <<>> ELSE active[q]
           /\ queue'[q] = IF q = p THEN <<>> ELSE queue[q]
    BY <2>1 DEF TypeOK
  <2> QED
    BY <2>1, <2>2, NoTransfers DEF Quiet, Forgets
<1>6. ASSUME NEW p \in Peer, NEW f, NEW t,
             loop' = loop, queue' = queue, active' = [active EXCEPT ![p][f] = t]
      PROVE  Quiet
  <2>1. \A q \in Peer : active'[q] = IF q = p THEN [active[p] EXCEPT ![f] = t]
                                     ELSE active[q]
    BY <1>6 DEF TypeOK
  <2> QED
    BY <1>6, <2>1 DEF Quiet
<1>7. ASSUME NEW p \in Peer, NEW f \in File, CheckStalls(p, f)
      PROVE  Quiet
  BY <1>6, <1>7 DEF CheckStalls, Later
<1>8. ASSUME NEW p \in Peer, NEW m, StoreChunk(p, m) \/ FinishFails(p, m)
      PROVE  Quiet
  BY <1>6, <1>8 DEF StoreChunk, FinishFails
<1> QED
  BY <1>2, <1>3, <1>4, <1>5, <1>7, <1>8

LEMMA FinishFrees ==
  ASSUME TypeOK, NEW p \in Peer, NEW m, FinishFile(p, m)
  PROVE  Frees(p) /\ Idle
<1>1. /\ Idle /\ loop' = p /\ queue' = queue
      /\ active' = [active EXCEPT ![p] = Drop(m.file, @)]
  BY DEF FinishFile, Accepted, Arrived
<1>2. \A q \in Peer : active'[q] = IF q = p THEN Drop(m.file, active[p]) ELSE active[q]
  BY <1>1 DEF TypeOK
<1> QED
  BY <1>1, <1>2 DEF Frees, Calm, Drop

LEMMA LoopTakes ==
  ASSUME TypeOK, NEW p \in Peer,
         SkipPresent(p) \/ WriteFromLocal(p) \/ LocalWriteFails(p) \/ Activate(p)
  PROVE  Takes(p)
<1>1. /\ MayStart(p) /\ loop' = loop /\ queue' = [queue EXCEPT ![p] = Tail(@)]
      /\ active' = active \/ \E t : active' = [active EXCEPT ![p] =
                                                 Put(Head(queue[p]).file, t, @)]
  BY DEF SkipPresent, WriteFromLocal, LocalWriteFails, Activate, LookedUp
<1>2. loop = p /\ \A q \in Peer : queue'[q] = IF q = p THEN Tail(queue[p]) ELSE queue[q]
  BY <1>1 DEF TypeOK, MayStart
<1>3. CASE active' = active
  BY <1>1, <1>2, <1>3 DEF Takes, Calm
<1>4. ASSUME NEW t, active' = [active EXCEPT ![p] = Put(Head(queue[p]).file, t, @)]
      PROVE  Takes(p)
  <2>1. \A q \in Peer : active'[q] = IF q = p THEN Put(Head(queue[p]).file, t, active[p])
                                     ELSE active[q]
    BY <1>4 DEF TypeOK
  <2>2. DOMAIN active'[p] = DOMAIN active[p] \cup {Head(queue[p]).file}
    BY <2>1 DEF Put
  <2>3. \A q \in Peer : q # p => Calm(q)
    BY <1>2, <2>1 DEF Calm
  <2> QED
    BY <1>1, <1>2, <2>2, <2>3 DEF Takes
<1> QED
  BY <1>1, <1>3, <1>4

\* Of a manifest each file is taken once, and none that is active or waiting.
LEMMA ManifestQueues ==
  ASSUME TypeOK, NEW p \in Peer, NEW m, OnManifest(p, m)
  PROVE  Quiet \/ Queues(p)
<1> DEFINE W == Wanted(p, m.files)
<1>1. /\ Idle /\ m \in InFlight(p) /\ m.type = "Manifest" /\ active' = active
      /\ \/ queue' = queue /\ loop' = loop
         \/ /\ loop' = p
            /\ \E order \in SetToSeqs(W) :
                 queue' = [queue EXCEPT ![p] = @ \o
                             [n \in DOMAIN order |->
                                Pending(order[n], m.files[order[n]], m.key)]]
  BY DEF OnManifest
<1>2. CASE queue' = queue /\ loop' = loop
  BY <1>1, <1>2 DEF Quiet, Calm
<1>3. ASSUME NEW order \in SetToSeqs(W), loop' = p,
             queue' = [queue EXCEPT ![p] = @ \o
                         [n \in DOMAIN order |->
                            Pending(order[n], m.files[order[n]], m.key)]]
      PROVE  Queues(p)
  <2> DEFINE join == [i \in DOMAIN order |->
                        Pending(order[i], m.files[order[i]], m.key)]
  <2>1. IsMessage(m)
    BY <1>1 DEF TypeOK, IsChannel, InFlight
  <2>2. DOMAIN m.files \subseteq File
        /\ m.files \in [DOMAIN m.files -> Seq(Data)] /\ m.key \in Key \cup {None}
    BY <1>1, <2>1 DEF IsMessage, ManifestRequest
  <2>3. W \subseteq File /\ W \subseteq DOMAIN m.files
    BY <2>2 DEF Wanted
  <2>4. join \in Seq(PendingType)
    <3> DEFINE files == m.files
               k == m.key
    <3>1. /\ W \subseteq File /\ W \subseteq DOMAIN files /\ order \in SetToSeqs(W)
          /\ files \in [DOMAIN files -> Seq(Data)] /\ k \in Key \cup {None}
      BY <2>2, <2>3
    <3> HIDE DEF files, k, W
    <3>2. [i \in DOMAIN order |-> Pending(order[i], files[order[i]], k)] \in Seq(PendingType)
      BY <3>1, JoinedType
    <3> QED
      BY <3>2 DEF files, k
  <2>5. /\ DOMAIN order = 1 .. Cardinality(W)
        /\ \A i \in DOMAIN order : order[i] \in W
        /\ \A i, j \in DOMAIN order : i # j => order[i] # order[j]
    BY DEF SetToSeqs
  <2>6. DOMAIN join = DOMAIN order /\ \A i \in DOMAIN join : join[i].file = order[i]
    BY DEF Pending
  <2>7. queue' = [queue EXCEPT ![p] = queue[p] \o join]
    BY <1>3
  <2>8. \A q \in Peer : queue'[q] = IF q = p THEN queue[p] \o join ELSE queue[q]
    BY <2>7 DEF TypeOK
  <2> HIDE DEF join
  <2>9. \A f \in W : f \notin DOMAIN active[p] \cup Waiting(p)
    BY DEF Wanted
  <2> HIDE DEF W
  <2>10. Joins(p, join)
    BY <2>4, <2>5, <2>6, <2>9 DEF Joins
  <2>11. \A q \in Peer : q # p => Calm(q)
    BY <1>1, <2>8 DEF Calm
  <2> QED
    BY <1>1, <1>3, <2>8, <2>10, <2>11 DEF Queues, Idle
<1> QED
  BY <1>1, <1>2, <1>3

-----------------------------------------------------------------------------
LEMMA SlotInit == Init => SlotInv
<1> SUFFICES ASSUME Init PROVE SlotInv
  OBVIOUS
<1>1. TypeOK
  BY TypeInit
<1>2. /\ \A p \in Peer : DOMAIN active[p] = {} /\ queue[p] = <<>>
      /\ Cardinality({}) = 0 /\ MaxConcurrentFiles \in Nat \ {0}
  BY NoTransfers, FS_EmptySet, LimitsAssumption DEF Init
<1>3. WorkConserving
  <2>1. \A p \in Peer : Cardinality(DOMAIN active[p]) <= MaxConcurrentFiles
    <3>1. 0 <= MaxConcurrentFiles
      BY <1>2
    <3> QED
      BY <1>2, <3>1
  <2> QED
    BY <1>2, <2>1 DEF WorkConserving
<1>4. \A p \in Peer : DOMAIN queue[p] = {}
  BY <1>2, NoTransfers
<1>5. NoDuplicateTransfer
  BY <1>2, <1>4 DEF NoDuplicateTransfer
<1> QED
  BY <1>1, <1>3, <1>5 DEF SlotInv

LEMMA SlotNext == SlotInv /\ [Next]_vars => SlotInv'
<1> SUFFICES ASSUME SlotInv, [Next]_vars
             PROVE  SlotInv'
  OBVIOUS
<1>0. TypeOK
  BY DEF SlotInv
<1>1. TypeOK'
  BY <1>0, TypeNext
<1> SUFFICES WorkConserving' /\ NoDuplicateTransfer'
  BY <1>1 DEF SlotInv
<1> DEFINE Kept == WorkConserving' /\ NoDuplicateTransfer'
<1>2. Quiet => Kept
  BY SlotQuiet
<1>3. CASE UNCHANGED vars \/ Restart \/ \E f \in File : LocalEdit(f)
  BY <1>0, <1>2, <1>3, QuietSteps
<1>4. ASSUME NEW p \in Peer, Protocol(p)
      PROVE  Kept
  <2>1. CASE Connect(p) \/ ServeManifest(p) \/ NodeRekeys(p)
    BY <1>0, <1>2, <2>1, QuietSteps
  <2>2. CASE EndLoop(p)
    BY <2>2, SlotEndLoop
  <2>3. CASE SkipPresent(p) \/ WriteFromLocal(p) \/ LocalWriteFails(p) \/ Activate(p)
    BY <1>0, <2>3, LoopTakes, SlotTakes
  <2>8. CASE BeginLookup(p) \/ (\E g \in File : IndexFile(p, g)) \/ ReadLocal(p)
    BY <1>0, <1>2, <2>8, QuietSteps
  <2>4. ASSUME NEW m \in InFlight(p), ServeChunk(p, m) \/ OnFileNotice(p, m)
        PROVE  Kept
    BY <1>0, <1>2, <2>4, QuietSteps
  <2>5. ASSUME NEW m \in InFlight(p), OnManifest(p, m)
        PROVE  Kept
    BY <1>0, <1>2, <2>5, ManifestQueues, SlotQueues
  <2>6. ASSUME NEW m \in InFlight(p), OnChunk(p, m)
        PROVE  Kept
    <3>1. CASE DropChunk(p, m) \/ RetryChunk(p, m) \/ StoreChunk(p, m) \/ FinishFails(p, m)
      BY <1>0, <1>2, <3>1, QuietSteps
    <3>2. CASE FinishFile(p, m)
      BY <1>0, <3>2, FinishFrees, SlotFrees
    <3> QED
      BY <2>6, <3>1, <3>2 DEF OnChunk
  <2>7. ASSUME NEW f \in File, CheckStalls(p, f)
        PROVE  Kept
    BY <1>0, <1>2, <2>7, QuietSteps
  <2> QED
    BY <1>4, <2>1, <2>2, <2>3, <2>4, <2>5, <2>6, <2>7, <2>8 DEF Protocol, LoopStep
<1>5. ASSUME NEW p \in Peer, Environment(p)
      PROVE  Kept
  BY <1>0, <1>2, <1>5, QuietSteps DEF Environment
<1> QED
  BY <1>3, <1>4, <1>5 DEF Next

\* A peer's slots are never exceeded, and none is idle while a file of that peer
\* waits, however many peers, files, slots and chunks in flight there are.
THEOREM WorkConservingHolds == Spec => []WorkConserving
<1>1. SlotInv => WorkConserving
  BY DEF SlotInv
<1> QED
  BY SlotInit, SlotNext, <1>1, PTL DEF Spec

\* Whatever manifests arrive, a file is downloaded or waits once at a peer.
THEOREM NoDuplicateTransferHolds == Spec => []NoDuplicateTransfer
<1>1. SlotInv => NoDuplicateTransfer
  BY DEF SlotInv
<1> QED
  BY SlotInit, SlotNext, <1>1, PTL DEF Spec

-----------------------------------------------------------------------------
(* Transfers only gain.                                                     *)

Gains(t, u) == /\ u.hashes = t.hashes
               /\ DOMAIN t.got \subseteq DOMAIN u.got
               /\ t.next <= u.next

Progress ==
    \A p \in Peer : \A f \in DOMAIN active[p] :
        f \in DOMAIN active'[p] => Gains(active[p][f], active'[p][f])

\* A transfer gains when nothing, or one chunk more, or a later next is stored.
LEMMA StandingGains ==
  ASSUME NEW t, IsTransfer(t)
  PROVE  Gains(t, t)
BY DEF Gains, IsTransfer

LEMMA StoredGains ==
  ASSUME TypeOK, NEW p \in Peer, NEW m, Accepted(p, m)
  PROVE  Gains(active[p][m.file], Stored(p, m))
<1> DEFINE t == active[p][m.file]
<1>1. t.next \in Nat
  BY StoredType DEF IsTransfer
<1>2. /\ Stored(p, m).hashes = t.hashes
      /\ Stored(p, m).got = Put(m.idx, m.data, t.got)
      /\ Stored(p, m).next \in {t.next, t.next + 1}
  BY DEF Stored, Advance
<1>3. DOMAIN t.got \subseteq DOMAIN Put(m.idx, m.data, t.got)
  BY DEF Put
<1> QED
  BY <1>1, <1>2, <1>3 DEF Gains

LEMMA LaterGains ==
  ASSUME NEW t, IsTransfer(t), NEW n \in Int
  PROVE  Gains(t, Advance(t, t.got, Max({t.next, n})))
<1> DEFINE a == t.next
<1>1. a \in Int
  BY DEF IsTransfer
<1> HIDE DEF a
<1>2. IsFiniteSet({a, n})
  <2>1. IsFiniteSet({a})
    BY FS_Singleton
  <2>2. IsFiniteSet({a} \cup {n}) /\ {a} \cup {n} = {a, n}
    BY <2>1, FS_AddElement
  <2> QED
    BY <2>2
<1>3. Max({a, n}) \in Int /\ Max({a, n}) >= a
  <2>1. Max({a, n}) \in {a, n} /\ \A y \in {a, n} : Max({a, n}) >= y
    BY <1>1, <1>2, MaxOfFinite
  <2> QED
    BY <1>1, <2>1
<1>4. a <= Max({a, n})
  BY <1>1, <1>3
<1> QED
  BY <1>4 DEF Gains, Advance, a

\* The transfers of no peer change, or those of p alone do.
LEMMA ProgressStands ==
  ASSUME TypeOK, active' = active
  PROVE  Progress
<1>1. \A p \in Peer : \A f \in DOMAIN active[p] : IsTransfer(active[p][f])
  BY DEF TypeOK, IsTransferMap
<1> QED
  BY <1>1, StandingGains DEF Progress

LEMMA ProgressAt ==
  ASSUME TypeOK, NEW p \in Peer, NEW a, active' = [active EXCEPT ![p] = a],
         \A f \in DOMAIN active[p] : f \in DOMAIN a => Gains(active[p][f], a[f])
  PROVE  Progress
<1>1. \A q \in Peer : \A f \in DOMAIN active[q] : IsTransfer(active[q][f])
  BY DEF TypeOK, IsTransferMap
<1>2. \A q \in Peer : active'[q] = IF q = p THEN a ELSE active[q]
  BY DEF TypeOK
<1> QED
  BY <1>1, <1>2, StandingGains DEF Progress

\* One transfer of p is replaced by one that gained.
LEMMA ProgressOf ==
  ASSUME TypeOK, NEW p \in Peer, NEW f \in DOMAIN active[p], NEW u,
         active' = [active EXCEPT ![p][f] = u], Gains(active[p][f], u)
  PROVE  Progress
<1> DEFINE a == [active[p] EXCEPT ![f] = u]
<1>1. IsTransferMap(active[p])
  BY DEF TypeOK
<1>2. \A g \in DOMAIN active[p] : a[g] = IF g = f THEN u ELSE active[p][g]
  OBVIOUS
<1>3. \A g \in DOMAIN active[p] : Gains(active[p][g], a[g])
  BY <1>1, <1>2, StandingGains DEF IsTransferMap
<1>4. active' = [active EXCEPT ![p] = a]
  OBVIOUS
<1> HIDE DEF a
<1> QED
  BY <1>3, <1>4, ProgressAt

LEMMA ProgressSteps ==
  ASSUME TypeOK
  PROVE  /\ UNCHANGED vars => Progress
         /\ Restart => Progress
         /\ \A f \in File : LocalEdit(f) => Progress
         /\ \A p \in Peer :
              /\ Connect(p) \/ Disconnect(p) \/ RequestSync(p) \/ Lose(p) => Progress
              /\ ServeManifest(p) \/ NodeRekeys(p) => Progress
              /\ EndLoop(p) \/ SkipPresent(p) => Progress
              /\ BeginLookup(p) \/ (\E g \in File : IndexFile(p, g)) \/ ReadLocal(p)
                   => Progress
              /\ WriteFromLocal(p) \/ LocalWriteFails(p) => Progress
              /\ \A k \in Key : PeerRekeys(p, k) => Progress
              /\ \A f \in File : RemoteEdit(p, f) => Progress
              /\ \A m \in InFlight(p) :
                   ServeChunk(p, m) \/ OnManifest(p, m) \/ OnFileNotice(p, m)
                   \/ DropChunk(p, m) \/ RetryChunk(p, m) => Progress
<1> USE DEF vars, serverVars, diskVars, keyVars, schedVars
<1>1. active' = active => Progress
  BY ProgressStands
<1>2. Restart => Progress
  BY NoTransfers DEF Restart, Progress
<1>3. ASSUME NEW p \in Peer, Disconnect(p)
      PROVE  Progress
  <2>1. active' = [active EXCEPT ![p] = <<>>]
    BY <1>3 DEF Disconnect
  <2> QED
    BY <2>1, NoTransfers, ProgressAt
<1>4. /\ UNCHANGED vars => Progress
      /\ \A f \in File : LocalEdit(f) => Progress
  BY <1>1 DEF LocalEdit
<1>5. ASSUME NEW p \in Peer
      PROVE  /\ Connect(p) \/ RequestSync(p) \/ Lose(p) => Progress
             /\ ServeManifest(p) \/ NodeRekeys(p) => Progress
             /\ EndLoop(p) \/ SkipPresent(p) => Progress
             /\ BeginLookup(p) \/ (\E g \in File : IndexFile(p, g)) \/ ReadLocal(p)
                  => Progress
             /\ WriteFromLocal(p) \/ LocalWriteFails(p) => Progress
             /\ \A k \in Key : PeerRekeys(p, k) => Progress
             /\ \A f \in File : RemoteEdit(p, f) => Progress
  BY <1>1 DEF Connect, RequestSync, Lose, ServeManifest, NodeRekeys, EndLoop,
     SkipPresent, BeginLookup, IndexFile, ReadLocal, WriteFromLocal, LocalWriteFails,
     PeerRekeys, RemoteEdit
<1>6. ASSUME NEW p \in Peer, NEW m \in InFlight(p)
      PROVE  ServeChunk(p, m) \/ OnManifest(p, m) \/ OnFileNotice(p, m)
             \/ DropChunk(p, m) \/ RetryChunk(p, m) => Progress
  BY <1>1 DEF ServeChunk, OnManifest, OnFileNotice, DropChunk, RetryChunk
<1> QED
  BY <1>2, <1>3, <1>4, <1>5, <1>6

LEMMA ProgressChunk ==
  ASSUME TypeOK, NEW p \in Peer, NEW m,
         StoreChunk(p, m) \/ FinishFile(p, m) \/ FinishFails(p, m)
  PROVE  Progress
<1>1. Accepted(p, m)
  BY DEF StoreChunk, FinishFile, FinishFails
<1>2. m.file \in DOMAIN active[p]
  BY <1>1 DEF Accepted
<1>3. CASE StoreChunk(p, m) \/ FinishFails(p, m)
  <2>1. active' = [active EXCEPT ![p][m.file] = Stored(p, m)]
    BY <1>3 DEF StoreChunk, FinishFails
  <2> QED
    BY <1>1, <1>2, <2>1, StoredGains, ProgressOf
<1>4. CASE FinishFile(p, m)
  <2> DEFINE a == Drop(m.file, active[p])
  <2>1. active' = [active EXCEPT ![p] = a]
    BY <1>4 DEF FinishFile
  <2>2. \A f \in DOMAIN active[p] : IsTransfer(active[p][f])
    BY DEF TypeOK, IsTransferMap
  <2>3. \A f \in DOMAIN a : a[f] = active[p][f]
    BY DEF Drop
  <2>4. \A f \in DOMAIN active[p] : f \in DOMAIN a => Gains(active[p][f], a[f])
    BY <2>2, <2>3, StandingGains
  <2> HIDE DEF a
  <2> QED
    BY <2>1, <2>4, ProgressAt
<1> QED
  BY <1>3, <1>4

LEMMA ProgressStalls ==
  ASSUME TypeOK, NEW p \in Peer, NEW f \in File, CheckStalls(p, f)
  PROVE  Progress
<1> DEFINE t    == active[p][f]
           late == Smallest(Missing(t), Window)
           u    == Advance(t, t.got, Max({t.next, Max(late) + 1}))
<1>1. /\ f \in DOMAIN active[p] /\ late # {}
      /\ active' = [active EXCEPT ![p][f] = u]
  BY DEF CheckStalls, Later
<1>2. IsTransfer(t)
  BY <1>1 DEF TypeOK, IsTransferMap
<1>3. Max(late) + 1 \in Int
  <2> HIDE DEF t
  <2>1. Total(t.hashes) \in Nat
    BY <1>2, TotalType DEF IsTransfer
  <2>2. Missing(t) \subseteq 1 .. Total(t.hashes)
    BY DEF Missing
  <2>3. IsFiniteSet(Missing(t)) /\ late \subseteq Missing(t) /\ Missing(t) \subseteq Int
    BY <2>1, <2>2, ChunkNumbers
  <2>4. late \subseteq Int /\ IsFiniteSet(late)
    BY <2>3, FS_Subset
  <2> HIDE DEF late
  <2>5. Max(late) \in Int
    BY <1>1, <2>4, MaxOfFinite
  <2> QED
    BY <2>5
<1>4. Gains(t, u)
  BY <1>2, <1>3, LaterGains
<1> HIDE DEF u
<1> QED
  BY <1>1, <1>4, ProgressOf

\* The file taken up is none of those that are active: it was waiting.
LEMMA ProgressActivate ==
  ASSUME SlotInv, NEW p \in Peer, Activate(p)
  PROVE  Progress
<1> DEFINE f == Head(queue[p]).file
<1>1. TypeOK /\ MayStart(p)
  BY DEF SlotInv, Activate, LookedUp
<1>2. PICK t : active' = [active EXCEPT ![p] = Put(f, t, active[p])]
  BY DEF Activate
<1>3. f \notin DOMAIN active[p]
  <2>1. queue[p] \in Seq(PendingType) /\ queue[p] # <<>>
    BY <1>1 DEF TypeOK, MayStart
  <2>2. f \in Waiting(p)
    BY <2>1 DEF Waiting
  <2> QED
    BY <2>2 DEF SlotInv, NoDuplicateTransfer
<1> HIDE DEF f
<1> DEFINE a == Put(f, t, active[p])
<1>4. \A g \in DOMAIN active[p] : a[g] = active[p][g]
  BY <1>3 DEF Put
<1>5. \A g \in DOMAIN active[p] : IsTransfer(active[p][g])
  BY <1>1 DEF TypeOK, IsTransferMap
<1>6. \A g \in DOMAIN active[p] : g \in DOMAIN a => Gains(active[p][g], a[g])
  BY <1>4, <1>5, StandingGains
<1>7. active' = [active EXCEPT ![p] = a]
  BY <1>2
<1> HIDE DEF a
<1> QED
  BY <1>1, <1>6, <1>7, ProgressAt

LEMMA ProgressNext == SlotInv /\ [Next]_vars => Progress
<1> SUFFICES ASSUME SlotInv, [Next]_vars
             PROVE  Progress
  OBVIOUS
<1>0. TypeOK
  BY DEF SlotInv
<1>1. CASE UNCHANGED vars \/ Restart \/ \E f \in File : LocalEdit(f)
  BY <1>0, <1>1, ProgressSteps
<1>2. ASSUME NEW p \in Peer, Protocol(p)
      PROVE  Progress
  <2>1. CASE Connect(p) \/ ServeManifest(p) \/ NodeRekeys(p)
    BY <1>0, <2>1, ProgressSteps
  <2>2. CASE LoopStep(p)
    BY <1>0, <2>2, ProgressSteps, ProgressActivate DEF LoopStep
  <2>3. ASSUME NEW m \in InFlight(p),
               ServeChunk(p, m) \/ OnManifest(p, m) \/ OnFileNotice(p, m)
        PROVE  Progress
    BY <1>0, <2>3, ProgressSteps
  <2>4. ASSUME NEW m \in InFlight(p), OnChunk(p, m)
        PROVE  Progress
    BY <1>0, <2>4, ProgressSteps, ProgressChunk DEF OnChunk
  <2>5. ASSUME NEW f \in File, CheckStalls(p, f)
        PROVE  Progress
    BY <1>0, <2>5, ProgressStalls
  <2> QED
    BY <1>2, <2>1, <2>2, <2>3, <2>4, <2>5 DEF Protocol
<1>3. ASSUME NEW p \in Peer, Environment(p)
      PROVE  Progress
  BY <1>0, <1>3, ProgressSteps DEF Environment
<1> QED
  BY <1>1, <1>2, <1>3 DEF Next

\* No handler takes a chunk or the manifest entry away from a transfer that
\* goes on, however many transfers there are and whatever arrives.
THEOREM NoProgressLostHolds == Spec => NoProgressLost
<1>1. SlotInv /\ [Next]_vars
        => [\A p \in Peer : \A f \in DOMAIN active[p] :
              f \in DOMAIN active'[p] =>
                /\ active'[p][f].hashes = active[p][f].hashes
                /\ DOMAIN active[p][f].got \subseteq DOMAIN active'[p][f].got
                /\ active[p][f].next <= active'[p][f].next]_vars
  BY ProgressNext DEF Progress, Gains
<1> QED
  BY SlotInit, SlotNext, <1>1, PTL DEF Spec, NoProgressLost

=============================================================================
