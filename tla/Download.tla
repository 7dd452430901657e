------------------------------ MODULE Download ------------------------------
(***************************************************************************)
(* The download scheduler of one Vitruvius node (sync/handler.rs) with the *)
(* peers that serve it (sync/handler.rs and storage.rs, the serving arms). *)
(*                                                                         *)
(* A peer publishes a manifest of its folder.  The node queues the files   *)
(* it lacks, keeps at most MaxConcurrentFiles of them active per peer and  *)
(* at most Window chunk requests of each in flight, verifies every chunk   *)
(* against the manifest's hash and writes a file once all of its chunks    *)
(* are there.  The event loop handles one event at a time; the loop of     *)
(* start_queued_files runs inside a handler, so its iterations are steps   *)
(* during which no other event is handled, while the peers, the network    *)
(* and the user of the folder go on.                                       *)
(*                                                                         *)
(* Abstractions.  A chunk's content is a member of Data and its BLAKE3     *)
(* hash is the content itself; a hash blinded with key k is the content    *)
(* together with k (the field hkey of a transfer), and the opaque id of    *)
(* file f under key k is the pair <<k, f>>.  Chunks are numbered from 1.   *)
(* A file's manifest entry is computed from one version of the file.  Each *)
(* file is hashed into the chunk index of start_queued_files in one step,  *)
(* and each chunk read through it in another.  Vault containers, conflict  *)
(* copies, SetFolder and names that unsafe_rel_path refuses are left out;  *)
(* both sides have a folder.                                               *)
(***************************************************************************)
EXTENDS Integers, Sequences, FiniteSets, Bags, Functions, FiniteSetsExt,
        SequencesExt

CONSTANTS
    Peer,               \* the peers this node downloads from
    File,               \* relative paths in the shared folder
    Data,               \* contents of a chunk
    Key,                \* transport keys
    None,               \* "no key", "no peer"
    Absent,             \* the content of a file that is not on disk
    Version,            \* Version[f]: the contents users save under the name f
    MaxConcurrentFiles, \* files active at the same time, per peer
    Window,             \* chunk requests started per active file
    EncryptedProtocol,  \* BOOLEAN: the peers run --encrypted
    Budget              \* Budget[k]: how many times the environment does k

(***************************************************************************)
(* What the environment may do a bounded number of times: save a file at a *)
(* peer ("edit") or locally ("local"), press Request Sync ("sync"), lose a *)
(* message ("loss"), close a connection ("drop"), change a key ("rekey"),  *)
(* fail a disk write ("ioerror"), kill the process ("restart"), be so slow *)
(* that a stall repeats a request that is still open ("stall").            *)
(***************************************************************************)
Kind == {"edit", "local", "sync", "loss", "drop", "rekey", "ioerror", "restart",
         "stall"}

ASSUME LimitsAssumption ==
    /\ MaxConcurrentFiles \in Nat \ {0}
    /\ Window \in Nat \ {0}
    /\ Budget \in [Kind -> Nat]
    /\ EncryptedProtocol \in BOOLEAN

ASSUME FileAssumption == IsFiniteSet(File)

ASSUME NamesAssumption ==
    /\ None \notin Peer
    /\ None \notin Key

ASSUME VersionAssumption ==
    /\ DOMAIN Version = File
    /\ \A f \in File : \A c \in Version[f] : c # Absent /\ c \in Seq(Data)

VARIABLES
    \* The peers.
    remote,     \* remote[p][f]: what peer p has under the name f
    txKey,      \* the key p uses towards this node
    outbound,   \* the file ids p resolves (outbound_file_ids)
    \* The node, on disk.
    disk,       \* disk[f]: what the node has under the name f
    torn,       \* history: files whose last write by the node failed, or
                \* used a chunk whose source was saved before it was read
    \* The node, in memory.
    connected,  \* connected_peers
    rxKey,      \* peer_keys
    inbound,    \* the file ids of p's last encrypted manifest
    active,     \* transfers[p].active: the files downloading
    queue,      \* transfers[p].queue: the files waiting
    loop,       \* whose start_queued_files is running, or None
    draft,      \* what it found locally for Head(queue[loop]), or None
    \* Between them.
    net,        \* net[p]: the requests, answers and notices in flight
    spent       \* how often the environment did each kind of thing

serverVars == <<remote, txKey, outbound>>
diskVars   == <<disk, torn>>
keyVars    == <<connected, rxKey, inbound>>
schedVars  == <<active, queue, loop, draft>>
vars == <<serverVars, diskVars, keyVars, schedVars, net, spent>>

-----------------------------------------------------------------------------
(* Messages.  A chunk message carries key = None when it is of the plain    *)
(* protocol (ChunkRequest, ChunkResponse, naming the file) and the key of   *)
(* its file id when it is of the encrypted one; a manifest likewise.  The   *)
(* field sealed is the key the chunk was encrypted under, None for none.    *)

Content == UNION {Version[f] : f \in File}

ManifestRequest == [type |-> "ManifestRequest"]
Manifest(k, files) == [type |-> "Manifest", key |-> k, files |-> files]
ChunkRequest(k, f, i) ==
    [type |-> "ChunkRequest", key |-> k, file |-> f, idx |-> i]
ChunkResponse(r, k, d) ==
    [type |-> "ChunkResponse", key |-> r.key, file |-> r.file, idx |-> r.idx,
     sealed |-> k, data |-> d]
FileNotice(t, f) == [type |-> t, file |-> f]

IsMessage(m) ==
    \/ m = ManifestRequest
    \/ /\ m.type = "Manifest"
       /\ m = Manifest(m.key, m.files)
       /\ m.key \in Key \cup {None}
       /\ DOMAIN m.files \subseteq File
       /\ m.files \in [DOMAIN m.files -> Seq(Data)]
    \/ m \in [type : {"ChunkRequest"}, key : Key \cup {None}, file : File,
              idx : Nat \ {0}]
    \/ m \in [type : {"ChunkResponse"}, key : Key \cup {None}, file : File,
              idx : Nat \ {0}, sealed : Key \cup {None}, data : Data]
    \/ m \in [type : {"FileChanged", "FileDeleted"}, file : File]

InFlight(p) == BagToSet(net[p])

\* The channel of peer p after the messages in S were sent on it.
Sent(p, S) == [net EXCEPT ![p] = @ (+) SetToBag(S)]

\* The same after m was also taken from it.
Handled(p, m, S) == [net EXCEPT ![p] = (@ (-) SetToBag({m})) (+) SetToBag(S)]

-----------------------------------------------------------------------------
(* Transfers.                                                               *)

\* A file of no bytes still counts one chunk, although no hash is computed.
Total(hashes) == IF hashes = <<>> THEN 1 ELSE Len(hashes)

Pending(f, hashes, k) == [file |-> f, hashes |-> hashes, hkey |-> k]

\* A transfer with the chunks got, and next the one to ask for next.  The
\* field raced is history: a source of its local chunks was saved or removed
\* between its hashing and the reading.
Advance(t, got, next) ==
    [hashes |-> t.hashes, hkey |-> t.hkey, next |-> next, got |-> got,
     raced |-> t.raced]

\* Mutants: chunks counted from 0; only those not asked for yet.
MissingFromZero(t) == (0 .. Total(t.hashes) - 1) \ DOMAIN t.got
MissingUnasked(t) == t.next .. Total(t.hashes)

\* missing_chunks.
Missing(t) == (1 .. Total(t.hashes)) \ DOMAIN t.got

\* The n smallest members of a finite set of numbers (all of a smaller one).
Smallest(S, n) == {i \in S : Cardinality({j \in S : j < i}) < n}

Requests(f, k, S) == {ChunkRequest(k, f, i) : i \in S}

\* The answers and requests for chunk i of f that are in flight.
Copies(p, k, f, i) ==
    {m \in InFlight(p) : /\ m.type \in {"ChunkRequest", "ChunkResponse"}
                         /\ m.key = k /\ m.file = f /\ m.idx = i}

\* The streams that the messages in S have open, one for each copy.
Streams(p, S) == UNION {{m} \X (1 .. net[p][m]) : m \in S}

Waiting(p) == {queue[p][n].file : n \in DOMAIN queue[p]}

HasChunk(c, i) == c # Absent /\ i \in DOMAIN c

\* Mutant: nothing is removed.
DropNothing(f, map) == map

Put(f, x, map) == [g \in DOMAIN map \cup {f} |-> IF g = f THEN x ELSE map[g]]
Drop(f, map) == [g \in DOMAIN map \ {f} |-> map[g]]

Idle == loop = None

Spend(k) == /\ spent[k] < Budget[k]
            /\ spent' = [spent EXCEPT ![k] = @ + 1]

-----------------------------------------------------------------------------
Init ==
    /\ remote \in [Peer -> {r \in [File -> Content \cup {Absent}] :
                              \A f \in File : r[f] \in Version[f] \cup {Absent}}]
    /\ txKey \in [Peer -> Key \cup {None}]
    /\ outbound = [p \in Peer |-> {}]
    /\ disk \in {d \in [File -> Content \cup {Absent}] :
                   \A f \in File : d[f] \in Version[f] \cup {Absent}}
    /\ torn = {}
    /\ connected = {}
    /\ rxKey = txKey
    /\ inbound = [p \in Peer |-> {}]
    /\ active = [p \in Peer |-> <<>>]
    /\ queue = [p \in Peer |-> <<>>]
    /\ loop = None
    /\ draft = None
    /\ net = [p \in Peer |-> EmptyBag]
    /\ spent = [k \in Kind |-> 0]

-----------------------------------------------------------------------------
(* Connections.                                                             *)

\* A connection comes up: the manifest is requested at once, the key of an
\* approved peer being loaded from the store.
Connect(p) ==
    /\ Idle
    /\ p \notin connected
    /\ connected' = connected \cup {p}
    /\ net' = Sent(p, {ManifestRequest})
    /\ UNCHANGED <<serverVars, diskVars, rxKey, inbound, schedVars, spent>>

\* ConnectionClosed forgets the peer's transfers; what was in flight fails.
Disconnect(p) ==
    /\ Idle
    /\ p \in connected
    /\ Spend("drop")
    /\ connected' = connected \ {p}
    /\ active' = [active EXCEPT ![p] = <<>>]
    /\ queue' = [queue EXCEPT ![p] = <<>>]
    /\ net' = [net EXCEPT ![p] = EmptyBag]
    /\ UNCHANGED <<serverVars, diskVars, rxKey, inbound, loop, draft>>

\* The process dies, possibly inside start_queued_files, and starts again
\* with its folder and its key store.
Restart ==
    /\ Spend("restart")
    /\ connected' = {}
    /\ inbound' = [p \in Peer |-> {}]
    /\ active' = [p \in Peer |-> <<>>]
    /\ queue' = [p \in Peer |-> <<>>]
    /\ loop' = None
    /\ draft' = None
    /\ net' = [p \in Peer |-> EmptyBag]
    /\ UNCHANGED <<serverVars, diskVars, rxKey>>

\* The user, or a peer's announcement, asks for the manifest once more.
RequestSync(p) ==
    /\ Idle
    /\ p \in connected
    /\ Spend("sync")
    /\ net' = Sent(p, {ManifestRequest})
    /\ UNCHANGED <<serverVars, diskVars, keyVars, schedVars>>

-----------------------------------------------------------------------------
(* The serving peer.                                                        *)

Shared(p) == {f \in File : remote[p][f] # Absent}

\* The manifest is encrypted if the peer runs the encrypted protocol and has
\* a key; its file ids then replace those of the manifest before.  An empty
\* folder is answered with Empty, which changes nothing at the node.
ServeManifest(p) ==
    /\ ManifestRequest \in InFlight(p)
    /\ LET k == IF EncryptedProtocol THEN txKey[p] ELSE None IN
       /\ outbound' = IF k = None THEN outbound
                      ELSE [outbound EXCEPT ![p] = {<<k, f>> : f \in Shared(p)}]
       /\ net' = Handled(p, ManifestRequest,
                         IF Shared(p) = {} THEN {}
                         ELSE {Manifest(k, Restrict(remote[p], Shared(p)))})
    /\ UNCHANGED <<remote, txKey, diskVars, keyVars, schedVars, spent>>

\* A chunk is read from the file as it is now.  A read past the end, an
\* unknown id or a missing key is answered with Error, which the node logs.
ServeChunk(p, r) ==
    /\ r \in InFlight(p)
    /\ r.type = "ChunkRequest"
    /\ LET served == /\ HasChunk(remote[p][r.file], r.idx)
                     /\ r.key # None => /\ txKey[p] # None
                                        /\ <<r.key, r.file>> \in outbound[p]
       IN net' = Handled(p, r,
                   IF served
                   THEN {ChunkResponse(r, txKey[p], remote[p][r.file][r.idx])}
                   ELSE {})
    /\ UNCHANGED <<serverVars, diskVars, keyVars, schedVars, spent>>

-----------------------------------------------------------------------------
(* The manifest arrives.                                                    *)

\* Mutant: the check of the queue is missing.
WantedQueued(p, files) ==
    {f \in DOMAIN files : disk[f] = Absent /\ f \notin DOMAIN active[p]}

\* Files that are on disk, active or waiting are skipped.
Wanted(p, files) ==
    {f \in DOMAIN files : /\ disk[f] = Absent
                          /\ f \notin DOMAIN active[p]
                          /\ f \notin Waiting(p)}

\* A manifest that cannot be decrypted is ignored.  The files wanted join the
\* queue in the manifest's order, which is the order of the directory walk.
OnManifest(p, m) ==
    /\ Idle
    /\ m \in InFlight(p)
    /\ m.type = "Manifest"
    /\ net' = Handled(p, m, {})
    /\ IF m.key \notin {None, rxKey[p]}
       THEN UNCHANGED <<inbound, queue, loop>>
       ELSE /\ inbound' = IF m.key = None THEN inbound
                          ELSE [inbound EXCEPT ![p] =
                                  {<<m.key, f>> : f \in DOMAIN m.files}]
            /\ \E order \in SetToSeqs(Wanted(p, m.files)) :
                  queue' = [queue EXCEPT ![p] = @ \o
                             [n \in DOMAIN order |->
                                Pending(order[n], m.files[order[n]], m.key)]]
            /\ loop' = p
    /\ UNCHANGED <<serverVars, diskVars, connected, rxKey, active, draft, spent>>

-----------------------------------------------------------------------------
(* start_queued_files, one iteration at a time.                             *)

\* The lookup of a file's chunks in the folder, before anything is hashed.
\* Blinded hashes match no local hash, so an encrypted entry finds nothing.
Fresh(pf) == [walked |-> IF pf.hkey = None THEN {} ELSE File,
              index |-> <<>>, got |-> <<>>, raced |-> FALSE]

\* The chunks of pf that file g holds at this moment and no file walked held.
Found(pf, g) ==
    {i \in DOMAIN pf.hashes \ DOMAIN draft.index :
       disk[g] # Absent /\ pf.hashes[i] \in Range(disk[g])}

FirstPlace(c, d) == Min({j \in DOMAIN c : c[j] = d})

\* Mutant: one slot is never used.
MayStartOneLess(p) == /\ loop = p
                      /\ queue[p] # <<>>
                      /\ Cardinality(DOMAIN active[p]) < MaxConcurrentFiles - 1

\* The loop may start another file of p.
MayStart(p) == /\ loop = p
               /\ queue[p] # <<>>
               /\ Cardinality(DOMAIN active[p]) < MaxConcurrentFiles

\* The slots are full or nothing waits.
EndLoop(p) ==
    /\ loop = p
    /\ ~ MayStart(p)
    /\ loop' = None
    /\ UNCHANGED <<serverVars, diskVars, keyVars, active, queue, draft, net, spent>>

\* The file appeared on disk while it waited.
SkipPresent(p) ==
    /\ MayStart(p)
    /\ draft = None
    /\ disk[Head(queue[p]).file] # Absent
    /\ queue' = [queue EXCEPT ![p] = Tail(@)]
    /\ UNCHANGED <<serverVars, diskVars, keyVars, active, loop, draft, net, spent>>

\* It did not; what the folder holds of it is looked up.
BeginLookup(p) ==
    /\ MayStart(p)
    /\ draft = None
    /\ disk[Head(queue[p]).file] = Absent
    /\ draft' = Fresh(Head(queue[p]))
    /\ UNCHANGED <<serverVars, diskVars, keyVars, active, queue, loop, net, spent>>

\* build_chunk_index reaches file g and hashes what is there.
IndexFile(p, g) ==
    /\ MayStart(p)
    /\ draft # None
    /\ g \notin draft.walked
    /\ LET pf == Head(queue[p]) IN
       draft' = [draft EXCEPT
          !.walked = @ \cup {g},
          !.index = [i \in DOMAIN @ \cup Found(pf, g) |->
                       IF i \in DOMAIN @ THEN @[i]
                       ELSE [file |-> g,
                             idx |-> FirstPlace(disk[g], pf.hashes[i])]]]
    /\ UNCHANGED <<serverVars, diskVars, keyVars, active, queue, loop, net, spent>>

\* The next chunk found is read from where it was found, as it is now, and
\* kept unverified; one that is no longer there is left to be requested.
ReadLocal(p) ==
    /\ MayStart(p)
    /\ draft # None
    /\ draft.walked = File
    /\ \E i \in DOMAIN draft.index :
         /\ \A j \in DOMAIN draft.index : i <= j
         /\ LET at == draft.index[i] IN
            draft' = [draft EXCEPT
               !.index = Drop(i, @),
               !.got = IF HasChunk(disk[at.file], at.idx)
                       THEN Put(i, disk[at.file][at.idx], @) ELSE @]
    /\ UNCHANGED <<serverVars, diskVars, keyVars, active, queue, loop, net, spent>>

\* Everything that was found has been read.
LookedUp(p) == /\ MayStart(p)
               /\ draft # None
               /\ draft.walked = File
               /\ DOMAIN draft.index = {}

\* The transfer of the file at the head of p's queue, with what was read.
Started(p, next) ==
    LET pf == Head(queue[p]) IN
    [hashes |-> pf.hashes, hkey |-> pf.hkey, next |-> next, got |-> draft.got,
     raced |-> draft.raced]

\* The chunks in order, as reassemble writes them.
Assembled(t) == [i \in 1 .. Total(t.hashes) |-> t.got[i]]

Complete(t) == Cardinality(DOMAIN t.got) >= Total(t.hashes)

\* The history after transfer t of f was written.
Written(f, t) == IF t.raced THEN torn \cup {f} ELSE torn \ {f}

\* Every chunk was at hand locally: the file is written without the network.
WriteFromLocal(p) ==
    /\ LookedUp(p)
    /\ LET f == Head(queue[p]).file
           t == Started(p, 1)
       IN /\ Complete(t)
          /\ disk' = [disk EXCEPT ![f] = Assembled(t)]
          /\ torn' = Written(f, t)
    /\ queue' = [queue EXCEPT ![p] = Tail(@)]
    /\ draft' = None
    /\ UNCHANGED <<serverVars, keyVars, active, loop, net, spent>>

\* The local write fails: what was there, nothing or a part of the file is
\* left, and the file is no longer waiting.
LocalWriteFails(p) ==
    /\ LookedUp(p)
    /\ Spend("ioerror")
    /\ LET f == Head(queue[p]).file
           t == Started(p, 1)
       IN /\ Complete(t)
          /\ \E left \in {disk[f], Absent} \cup {SubSeq(Assembled(t), 1, n) :
                                                n \in 0 .. Total(t.hashes)} :
                disk' = [disk EXCEPT ![f] = left]
          /\ torn' = torn \cup {f}
    /\ queue' = [queue EXCEPT ![p] = Tail(@)]
    /\ draft' = None
    /\ UNCHANGED <<serverVars, keyVars, active, loop, net>>

\* The first Window chunks that were not read are requested; next is the
\* first one after them.
Activate(p) ==
    /\ LookedUp(p)
    /\ LET pf     == Head(queue[p])
           needed == (1 .. Total(pf.hashes)) \ DOMAIN draft.got
           first  == Smallest(needed, Window)
           next   == IF needed = first THEN Total(pf.hashes) + 1
                     ELSE Min(needed \ first)
       IN /\ needed # {}
          /\ active' = [active EXCEPT ![p] = Put(pf.file, Started(p, next), @)]
          /\ net' = Sent(p, Requests(pf.file, pf.hkey, first))
    /\ queue' = [queue EXCEPT ![p] = Tail(@)]
    /\ draft' = None
    /\ UNCHANGED <<serverVars, diskVars, keyVars, loop, spent>>

-----------------------------------------------------------------------------
(* A chunk arrives.                                                         *)

Arrived(p, m) == Idle /\ m \in InFlight(p) /\ m.type = "ChunkResponse"

\* An encrypted answer needs a key and a file id of the last manifest.
Known(p, m) == m.key # None => rxKey[p] # None /\ <<m.key, m.file>> \in inbound[p]

\* Decryption succeeds; without a key a plain answer is taken as it comes.
Opens(p, m) == m.sealed = rxKey[p] \/ (m.key = None /\ rxKey[p] = None)

\* Mutant: the hash is not compared.
VerifiedByIndex(p, m) == m.idx \in DOMAIN active[p][m.file].hashes

\* The chunk is plaintext and its hash, blinded with the present key if the
\* answer is an encrypted one, is the one its manifest promised.
Verified(p, m) ==
    LET t == active[p][m.file] IN
    /\ m.sealed = rxKey[p]
    /\ t.hkey = IF m.key = None THEN None ELSE rxKey[p]
    /\ m.idx \in DOMAIN t.hashes
    /\ m.data = t.hashes[m.idx]

\* The answer is for a file that is not being downloaded, or is not known.
DropChunk(p, m) ==
    /\ Arrived(p, m)
    /\ ~ Known(p, m) \/ (Opens(p, m) /\ m.file \notin DOMAIN active[p])
    /\ net' = Handled(p, m, {})
    /\ UNCHANGED <<serverVars, diskVars, keyVars, schedVars, spent>>

\* Decryption or verification failed: the same chunk is requested again.
RetryChunk(p, m) ==
    /\ Arrived(p, m)
    /\ Known(p, m)
    /\ Opens(p, m) => m.file \in DOMAIN active[p] /\ ~ Verified(p, m)
    /\ net' = Handled(p, m, {ChunkRequest(m.key, m.file, m.idx)})
    /\ UNCHANGED <<serverVars, diskVars, keyVars, schedVars, spent>>

\* The transfer after the chunk was stored, and the request that goes out.
Stored(p, m) ==
    LET t == active[p][m.file] IN
    Advance(t, Put(m.idx, m.data, t.got),
            IF t.next <= Total(t.hashes) THEN t.next + 1 ELSE t.next)

\* Mutant: the last chunk is never asked for.
FollowingButLast(p, m) ==
    LET t == active[p][m.file] IN
    IF t.next < Total(t.hashes) THEN {ChunkRequest(m.key, m.file, t.next)}
    ELSE {}

Following(p, m) ==
    LET t == active[p][m.file] IN
    IF t.next <= Total(t.hashes) THEN {ChunkRequest(m.key, m.file, t.next)}
    ELSE {}

Accepted(p, m) == /\ Arrived(p, m)
                  /\ Known(p, m)
                  /\ Opens(p, m)
                  /\ m.file \in DOMAIN active[p]
                  /\ Verified(p, m)

\* A chunk is stored and its file still lacks others.
StoreChunk(p, m) ==
    /\ Accepted(p, m)
    /\ ~ Complete(Stored(p, m))
    /\ active' = [active EXCEPT ![p][m.file] = Stored(p, m)]
    /\ net' = Handled(p, m, Following(p, m))
    /\ UNCHANGED <<serverVars, diskVars, keyVars, queue, loop, draft, spent>>

\* The last chunk: the file is written, its slot freed, the queue looked at.
FinishFile(p, m) ==
    /\ Accepted(p, m)
    /\ Complete(Stored(p, m))
    /\ disk' = [disk EXCEPT ![m.file] = Assembled(Stored(p, m))]
    /\ torn' = Written(m.file, active[p][m.file])
    /\ active' = [active EXCEPT ![p] = Drop(m.file, @)]
    /\ loop' = p
    /\ net' = Handled(p, m, Following(p, m))
    /\ UNCHANGED <<serverVars, keyVars, queue, draft, spent>>

\* The write fails: the old file is still there or renamed away, or a part of
\* the new one is on disk.  The transfer stays active.
FinishFails(p, m) ==
    /\ Accepted(p, m)
    /\ Complete(Stored(p, m))
    /\ Spend("ioerror")
    /\ \E left \in {disk[m.file], Absent}
               \cup {SubSeq(Assembled(Stored(p, m)), 1, n) :
                       n \in 0 .. Total(active[p][m.file].hashes)} :
          disk' = [disk EXCEPT ![m.file] = left]
    /\ torn' = torn \cup {m.file}
    /\ active' = [active EXCEPT ![p][m.file] = Stored(p, m)]
    /\ net' = Handled(p, m, Following(p, m))
    /\ UNCHANGED <<serverVars, keyVars, queue, loop, draft>>

-----------------------------------------------------------------------------
(* Time and loss.                                                           *)

\* Mutant: a retry sets the counter back to what it asked for.
LaterBack(t, late) == Max(late) + 1

\* The chunk to ask for next after those in late were asked for again.
Later(t, late) == Max({t.next, Max(late) + 1})

\* check_stalls: twenty seconds passed without a chunk of f, so its first
\* missing chunks are requested again, whether or not the requests made before
\* are still open (they are for 120 seconds).  Budget["stall"] bounds how often
\* one that is open is repeated.
CheckStalls(p, f) ==
    /\ Idle
    /\ f \in DOMAIN active[p]
    /\ LET t    == active[p][f]
           late == Smallest(Missing(t), Window)
       IN /\ late # {}
          /\ \/ /\ \A i \in late : Copies(p, t.hkey, f, i) = {}
                /\ UNCHANGED spent
             \/ /\ \E i \in late : Copies(p, t.hkey, f, i) # {}
                /\ Spend("stall")
          /\ net' = Sent(p, Requests(f, t.hkey, late))
          /\ active' = [active EXCEPT ![p][f] =
                          Advance(t, t.got, Later(t, late))]
    /\ UNCHANGED <<serverVars, diskVars, keyVars, queue, loop, draft>>

\* A request or its answer is lost or times out: OutboundFailure is logged.
Lose(p) ==
    /\ Spend("loss")
    /\ \E m \in InFlight(p) : net' = Handled(p, m, {})
    /\ UNCHANGED <<serverVars, diskVars, keyVars, schedVars>>

-----------------------------------------------------------------------------
(* Users, and the notices of the peers' watchers.                           *)

\* A user saves or removes a file at a peer.  Its watcher notifies the node
\* unless the file was notified in the five seconds before.
RemoteEdit(p, f) ==
    /\ Spend("edit")
    /\ \E c \in (Version[f] \cup {Absent}) \ {remote[p][f]} :
         /\ remote' = [remote EXCEPT ![p][f] = c]
         /\ \/ net' = net
            \/ /\ p \in connected
               /\ net' = Sent(p, {FileNotice(IF c = Absent THEN "FileDeleted"
                                             ELSE "FileChanged", f)})
    /\ UNCHANGED <<txKey, outbound, diskVars, keyVars, schedVars>>

\* The running lookup found chunks in f that it has not read yet.
ToBeRead(f) == draft # None /\ \E i \in DOMAIN draft.index : draft.index[i].file = f

\* The user saves or removes a file in this node's folder.
LocalEdit(f) ==
    /\ Spend("local")
    /\ \E c \in (Version[f] \cup {Absent}) \ {disk[f]} :
         disk' = [disk EXCEPT ![f] = c]
    /\ torn' = torn \ {f}
    /\ draft' = IF ToBeRead(f) THEN [draft EXCEPT !.raced = TRUE] ELSE draft
    /\ UNCHANGED <<serverVars, keyVars, active, queue, loop, net>>

\* The local copy goes; after a change the manifest is requested again.
OnFileNotice(p, m) ==
    /\ Idle
    /\ m \in InFlight(p)
    /\ m.type \in {"FileChanged", "FileDeleted"}
    /\ disk' = [disk EXCEPT ![m.file] = Absent]
    /\ torn' = torn \ {m.file}
    /\ net' = Handled(p, m, IF m.type = "FileChanged" THEN {ManifestRequest}
                            ELSE {})
    /\ UNCHANGED <<serverVars, keyVars, schedVars, spent>>

\* The two sides of a key exchange finish at different moments.
PeerRekeys(p, k) ==
    /\ Spend("rekey")
    /\ txKey[p] # k
    /\ txKey' = [txKey EXCEPT ![p] = k]
    /\ UNCHANGED <<remote, outbound, diskVars, keyVars, schedVars, net>>

NodeRekeys(p) ==
    /\ Idle
    /\ rxKey[p] # txKey[p]
    /\ rxKey' = [rxKey EXCEPT ![p] = txKey[p]]
    /\ UNCHANGED <<serverVars, diskVars, connected, inbound, schedVars, net, spent>>

-----------------------------------------------------------------------------
LoopStep(p) ==
    \/ EndLoop(p)
    \/ SkipPresent(p)
    \/ BeginLookup(p)
    \/ \E g \in File : IndexFile(p, g)
    \/ ReadLocal(p)
    \/ WriteFromLocal(p)
    \/ LocalWriteFails(p)
    \/ Activate(p)

OnChunk(p, m) ==
    \/ DropChunk(p, m)
    \/ RetryChunk(p, m)
    \/ StoreChunk(p, m)
    \/ FinishFile(p, m)
    \/ FinishFails(p, m)

\* What the node and the peers do of themselves.
Protocol(p) ==
    \/ Connect(p)
    \/ ServeManifest(p)
    \/ LoopStep(p)
    \/ \E m \in InFlight(p) : ServeChunk(p, m) \/ OnManifest(p, m)
                              \/ OnChunk(p, m) \/ OnFileNotice(p, m)
    \/ \E f \in File : CheckStalls(p, f)
    \/ NodeRekeys(p)

\* What users, the network and the operating system do to them.
Environment(p) ==
    \/ RequestSync(p)
    \/ Disconnect(p)
    \/ Lose(p)
    \/ \E f \in File : RemoteEdit(p, f)
    \/ \E k \in Key : PeerRekeys(p, k)

Next ==
    \/ \E p \in Peer : Protocol(p) \/ Environment(p)
    \/ \E f \in File : LocalEdit(f)
    \/ Restart

Spec == Init /\ [][Next]_vars

(***************************************************************************)
(* Fairness.  tokio::select! polls its branches in random order and every  *)
(* handler returns, so no event waits for ever: a handler of the node that *)
(* is enabled again and again between loops runs (SF).  A started loop     *)
(* goes on, and a peer that is asked answers (WF); a stall is sure to be   *)
(* noticed only when nothing it repeats is open.  Budget makes losses      *)
(* finite.  Users, losses, failures and slow peers are not fair.           *)
(***************************************************************************)
Fairness ==
    \A p \in Peer :
        /\ WF_vars(LoopStep(p))
        /\ WF_vars(ServeManifest(p))
        /\ WF_vars(\E m \in InFlight(p) : ServeChunk(p, m))
        /\ SF_vars(\E m \in InFlight(p) : OnManifest(p, m))
        /\ SF_vars(\E m \in InFlight(p) : OnChunk(p, m))
        /\ SF_vars(\E m \in InFlight(p) : OnFileNotice(p, m))
        /\ \A f \in File : SF_vars(CheckStalls(p, f) /\ UNCHANGED spent)
        /\ SF_vars(NodeRekeys(p))

FairSpec == Spec /\ Fairness

-----------------------------------------------------------------------------
(* Properties.                                                              *)

PendingType == [file : File, hashes : Seq(Data), hkey : Key \cup {None}]

IsTransfer(t) ==
    /\ t = [hashes |-> t.hashes, hkey |-> t.hkey, next |-> t.next, got |-> t.got,
            raced |-> t.raced]
    /\ t.hashes \in Seq(Data)
    /\ t.hkey \in Key \cup {None}
    /\ t.next \in Nat \ {0}
    /\ DOMAIN t.got \subseteq 1 .. Total(t.hashes)
    /\ t.got \in [DOMAIN t.got -> Data]
    /\ t.raced \in BOOLEAN

IsTransferMap(a) ==
    /\ DOMAIN a \subseteq File
    /\ a = [f \in DOMAIN a |-> a[f]]
    /\ \A f \in DOMAIN a : IsTransfer(a[f])

\* What a lookup for a file with these hashes has found and read.
IsLookup(d, hashes) ==
    /\ d = [walked |-> d.walked, index |-> d.index, got |-> d.got, raced |-> d.raced]
    /\ d.walked \subseteq File
    /\ DOMAIN d.index \subseteq DOMAIN hashes
    /\ d.index \in [DOMAIN d.index -> [file : File, idx : Nat \ {0}]]
    /\ DOMAIN d.got \subseteq DOMAIN hashes
    /\ d.got \in [DOMAIN d.got -> Data]
    /\ d.raced \in BOOLEAN

\* A lookup is under way only for the file the running loop has come to.
LookupOK == draft # None => /\ loop # None
                            /\ MayStart(loop)
                            /\ IsLookup(draft, Head(queue[loop]).hashes)

IsChannel(b) == IsABag(b) /\ \A m \in BagToSet(b) : IsMessage(m)

\* Every variable has its type (AppState, PeerDownload, FileTransferState).
TypeOK ==
    /\ remote \in [Peer -> [File -> {Absent} \cup Seq(Data)]]
    /\ txKey \in [Peer -> Key \cup {None}]
    /\ outbound \in [Peer -> SUBSET (Key \X File)]
    /\ disk \in [File -> {Absent} \cup Seq(Data)]
    /\ torn \subseteq File
    /\ connected \subseteq Peer
    /\ rxKey \in [Peer -> Key \cup {None}]
    /\ inbound \in [Peer -> SUBSET (Key \X File)]
    /\ active = [p \in Peer |-> active[p]]
    /\ \A p \in Peer : IsTransferMap(active[p])
    /\ queue \in [Peer -> Seq(PendingType)]
    /\ loop \in Peer \cup {None}
    /\ LookupOK
    /\ net = [p \in Peer |-> net[p]]
    /\ \A p \in Peer : IsChannel(net[p])
    /\ spent \in [Kind -> Nat]

\* Slots are never exceeded and never wasted: whenever the scheduler is not
\* running for a peer, a file of that peer waits only if all of its slots are
\* taken (start_queued_files runs wherever a slot or a file may have come).
WorkConserving ==
    \A p \in Peer :
        /\ Cardinality(DOMAIN active[p]) <= MaxConcurrentFiles
        /\ loop # p /\ queue[p] # <<>>
             => Cardinality(DOMAIN active[p]) = MaxConcurrentFiles

\* A file is in the hands of a peer's scheduler at most once, active or in one
\* place of the queue, whatever manifests arrive meanwhile (the checks of the
\* manifest handlers), so that no activation can overwrite a running transfer.
NoDuplicateTransfer ==
    \A p \in Peer :
        /\ DOMAIN active[p] \cap Waiting(p) = {}
        /\ \A i, j \in DOMAIN queue[p] :
              queue[p][i].file = queue[p][j].file => i = j

\* Every chunk kept in a transfer is the one its manifest named at its index,
\* whatever the peer's file and the keys have become since, unless a file that
\* a chunk was found in locally was saved or removed after it was hashed and
\* before the chunk was read: those reads are not verified.
GotVerified ==
    \A p \in Peer : \A f \in DOMAIN active[p] :
        LET t == active[p][f] IN
        \A i \in DOMAIN t.got :
            i \in DOMAIN t.hashes /\ (~ t.raced => t.got[i] = t.hashes[i])

\* What is on disk is a version somebody saved as a whole, never a mixture of
\* two versions or a part of one, unless a write of that file failed half way
\* or used a chunk whose source was saved between the hashing and the reading.
NoTornFile ==
    \A f \in File \ torn : disk[f] \in Version[f] \cup {Absent}

\* As long as no message was lost, every chunk below next that is not there
\* yet is being requested or answered: without loss, edits and new keys the
\* download needs no stall check to come to its end.
NoChunkForgotten ==
    (\A k \in {"loss", "edit", "rekey"} : spent[k] = 0) =>
        \A p \in Peer : \A f \in DOMAIN active[p] :
            LET t == active[p][f] IN
            \A i \in 1 .. (t.next - 1) :
                i \in DOMAIN t.got \/ Copies(p, t.hkey, f, i) # {}

ChunkStreams(p) ==
    Streams(p, {m \in InFlight(p) : m.type \in {"ChunkRequest", "ChunkResponse"}})

\* A peer never has more chunk streams open than all slots with full windows:
\* "concurrent streams at MAX_CONCURRENT_FILES x WINDOW" (handler.rs, THE FIX).
StreamCap ==
    \A p \in Peer : Cardinality(ChunkStreams(p)) <= MaxConcurrentFiles * Window

\* While a transfer stays active it keeps its manifest entry and every chunk
\* it has: no manifest, retry or stall takes progress away.
NoProgressLost ==
    [][\A p \in Peer : \A f \in DOMAIN active[p] :
          f \in DOMAIN active'[p] =>
            /\ active'[p][f].hashes = active[p][f].hashes
            /\ DOMAIN active[p][f].got \subseteq DOMAIN active'[p][f].got
            /\ active[p][f].next <= active'[p][f].next]_vars

\* A file the scheduler has taken up leaves it again: no transfer holds its
\* slot for ever and no file waits for ever.
TransfersEnd ==
    \A p \in Peer : \A f \in File :
        (f \in DOMAIN active[p] \cup Waiting(p))
          ~> (f \notin DOMAIN active[p] \cup Waiting(p))

\* A file of a connected peer is on disk in the end, unless the request for
\* its manifest was lost or the manifest was sealed with a key not yet here.
FilesArrive ==
    \A p \in Peer : \A f \in File :
        (p \in connected /\ remote[p][f] # Absent)
          ~> \/ disk[f] # Absent
             \/ p \notin connected
             \/ spent["loss"] + spent["rekey"] > 0

=============================================================================
