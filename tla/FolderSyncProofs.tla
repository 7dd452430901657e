-------------------------- MODULE FolderSyncProofs --------------------------
(***************************************************************************)
(* Proofs about the shared folder of module FolderSync, for any folders,   *)
(* names, contents and number of saves, and any interleaving of watchers,  *)
(* main loops, windows and messages: as long as only one user edits, what  *)
(* he saved stays in his folder (AuthorInv); and when users take turns,    *)
(* the folders agree whenever nothing is on its way (TurnsInv).            *)
(***************************************************************************)
EXTENDS FolderSync, FiniteSetTheorems, SequenceTheorems, TLAPS

-----------------------------------------------------------------------------
(* The inductive invariant while one user edits.                            *)

Event == [kind : {"write", "remove"}, file : Name]

IsMessage(m) ==
    /\ m.type = "Manifest" => DOMAIN m.files \subseteq Name
    /\ m.type \in {"FileChanged", "FileDeleted"} => m.file \in Name

IsTransfers(n, a) ==
    /\ DOMAIN a \subseteq Name
    /\ \A x \in DOMAIN a : a[x].dir \in Dir[n]

Types ==
    /\ DOMAIN disk = Node
    /\ \A n \in Node : DOMAIN disk[n] = Path(n)
    /\ DOMAIN mine = Node
    /\ \A n \in Node : DOMAIN mine[n] = Path(n)
    /\ \A n \in Node : \A p \in Path(n) : mine[n][p] # Absent => p[2] \in File
    /\ DOMAIN sync = Node
    /\ \A n \in Node : sync[n] \in Dir[n] \cup {None}
    /\ DOMAIN watchers = Node
    /\ \A n \in Node : watchers[n] \in Seq([dir : Dir[n], events : Seq(Event)])
    /\ notices \in [Node -> Seq(Event)]
    /\ DOMAIN writing = Node
    /\ DOMAIN deleting = Node
    /\ DOMAIN active = Node
    /\ \A n \in Node : IsTransfers(n, active[n])
    /\ DOMAIN net = Node
    /\ \A n \in Node : \A m \in InFlight(n) : IsMessage(m)

\* A watcher of folder d on node n has still to see the event e.
Awaits(n, d, e) ==
    \E w \in DOMAIN watchers[n] :
        /\ watchers[n][w].dir = d
        /\ \E i \in DOMAIN watchers[n][w].events : watchers[n][w].events[i] = e

\* Some place of the sequence s holds e.
Has(s, e) == \E i \in DOMAIN s : s[i] = e

\* A notice of e waits for the main loop of n.
Noted(n, e) == Has(notices[n], e)

\* The user of n saved nothing: the other one is the author, if there is one.
Quiet(n) == \A p \in Path(n) : mine[n][p] = Absent

\* Only a file that the user saved can be in the way of one that arrives.
ClearWay(n) ==
    \A x \in DOMAIN active[n] :
        LET p == <<active[n][x].dir, x>>
        IN mine[n][p] = Absent => disk[n][p] = Absent

\* What a watcher has to see of the node's own removals is marked, and at a
\* quiet node what it has to see of writes too.
Marked(n) ==
    \A d \in Dir[n] : \A e \in Event :
        Awaits(n, d, e) =>
          /\ e.kind = "remove" => <<d, e.file>> \in deleting[n]
          /\ Quiet(n) /\ e.kind = "write" => <<d, e.file>> \in writing[n]

\* No removal is on its way to be announced, and nothing at a quiet node.
NothingToTell(n) ==
    /\ \A e : Noted(n, e) => e.kind = "write"
    /\ Quiet(n) => \A e : ~ Noted(n, e)

\* So no notice is on its way from a quiet node, and no removal from any.
NotTold(n) ==
    \A m \in InFlight(n) :
        /\ m.type # "FileDeleted"
        /\ Quiet(Other(n)) => m.type # "FileChanged"

Kept(n) ==
    \A p \in Path(n) :
        mine[n][p] # Absent =>
          \E y \in {p[2]} \cup Conflict[p[2]] : disk[n][<<p[1], y>>] = mine[n][p]

Core ==
    /\ \E n \in Node : Quiet(n)
    /\ \A n \in Node : ClearWay(n) /\ Marked(n) /\ NothingToTell(n) /\ NotTold(n) /\ Kept(n)

\* Nothing that AuthorKeeps excludes has happened.
Clean == upset \cap {"rival", "removal", "local", "reused"} = {}

AuthorInv == Clean => Types /\ Core

-----------------------------------------------------------------------------
(* Nodes and the network.                                                   *)

LEMMA OtherNode ==
  ASSUME NEW n \in Node
  PROVE  Other(n) \in Node /\ Other(n) # n /\ Other(Other(n)) = n
         /\ \A k \in Node : k = n \/ k = Other(n)
BY NodeAssumption DEF Node, Other

LEMMA SentBag ==
  ASSUME NEW b, NEW S
  PROVE  BagToSet(b (+) SetToBag(S)) = BagToSet(b) \cup S
BY DEF BagToSet, SetToBag, (+)

LEMMA TakenBag ==
  ASSUME NEW b, NEW S
  PROVE  BagToSet(b (-) SetToBag(S)) \subseteq BagToSet(b)
BY DEF BagToSet, SetToBag, (-)

\* What is on its way after n sent the messages in S, and took m or not.
LEMMA SentNet ==
  ASSUME DOMAIN net = Node, NEW n \in Node, NEW S, net' = Sent(n, S)
  PROVE  /\ DOMAIN net' = Node
         /\ \A k \in Node : \A m \in InFlight(k)' : m \in InFlight(k) \/ (k = Other(n) /\ m \in S)
<1>1. /\ DOMAIN net' = Node
      /\ net'[Other(n)] = net[Other(n)] (+) SetToBag(S)
      /\ net'[n] = net[n]
  BY OtherNode DEF Sent
<1> QED
  BY <1>1, SentBag, OtherNode DEF InFlight

LEMMA HandledNet ==
  ASSUME DOMAIN net = Node, NEW n \in Node, NEW x, NEW S, net' = Handled(n, x, S)
  PROVE  /\ DOMAIN net' = Node
         /\ \A k \in Node : \A m \in InFlight(k)' : m \in InFlight(k) \/ (k = Other(n) /\ m \in S)
<1>1. /\ DOMAIN net' = Node
      /\ net'[Other(n)] = net[Other(n)] (+) SetToBag(S)
      /\ net'[n] = net[n] (-) SetToBag({x})
  BY OtherNode DEF Handled
<1> QED
  BY <1>1, SentBag, TakenBag, OtherNode DEF InFlight

LEMMA BagSum ==
  ASSUME NEW b, IsABag(b), NEW S, NEW c, c = b (+) SetToBag(S)
  PROVE  /\ IsABag(c)
         /\ BagToSet(c) = BagToSet(b) \cup S
         /\ \A r \in BagToSet(b) \ S : c[r] = b[r]
         /\ \A r \in S \ BagToSet(b) : c[r] = 1
<1>1. /\ DOMAIN c = DOMAIN b \cup S
      /\ \A r \in DOMAIN c : c[r] = (IF r \in DOMAIN b THEN b[r] ELSE 0)
                                    + (IF r \in S THEN 1 ELSE 0)
      /\ c = [r \in DOMAIN c |-> c[r]]
  BY DEF SetToBag, (+)
<1>2. \A r \in DOMAIN b : b[r] \in Nat /\ b[r] > 0
  BY DEF IsABag
<1>3. \A r \in DOMAIN c : c[r] \in {i \in Nat : i > 0}
  BY <1>1, <1>2
<1>4. IsABag(c)
  BY <1>1, <1>3 DEF IsABag
<1> QED
  BY <1>1, <1>2, <1>4 DEF BagToSet

LEMMA BagRest ==
  ASSUME NEW b, IsABag(b), NEW m \in BagToSet(b), NEW c, c = b (-) SetToBag({m})
  PROVE  /\ IsABag(c)
         /\ BagToSet(c) \subseteq BagToSet(b)
         /\ \A r \in BagToSet(b) : r # m => r \in BagToSet(c) /\ c[r] = b[r]
         /\ b[m] = 1 => m \notin BagToSet(c)
<1> DEFINE diff(r) == IF r \in {m} THEN b[r] - 1 ELSE b[r]
<1>1. \A r \in DOMAIN b : b[r] \in Nat /\ b[r] > 0
  BY DEF IsABag
<1>2. /\ DOMAIN c = {r \in DOMAIN b : diff(r) > 0}
      /\ \A r \in DOMAIN c : c[r] = diff(r)
      /\ c = [r \in DOMAIN c |-> c[r]]
  BY <1>1 DEF SetToBag, (-)
<1>3. \A r \in DOMAIN c : c[r] \in {i \in Nat : i > 0}
  BY <1>1, <1>2
<1>4. IsABag(c)
  BY <1>2, <1>3 DEF IsABag
<1> QED
  BY <1>1, <1>2, <1>4 DEF BagToSet

\* What is on its way after n sent the messages in S.
LEMMA SentMail ==
  ASSUME DOMAIN net = Node, \A k \in Node : IsABag(net[k]), NEW n \in Node, NEW S,
         net' = Sent(n, S)
  PROVE  /\ DOMAIN net' = Node
         /\ \A k \in Node : IsABag(net'[k])
         /\ net'[n] = net[n] /\ InFlight(n)' = InFlight(n)
         /\ InFlight(Other(n))' = InFlight(Other(n)) \cup S
         /\ \A r \in InFlight(Other(n)) \ S : net'[Other(n)][r] = net[Other(n)][r]
         /\ \A r \in S \ InFlight(Other(n)) : net'[Other(n)][r] = 1
<1> DEFINE m == Other(n)
<1>1. m \in Node /\ m # n /\ \A k \in Node : k = n \/ k = m
  BY OtherNode
<1>2. /\ DOMAIN net' = Node /\ net'[n] = net[n]
      /\ net'[m] = net[m] (+) SetToBag(S)
  BY <1>1 DEF Sent
<1> HIDE DEF m
<1>3. /\ IsABag(net'[m])
      /\ BagToSet(net'[m]) = BagToSet(net[m]) \cup S
      /\ \A r \in BagToSet(net[m]) \ S : net'[m][r] = net[m][r]
      /\ \A r \in S \ BagToSet(net[m]) : net'[m][r] = 1
  BY <1>1, <1>2, BagSum
<1> QED
  BY <1>1, <1>2, <1>3 DEF InFlight, m

\* The same after n also took one copy of the message x.
LEMMA HandledMail ==
  ASSUME DOMAIN net = Node, \A k \in Node : IsABag(net[k]), NEW n \in Node,
         NEW x \in InFlight(n), NEW S, net' = Handled(n, x, S)
  PROVE  /\ DOMAIN net' = Node
         /\ \A k \in Node : IsABag(net'[k])
         /\ InFlight(n)' \subseteq InFlight(n)
         /\ \A r \in InFlight(n) : r # x => r \in InFlight(n)' /\ net'[n][r] = net[n][r]
         /\ net[n][x] = 1 => x \notin InFlight(n)'
         /\ InFlight(Other(n))' = InFlight(Other(n)) \cup S
         /\ \A r \in InFlight(Other(n)) \ S : net'[Other(n)][r] = net[Other(n)][r]
<1> DEFINE m == Other(n)
<1>1. m \in Node /\ m # n /\ \A k \in Node : k = n \/ k = m
  BY OtherNode
<1>2. /\ DOMAIN net' = Node
      /\ net'[n] = net[n] (-) SetToBag({x})
      /\ net'[m] = net[m] (+) SetToBag(S)
  BY <1>1 DEF Handled
<1> HIDE DEF m
<1>3. /\ IsABag(net'[m])
      /\ BagToSet(net'[m]) = BagToSet(net[m]) \cup S
      /\ \A r \in BagToSet(net[m]) \ S : net'[m][r] = net[m][r]
  BY <1>1, <1>2, BagSum
<1>4. /\ IsABag(net'[n])
      /\ BagToSet(net'[n]) \subseteq BagToSet(net[n])
      /\ \A r \in BagToSet(net[n]) : r # x => r \in BagToSet(net'[n]) /\ net'[n][r] = net[n][r]
      /\ net[n][x] = 1 => x \notin BagToSet(net'[n])
  BY <1>2, BagRest DEF InFlight
<1> QED
  BY <1>1, <1>2, <1>3, <1>4 DEF InFlight, m

\* Messages that are no notices.
LEMMA Harmless ==
  /\ FolderAnnouncement.type = "FolderAnnouncement"
  /\ ManifestRequest.type = "ManifestRequest"
  /\ \A files : Manifest(files).type = "Manifest" /\ Manifest(files).files = files
  /\ \A x : ChunkRequest(x).type = "ChunkRequest"
  /\ \A x, c : ChunkResponse(x, c).type = "ChunkResponse"
  /\ \A x : FileChanged(x).type = "FileChanged" /\ FileChanged(x).file = x
  /\ \A x : FileDeleted(x).type = "FileDeleted" /\ FileDeleted(x).file = x
BY DEF FolderAnnouncement, ManifestRequest, Manifest, ChunkRequest, ChunkResponse,
       FileChanged, FileDeleted

-----------------------------------------------------------------------------
(* Events.                                                                  *)

LEMMA SingleEvents ==
  ASSUME NEW x \in Name
  PROVE  /\ Written(x) \in Event /\ Removed(x) \in Event
         /\ Written(x).kind = "write" /\ Written(x).file = x
         /\ Removed(x).kind = "remove" /\ Removed(x).file = x
         /\ <<Written(x)>> \in Seq(Event) /\ <<Removed(x)>> \in Seq(Event)
<1>1. Written(x) \in Event /\ Removed(x) \in Event
  BY DEF Written, Removed, Event
<1> QED
  BY <1>1 DEF Written, Removed

LEMMA EventForm ==
  ASSUME NEW e \in Event
  PROVE  /\ e.file \in Name
         /\ e.kind = "write" => e = Written(e.file)
         /\ e.kind = "remove" => e = Removed(e.file)
         /\ e.kind \in {"write", "remove"}
BY DEF Event, Written, Removed

\* A finite set is the range of its sequence.
LEMMA SeqOfSet ==
  ASSUME NEW T, NEW S \in SUBSET T, IsFiniteSet(S)
  PROVE  /\ SetToSeq(S) \in Seq(T)
         /\ \A i \in DOMAIN SetToSeq(S) : SetToSeq(S)[i] \in S
<1> DEFINE N == Cardinality(S)
<1>1. N \in Nat /\ ExistsBijection(1 .. N, S)
  BY FS_CardinalityType
<1>2. PICK f \in [1 .. N -> S] : IsInjective(f)
  BY <1>1 DEF ExistsBijection, Bijection, Injection
<1>3. SetToSeq(S) \in [1 .. N -> S]
  BY <1>2 DEF SetToSeq
<1> HIDE DEF N
<1>4. SetToSeq(S) \in [1 .. N -> T] /\ DOMAIN SetToSeq(S) = 1 .. N
  BY <1>3
<1>5. [1 .. N -> T] \subseteq Seq(T)
  BY <1>1 DEF Seq
<1> QED
  BY <1>3, <1>4, <1>5

\* What is kept of a sequence when its oldest member is taken or a new one added.
LEMMA Taking ==
  ASSUME NEW s \in Seq(Event), s # <<>>
  PROVE  /\ Head(s) \in Event /\ Tail(s) \in Seq(Event)
         /\ \A a : Has(s, a) <=> a = Head(s) \/ Has(Tail(s), a)
<1>1. /\ Head(s) \in Event /\ Tail(s) \in Seq(Event) /\ Head(s) = s[1]
      /\ DOMAIN s = 1 .. Len(s) /\ Len(s) \in Nat \ {0}
      /\ DOMAIN Tail(s) = 1 .. Len(s) - 1
      /\ \A i \in 1 .. Len(s) - 1 : Tail(s)[i] = s[i + 1]
  BY HeadTailProperties, LenProperties, EmptySeq
<1>2. ASSUME NEW a, NEW i \in DOMAIN s, s[i] = a, a # Head(s)
      PROVE  \E j \in DOMAIN Tail(s) : Tail(s)[j] = a
  <2>1. i - 1 \in 1 .. Len(s) - 1 /\ i = (i - 1) + 1
    BY <1>1, <1>2
  <2> QED
    BY <1>1, <1>2, <2>1
<1>3. ASSUME NEW j \in DOMAIN Tail(s)
      PROVE  \E i \in DOMAIN s : s[i] = Tail(s)[j]
  <2>1. j + 1 \in DOMAIN s /\ Tail(s)[j] = s[j + 1]
    BY <1>1
  <2> QED
    BY <2>1
<1>4. 1 \in DOMAIN s
  BY <1>1
<1> QED
  BY <1>1, <1>2, <1>3, <1>4 DEF Has

LEMMA Joining ==
  ASSUME NEW s \in Seq(Event), NEW t \in Seq(Event)
  PROVE  /\ s \o t \in Seq(Event)
         /\ \A a : Has(s \o t, a) <=> Has(s, a) \/ Has(t, a)
<1>1. /\ s \o t \in Seq(Event)
      /\ DOMAIN (s \o t) = 1 .. Len(s) + Len(t)
      /\ DOMAIN s = 1 .. Len(s) /\ DOMAIN t = 1 .. Len(t)
      /\ Len(s) \in Nat /\ Len(t) \in Nat
      /\ \A j \in 1 .. Len(s) + Len(t) :
           (s \o t)[j] = IF j <= Len(s) THEN s[j] ELSE t[j - Len(s)]
  BY ConcatProperties, LenProperties
<1> DEFINE r == s \o t
<1> HIDE DEF r
<1>2. ASSUME NEW i \in DOMAIN r
      PROVE  (\E j \in DOMAIN s : s[j] = r[i]) \/ (\E j \in DOMAIN t : t[j] = r[i])
  <2>1. i \in 1 .. Len(s) + Len(t) /\ r[i] = IF i <= Len(s) THEN s[i] ELSE t[i - Len(s)]
    BY <1>1 DEF r
  <2>2. CASE i <= Len(s)
    BY <1>1, <2>1, <2>2
  <2>3. CASE ~ (i <= Len(s))
    <3>1. i - Len(s) \in DOMAIN t
      BY <1>1, <2>1, <2>3
    <3> QED
      BY <2>1, <2>3, <3>1
  <2> QED
    BY <2>2, <2>3
<1>3. ASSUME NEW j \in DOMAIN s PROVE j \in DOMAIN r /\ r[j] = s[j]
  BY <1>1 DEF r
<1>4. ASSUME NEW j \in DOMAIN t PROVE j + Len(s) \in DOMAIN r /\ r[j + Len(s)] = t[j]
  BY <1>1 DEF r
<1> QED
  BY <1>1, <1>2, <1>3, <1>4 DEF r, Has

LEMMA Adding ==
  ASSUME NEW s \in Seq(Event), NEW e \in Event
  PROVE  /\ Append(s, e) \in Seq(Event)
         /\ \A a : Has(Append(s, e), a) <=> a = e \/ Has(s, a)
<1>1. /\ DOMAIN s = 1 .. Len(s) /\ Len(s) \in Nat
      /\ DOMAIN Append(s, e) = 1 .. Len(s) + 1
      /\ \A i \in 1 .. Len(s) : Append(s, e)[i] = s[i]
      /\ Append(s, e)[Len(s) + 1] = e
      /\ Append(s, e) \in Seq(Event)
  BY AppendProperties, LenProperties
<1> DEFINE r == Append(s, e)
<1> HIDE DEF r
<1>2. ASSUME NEW i \in DOMAIN r
      PROVE  r[i] = e \/ \E j \in DOMAIN s : s[j] = r[i]
  <2>1. i = Len(s) + 1 \/ i \in DOMAIN s
    BY <1>1 DEF r
  <2> QED
    BY <1>1, <2>1 DEF r
<1>3. Len(s) + 1 \in DOMAIN r /\ \A j \in DOMAIN s : j \in DOMAIN r /\ r[j] = s[j]
  BY <1>1 DEF r
<1> QED
  BY <1>1, <1>2, <1>3 DEF r, Has

-----------------------------------------------------------------------------
(* Watchers.                                                                *)

WatcherType(n) == [dir : Dir[n], events : Seq(Event)]

\* The operating system tells every watcher of a folder.
LEMMA NoticedWatchers ==
  ASSUME Types, NEW n \in Node, NEW d, NEW es \in Seq(Event), watchers' = Noticed(n, d, es)
  PROVE  /\ DOMAIN watchers' = Node
         /\ \A k \in Node : watchers'[k] \in Seq(WatcherType(k))
         /\ \A k \in Node : \A f, e :
              Awaits(k, f, e)' => \/ Awaits(k, f, e)
                                  \/ k = n /\ f = d /\ \E i \in DOMAIN es : es[i] = e
<1> DEFINE W == watchers[n]
           V == [w \in DOMAIN W |-> IF W[w].dir = d
                                    THEN [dir |-> d, events |-> W[w].events \o es]
                                    ELSE W[w]]
<1>1. /\ W \in Seq(WatcherType(n)) /\ DOMAIN W = 1 .. Len(W) /\ Len(W) \in Nat
      /\ \A w \in DOMAIN W : W[w] \in WatcherType(n)
  <2>1. W \in Seq(WatcherType(n))
    BY DEF Types, WatcherType
  <2> HIDE DEF W
  <2> QED
    BY <2>1, LenProperties, ElementOfSeq
<1>2. watchers' = [watchers EXCEPT ![n] = V]
  BY DEF Noticed
<1>3. ASSUME NEW w \in DOMAIN W
      PROVE  /\ V[w] \in WatcherType(n) /\ V[w].dir = W[w].dir
             /\ V[w].events = IF W[w].dir = d THEN W[w].events \o es ELSE W[w].events
             /\ W[w].events \in Seq(Event)
  <2>1. W[w].events \in Seq(Event) /\ W[w].dir \in Dir[n]
        /\ W[w] = [dir |-> W[w].dir, events |-> W[w].events]
    BY <1>1 DEF WatcherType
  <2>2. W[w].events \o es \in Seq(Event)
    BY <2>1, ConcatProperties
  <2>3. V[w] = [dir |-> W[w].dir,
                events |-> IF W[w].dir = d THEN W[w].events \o es ELSE W[w].events]
    BY <2>1
  <2> HIDE DEF V, W
  <2> QED
    BY <2>1, <2>2, <2>3 DEF WatcherType
<1>4. V \in Seq(WatcherType(n)) /\ DOMAIN V = DOMAIN W
  <2>1. DOMAIN V = 1 .. Len(W) /\ V = [w \in 1 .. Len(W) |-> V[w]]
    BY <1>1
  <2>2. \A w \in 1 .. Len(W) : V[w] \in WatcherType(n)
    BY <1>1, <1>3
  <2> HIDE DEF V, W
  <2>3. V \in [1 .. Len(W) -> WatcherType(n)]
    BY <2>1, <2>2
  <2> QED
    BY <1>1, <2>1, <2>3
<1> HIDE DEF V
<1>5. DOMAIN watchers' = Node /\ watchers'[n] = V /\ \A k \in Node : k # n => watchers'[k] = watchers[k]
  BY <1>2 DEF Types
<1>6. \A k \in Node : watchers'[k] \in Seq(WatcherType(k))
  BY <1>4, <1>5 DEF Types, WatcherType
<1>7. ASSUME NEW f, NEW e, Awaits(n, f, e)', ~ Awaits(n, f, e)
      PROVE  f = d /\ \E i \in DOMAIN es : es[i] = e
  <2>1. PICK w \in DOMAIN W : V[w].dir = f /\ \E i \in DOMAIN V[w].events : V[w].events[i] = e
    BY <1>4, <1>5, <1>7 DEF Awaits
  <2>2. PICK i \in DOMAIN V[w].events : V[w].events[i] = e
    BY <2>1
  <2>3. W[w].dir = f
    BY <1>3, <2>1
  <2>4. ~ \E j \in DOMAIN W[w].events : W[w].events[j] = e
    BY <1>7, <2>3 DEF Awaits
  <2>5. W[w].dir = d /\ V[w].events = W[w].events \o es
    BY <1>3, <2>2, <2>4
  <2>6. /\ W[w].events \in Seq(Event)
        /\ DOMAIN (W[w].events \o es) = 1 .. Len(W[w].events) + Len(es)
        /\ DOMAIN W[w].events = 1 .. Len(W[w].events) /\ DOMAIN es = 1 .. Len(es)
        /\ Len(W[w].events) \in Nat /\ Len(es) \in Nat
        /\ \A j \in 1 .. Len(W[w].events) + Len(es) :
             (W[w].events \o es)[j] = IF j <= Len(W[w].events) THEN W[w].events[j]
                                      ELSE es[j - Len(W[w].events)]
    BY <1>3, ConcatProperties, LenProperties
  <2> HIDE DEF W
  <2>7. i \in 1 .. Len(W[w].events) + Len(es) /\ ~ (i <= Len(W[w].events))
    BY <2>2, <2>4, <2>5, <2>6
  <2>8. i - Len(W[w].events) \in DOMAIN es /\ es[i - Len(W[w].events)] = e
    BY <2>2, <2>5, <2>6, <2>7
  <2> QED
    BY <2>3, <2>5, <2>8
<1>8. ASSUME NEW k \in Node, k # n, NEW f, NEW e, Awaits(k, f, e)'
      PROVE  Awaits(k, f, e)
  BY <1>5, <1>8 DEF Awaits
<1> QED
  BY <1>5, <1>6, <1>7, <1>8

\* Nothing a watcher has to see gets lost when more comes.
LEMMA NoticedKept ==
  ASSUME Types, NEW n \in Node, NEW d, NEW es \in Seq(Event), watchers' = Noticed(n, d, es)
  PROVE  /\ \A k \in Node : \A f, e : Awaits(k, f, e) => Awaits(k, f, e)'
         /\ (\E w \in DOMAIN watchers[n] : watchers[n][w].dir = d) =>
              \A i \in DOMAIN es : Awaits(n, d, es[i])'
<1> DEFINE W == watchers[n]
           V == [w \in DOMAIN W |-> IF W[w].dir = d
                                    THEN [dir |-> d, events |-> W[w].events \o es]
                                    ELSE W[w]]
<1>1. /\ watchers'[n] = V /\ DOMAIN watchers' = Node
      /\ \A k \in Node : k # n => watchers'[k] = watchers[k]
  BY DEF Noticed, Types
<1>2. ASSUME NEW w \in DOMAIN W
      PROVE  /\ w \in DOMAIN V /\ V[w].dir = W[w].dir
             /\ V[w].events = IF W[w].dir = d THEN W[w].events \o es ELSE W[w].events
             /\ W[w].events \in Seq(Event)
  <2>1. W \in Seq(WatcherType(n))
    BY DEF Types, WatcherType
  <2>2. W[w] \in WatcherType(n)
    <3> HIDE DEF W
    <3> QED
      BY <2>1, ElementOfSeq, LenProperties
  <2> QED
    BY <2>2 DEF WatcherType
<1> HIDE DEF V
<1>3. ASSUME NEW w \in DOMAIN W, W[w].dir = d, NEW e,
             Has(W[w].events, e) \/ Has(es, e)
      PROVE  Awaits(n, d, e)'
  <2>1. Has(W[w].events \o es, e)
    <3> DEFINE s == W[w].events
    <3>1. s \in Seq(Event) /\ (Has(s, e) \/ Has(es, e))
      BY <1>2, <1>3
    <3> HIDE DEF s
    <3>2. Has(s \o es, e) <=> Has(s, e) \/ Has(es, e)
      BY <3>1, Joining
    <3>3. Has(s \o es, e)
      BY <3>1, <3>2
    <3> QED
      BY <3>3 DEF s
  <2>2. /\ w \in DOMAIN watchers'[n] /\ watchers'[n][w].dir = d
        /\ Has(watchers'[n][w].events, e)
    BY <1>1, <1>2, <1>3, <2>1
  <2> QED
    BY <2>2 DEF Awaits, Has
<1>4. ASSUME NEW f, NEW e, Awaits(n, f, e) PROVE Awaits(n, f, e)'
  <2>1. PICK w \in DOMAIN W : W[w].dir = f /\ Has(W[w].events, e)
    BY <1>4 DEF Awaits, Has
  <2>2. CASE f = d
    BY <1>3, <2>1, <2>2
  <2>3. CASE f # d
    BY <1>1, <1>2, <2>1, <2>3 DEF Awaits, Has
  <2> QED
    BY <2>2, <2>3
<1>5. ASSUME NEW k \in Node, k # n, NEW f, NEW e, Awaits(k, f, e) PROVE Awaits(k, f, e)'
  BY <1>1, <1>5 DEF Awaits
<1>6. ASSUME NEW w \in DOMAIN W, W[w].dir = d, NEW i \in DOMAIN es PROVE Awaits(n, d, es[i])'
  BY <1>3, <1>6 DEF Has
<1> QED
  BY <1>4, <1>5, <1>6

\* A watcher takes the oldest event it has not seen.
LEMMA WatchWatchers ==
  ASSUME Types, NEW n \in Node, NEW w \in DOMAIN watchers[n], watchers[n][w].events # <<>>,
         watchers' = [watchers EXCEPT ![n][w].events = Tail(@)]
  PROVE  /\ watchers[n][w].dir \in Dir[n]
         /\ Head(watchers[n][w].events) \in Event
         /\ Awaits(n, watchers[n][w].dir, Head(watchers[n][w].events))
         /\ DOMAIN watchers' = Node
         /\ \A k \in Node : watchers'[k] \in Seq(WatcherType(k))
         /\ \A k \in Node : \A f, e : Awaits(k, f, e)' => Awaits(k, f, e)
<1> DEFINE W == watchers[n]
           s == W[w].events
           V == [W EXCEPT ![w].events = Tail(s)]
<1>1. /\ W \in Seq(WatcherType(n)) /\ DOMAIN W = 1 .. Len(W) /\ Len(W) \in Nat
      /\ \A v \in DOMAIN W : W[v] \in WatcherType(n)
  <2>1. W \in Seq(WatcherType(n))
    BY DEF Types, WatcherType
  <2> HIDE DEF W
  <2> QED
    BY <2>1, LenProperties, ElementOfSeq
<1>2. /\ s \in Seq(Event) /\ s # <<>> /\ W[w].dir \in Dir[n]
      /\ W[w] = [dir |-> W[w].dir, events |-> s]
  BY <1>1 DEF WatcherType
<1>3. /\ Tail(s) \in Seq(Event) /\ Head(s) \in Event /\ Head(s) = s[1]
      /\ DOMAIN s = 1 .. Len(s) /\ Len(s) \in Nat \ {0}
      /\ DOMAIN Tail(s) = 1 .. Len(s) - 1
      /\ \A i \in 1 .. Len(s) - 1 : Tail(s)[i] = s[i + 1]
  <2> HIDE DEF s
  <2> QED
    BY <1>2, HeadTailProperties, LenProperties, EmptySeq
<1>4. Awaits(n, W[w].dir, Head(s))
  BY <1>3 DEF Awaits
<1>5. /\ watchers'[n] = V /\ DOMAIN watchers' = Node
      /\ \A k \in Node : k # n => watchers'[k] = watchers[k]
  BY DEF Types
<1>6. /\ DOMAIN V = DOMAIN W
      /\ V[w] = [dir |-> W[w].dir, events |-> Tail(s)]
      /\ V[w].dir = W[w].dir /\ V[w].events = Tail(s)
      /\ \A v \in DOMAIN W : v # w => V[v] = W[v]
  BY <1>2
<1> HIDE DEF V, s
<1>7. V \in Seq(WatcherType(n))
  <2>1. ASSUME NEW v \in 1 .. Len(W) PROVE V[v] \in WatcherType(n)
    <3>1. [dir |-> W[w].dir, events |-> Tail(s)] \in WatcherType(n)
      BY <1>2, <1>3 DEF WatcherType
    <3> QED
      BY <1>1, <1>6, <3>1
  <2>2. V = [v \in 1 .. Len(W) |-> V[v]]
    BY <1>1, <1>6 DEF V
  <2>3. V \in [1 .. Len(W) -> WatcherType(n)]
    BY <2>1, <2>2
  <2> QED
    BY <1>1, <2>3
<1>8. ASSUME NEW f, NEW e, Awaits(n, f, e)'
      PROVE  Awaits(n, f, e)
  <2>1. PICK v \in DOMAIN W : V[v].dir = f /\ \E i \in DOMAIN V[v].events : V[v].events[i] = e
    BY <1>5, <1>6, <1>8 DEF Awaits
  <2>2. CASE v # w
    BY <1>6, <2>1, <2>2 DEF Awaits
  <2>3. CASE v = w
    <3>1. PICK i \in DOMAIN Tail(s) : Tail(s)[i] = e
      BY <1>6, <2>1, <2>3
    <3>2. i + 1 \in DOMAIN s /\ s[i + 1] = e
      BY <1>3, <3>1
    <3> QED
      BY <1>6, <2>1, <2>3, <3>2 DEF Awaits, s
  <2> QED
    BY <2>2, <2>3
<1>9. ASSUME NEW k \in Node, k # n, NEW f, NEW e, Awaits(k, f, e)'
      PROVE  Awaits(k, f, e)
  BY <1>5, <1>9 DEF Awaits
<1>10. \A k \in Node : watchers'[k] \in Seq(WatcherType(k))
  BY <1>5, <1>7 DEF Types, WatcherType
<1> USE DEF s
<1>11. watchers[n][w].dir \in Dir[n] /\ Head(watchers[n][w].events) \in Event
  BY <1>2, <1>3
<1>12. Awaits(n, watchers[n][w].dir, Head(watchers[n][w].events))
  BY <1>4
<1>13. \A k \in Node : \A f, e : Awaits(k, f, e)' => Awaits(k, f, e)
  BY <1>8, <1>9
<1> QED
  BY <1>5, <1>10, <1>11, <1>12, <1>13

\* A watcher takes one event and tells of it, or not.
LEMMA WatchStep ==
  ASSUME Types, NEW n \in Node, NEW w \in DOMAIN watchers[n], Watch(n, w)
  PROVE  /\ Types'
         /\ UNCHANGED <<disk, mine, sync, writing, deleting, recent, active, net, upset>>
         /\ \E d \in Dir[n], e \in Event :
              LET told == ~ Own(n, <<d, e.file>>, e)
                          /\ ~ (e.kind = "write" /\ disk[n][<<d, e.file>>] = Absent)
              IN /\ Awaits(n, d, e)
                 /\ \A k \in Node : \A f, a : Awaits(k, f, a)' => Awaits(k, f, a)
                 /\ \A k \in Node : \A f, a :
                      Awaits(k, f, a) /\ ~ (k = n /\ f = d /\ a = e) => Awaits(k, f, a)'
                 /\ \A k \in Node : \A a :
                      Noted(k, a)' <=> Noted(k, a) \/ (k = n /\ a = e /\ told)
<1> DEFINE d == watchers[n][w].dir
           s == watchers[n][w].events
           e == Head(s)
           told == ~ Own(n, <<d, e.file>>, e)
                   /\ ~ (e.kind = "write" /\ disk[n][<<d, e.file>>] = Absent)
<1>1. /\ UNCHANGED <<disk, mine, sync, writing, deleting, recent, active, net, upset>>
      /\ s # <<>> /\ watchers' = [watchers EXCEPT ![n][w].events = Tail(@)]
  BY DEF Watch, marks, history
<1>2. /\ d \in Dir[n] /\ e \in Event /\ Awaits(n, d, e)
      /\ DOMAIN watchers' = Node
      /\ \A k \in Node : watchers'[k] \in Seq(WatcherType(k))
      /\ \A k \in Node : \A f, a : Awaits(k, f, a)' => Awaits(k, f, a)
  BY <1>1, WatchWatchers
<1>3. notices' = IF told THEN [notices EXCEPT ![n] = Append(@, e)] ELSE notices
  BY DEF Watch
<1>4. ASSUME NEW k \in Node, NEW f, NEW a, Awaits(k, f, a), ~ (k = n /\ f = d /\ a = e)
      PROVE  Awaits(k, f, a)'
  <2>1. /\ DOMAIN watchers' = Node
        /\ k # n => watchers'[k] = watchers[k]
        /\ DOMAIN watchers'[n] = DOMAIN watchers[n]
        /\ \A v \in DOMAIN watchers[n] : v # w => watchers'[n][v] = watchers[n][v]
        /\ watchers'[n][w].dir = d /\ watchers'[n][w].events = Tail(s)
    <3>1. watchers[n] \in Seq(WatcherType(n))
      BY DEF Types, WatcherType
    <3>2. watchers[n][w] \in WatcherType(n)
      BY <3>1, ElementOfSeq, LenProperties
    <3> QED
      BY <1>1, <3>1, <3>2 DEF Types, WatcherType
  <2>2. PICK v \in DOMAIN watchers[k] :
          watchers[k][v].dir = f /\ \E i \in DOMAIN watchers[k][v].events : watchers[k][v].events[i] = a
    BY <1>4 DEF Awaits
  <2>3. CASE k # n \/ v # w
    BY <2>1, <2>2, <2>3 DEF Awaits
  <2>4. CASE k = n /\ v = w
    <3>1. s \in Seq(Event)
      <4>1. watchers[n] \in Seq(WatcherType(n))
        BY DEF Types, WatcherType
      <4>2. watchers[n][w] \in WatcherType(n)
        BY <4>1, ElementOfSeq, LenProperties
      <4> QED
        BY <4>2 DEF WatcherType
    <3>2. f = d /\ a # e /\ Has(s, a)
      BY <1>4, <2>2, <2>4 DEF Has
    <3>3. Has(Tail(s), a)
      <4> HIDE DEF s
      <4> QED
        BY <1>1, <3>1, <3>2, Taking DEF e
    <3> QED
      BY <2>1, <2>4, <3>2, <3>3 DEF Awaits, Has
  <2> QED
    BY <2>3, <2>4
<1>5. ASSUME NEW k \in Node, NEW a
      PROVE  Noted(k, a)' <=> Noted(k, a) \/ (k = n /\ a = e /\ told)
  <2>1. notices \in [Node -> Seq(Event)]
    BY DEF Types
  <2> HIDE DEF told, e
  <2>2. CASE told /\ k = n
    <3>1. notices'[n] = Append(notices[n], e) /\ notices[n] \in Seq(Event)
      BY <1>3, <2>1, <2>2
    <3> DEFINE q == notices[n]
    <3>2. q \in Seq(Event)
      BY <3>1
    <3> HIDE DEF q
    <3>3. \A b : Has(Append(q, e), b) <=> b = e \/ Has(q, b)
      BY <1>2, <3>2, Adding
    <3>4. notices'[n] = Append(q, e) /\ notices[n] = q
      BY <3>1 DEF q
    <3> QED
      BY <2>2, <3>3, <3>4 DEF Noted
  <2>3. CASE ~ (told /\ k = n)
    <3>1. notices'[k] = notices[k]
      BY <1>3, <2>1, <2>3
    <3> QED
      BY <2>3, <3>1 DEF Noted
  <2> QED
    BY <2>2, <2>3
<1>6. notices' \in [Node -> Seq(Event)]
  <2>1. notices \in [Node -> Seq(Event)] /\ Append(notices[n], e) \in Seq(Event)
    BY <1>2, AppendProperties DEF Types
  <2> QED
    BY <1>3, <2>1
<1> HIDE DEF d, s, e, told
<1>7. Types'
  <2>1. \A k \in Node : InFlight(k)' = InFlight(k)
    BY <1>1 DEF InFlight
  <2>2. \A k \in Node : \A m \in InFlight(k)' : IsMessage(m)
    BY <2>1 DEF Types
  <2>3. \A k \in Node : Path(k)' = Path(k)
    BY DEF Path
  <2>4. \A k \in Node : IsTransfers(k, active'[k])
    BY <1>1 DEF Types
  <2> HIDE DEF s
  <2> QED
    BY <1>1, <1>2, <1>6, <2>2, <2>3, <2>4 DEF Types, WatcherType, IsTransfers, IsMessage
<1> QED
  BY <1>1, <1>2, <1>4, <1>5, <1>7 DEF told

\* A main loop takes one notice and tells the peer of it, or not.
LEMMA AnnounceStep ==
  ASSUME Types, NEW n \in Node, Announce(n)
  PROVE  /\ Types'
         /\ UNCHANGED <<disk, mine, sync, watchers, writing, deleting, active, upset>>
         /\ \E e \in Event :
              /\ Noted(n, e)
              /\ \A k \in Node : \A a : Noted(k, a)' => Noted(k, a)
              /\ \A k \in Node : \A a : Noted(k, a) /\ ~ (k = n /\ a = e) => Noted(k, a)'
              /\ \/ /\ e.kind = "remove"
                    /\ recent' = [recent EXCEPT ![n] = @ \ {e.file}]
                    /\ net' = Sent(n, {FileDeleted(e.file)})
                 \/ /\ e.kind = "write" /\ e.file \in recent[n]
                    /\ UNCHANGED <<recent, net>>
                 \/ /\ e.kind = "write" /\ e.file \notin recent[n]
                    /\ recent' = [recent EXCEPT ![n] = @ \cup {e.file}]
                    /\ net' = Sent(n, {FileChanged(e.file)})
<1> DEFINE s == notices[n]
           e == Head(s)
<1>1. /\ UNCHANGED <<disk, mine, sync, watchers, writing, deleting, active, upset>>
      /\ s # <<>> /\ notices' = [notices EXCEPT ![n] = Tail(s)]
  BY DEF Announce, history
<1>2. s \in Seq(Event) /\ DOMAIN notices = Node /\ notices'[n] = Tail(s)
      /\ \A k \in Node : k # n => notices'[k] = notices[k]
  BY <1>1 DEF Types
<1>3. /\ e \in Event /\ Tail(s) \in Seq(Event)
      /\ \A a : Has(s, a) <=> a = e \/ Has(Tail(s), a)
  <2> HIDE DEF s
  <2> QED
    BY <1>1, <1>2, Taking
<1>4. /\ Noted(n, e)
      /\ \A k \in Node : \A a : Noted(k, a)' => Noted(k, a)
      /\ \A k \in Node : \A a : Noted(k, a) /\ ~ (k = n /\ a = e) => Noted(k, a)'
  <2>1. \A a : (Noted(n, a) <=> Has(s, a)) /\ (Noted(n, a)' <=> Has(Tail(s), a))
    BY <1>2 DEF Noted
  <2>2. \A k \in Node : k # n => \A a : Noted(k, a)' <=> Noted(k, a)
    BY <1>2 DEF Noted
  <2> HIDE DEF s, e
  <2> QED
    BY <1>3, <2>1, <2>2
<1>5. e.kind \in {"write", "remove"} /\ e.file \in Name
  <2> HIDE DEF e
  <2> QED
    BY <1>3, EventForm
<1>6. \/ /\ e.kind = "remove"
         /\ recent' = [recent EXCEPT ![n] = @ \ {e.file}]
         /\ net' = Sent(n, {FileDeleted(e.file)})
      \/ /\ e.kind = "write" /\ e.file \in recent[n]
         /\ UNCHANGED <<recent, net>>
      \/ /\ e.kind = "write" /\ e.file \notin recent[n]
         /\ recent' = [recent EXCEPT ![n] = @ \cup {e.file}]
         /\ net' = Sent(n, {FileChanged(e.file)})
  BY <1>5 DEF Announce, Recently
<1> HIDE DEF e
<1>7. notices' \in [Node -> Seq(Event)]
  BY <1>1, <1>3 DEF Types
<1>8. PICK S : /\ net' = net \/ net' = Sent(n, S)
               /\ \A m \in S : IsMessage(m)
  <2>1. IsMessage(FileChanged(e.file)) /\ IsMessage(FileDeleted(e.file))
    BY <1>5, Harmless DEF IsMessage
  <2> QED
    BY <1>6, <2>1
<1>9. DOMAIN net' = Node /\ \A k \in Node : \A m \in InFlight(k)' : IsMessage(m)
  <2>1. CASE net' = net
    BY <2>1 DEF Types, InFlight
  <2>2. CASE net' = Sent(n, S)
    <3>1. DOMAIN net = Node
      BY DEF Types
    <3>2. /\ DOMAIN net' = Node
          /\ \A k \in Node : \A m \in InFlight(k)' : m \in InFlight(k) \/ (k = Other(n) /\ m \in S)
      BY <2>2, <3>1, SentNet
    <3> QED
      BY <1>8, <3>2 DEF Types
  <2> QED
    BY <1>8, <2>1, <2>2
<1> HIDE DEF s
<1>10. Types'
  BY <1>1, <1>7, <1>9 DEF Types, IsTransfers, WatcherType, IsMessage
<1> QED
  BY <1>1, <1>3, <1>4, <1>6, <1>10

\* A folder that is set gets a watcher, which has nothing to see yet.
LEMMA SetFolderWatchers ==
  ASSUME Types, NEW n \in Node, NEW d \in Dir[n],
         watchers' = [watchers EXCEPT ![n] = Append(@, [dir |-> d, events |-> <<>>])]
  PROVE  /\ DOMAIN watchers' = Node
         /\ \A k \in Node : watchers'[k] \in Seq(WatcherType(k))
         /\ \A k \in Node : \A f, e : Awaits(k, f, e)' => Awaits(k, f, e)
<1> DEFINE v == [dir |-> d, events |-> <<>>]
<1>1. v \in WatcherType(n) /\ watchers[n] \in Seq(WatcherType(n))
  BY EmptySeq DEF Types, WatcherType
<1>2. /\ watchers'[n] = Append(watchers[n], v) /\ DOMAIN watchers' = Node
      /\ \A k \in Node : k # n => watchers'[k] = watchers[k]
  BY DEF Types
<1>3. \A k \in Node : watchers'[k] \in Seq(WatcherType(k))
  BY <1>1, <1>2, AppendProperties DEF Types, WatcherType
<1>4. ASSUME NEW f, NEW e, Awaits(n, f, e)'
      PROVE  Awaits(n, f, e)
  <2>1. /\ DOMAIN watchers[n] = 1 .. Len(watchers[n]) /\ Len(watchers[n]) \in Nat
        /\ DOMAIN Append(watchers[n], v) = 1 .. Len(watchers[n]) + 1
        /\ \A i \in 1 .. Len(watchers[n]) : Append(watchers[n], v)[i] = watchers[n][i]
        /\ Append(watchers[n], v)[Len(watchers[n]) + 1] = v
    <3> HIDE DEF v
    <3> QED
      BY <1>1, AppendProperties, LenProperties
  <2>2. v.events = <<>> /\ DOMAIN v.events = {}
    OBVIOUS
  <2> HIDE DEF v
  <2>3. PICK w \in DOMAIN Append(watchers[n], v) :
          /\ Append(watchers[n], v)[w].dir = f
          /\ \E i \in DOMAIN Append(watchers[n], v)[w].events :
               Append(watchers[n], v)[w].events[i] = e
    BY <1>2, <1>4 DEF Awaits
  <2>4. w # Len(watchers[n]) + 1
    BY <2>1, <2>2, <2>3
  <2>5. w \in DOMAIN watchers[n] /\ Append(watchers[n], v)[w] = watchers[n][w]
    BY <2>1, <2>3, <2>4
  <2> QED
    BY <2>3, <2>5 DEF Awaits
<1>5. ASSUME NEW k \in Node, k # n, NEW f, NEW e, Awaits(k, f, e)'
      PROVE  Awaits(k, f, e)
  BY <1>2, <1>5 DEF Awaits
<1> QED
  BY <1>2, <1>3, <1>4, <1>5

\* A manifest with nothing to write from local data causes no event.
LEMMA NoEvents == SetToSeq({}) = <<>>
<1>1. Cardinality({}) = 0
  BY FS_EmptySet
<1>2. 1 .. 0 = {}
  OBVIOUS
<1>3. \A s \in [1 .. Cardinality({}) -> {}] : s = <<>>
  BY <1>1, <1>2
<1>4. <<>> \in [1 .. Cardinality({}) -> {}] /\ IsInjective(<<>>)
  BY <1>1, <1>2 DEF IsInjective
<1> QED
  BY <1>3, <1>4 DEF SetToSeq

-----------------------------------------------------------------------------
(* One author: the invariant, one action at a time.                         *)

LEMMA AuthorInit == Init => AuthorInv
<1> SUFFICES ASSUME Init PROVE AuthorInv
  OBVIOUS
<1>1. Types
  <2>1. \A n \in Node : InFlight(n) = {}
    BY DEF Init, InFlight, BagToSet, EmptyBag, SetToBag
  <2>2. \A n \in Node : DOMAIN disk[n] = Path(n) /\ DOMAIN mine[n] = Path(n)
    BY InitialAssumption DEF Init
  <2>3. <<>> \in Seq(Event) /\ \A n \in Node : <<>> \in Seq(WatcherType(n))
    BY EmptySeq
  <2> QED
    BY <2>1, <2>2, <2>3, InitialAssumption DEF Init, Types, IsTransfers, WatcherType
<1>2. \E n \in Node : Quiet(n)
  BY DEF Init, Quiet, Node
<1>3. ASSUME NEW n \in Node
      PROVE  ClearWay(n) /\ Marked(n) /\ NothingToTell(n) /\ NotTold(n) /\ Kept(n)
  <2>1. InFlight(n) = {}
    BY DEF Init, InFlight, BagToSet, EmptyBag, SetToBag
  <2>2. ClearWay(n) /\ NothingToTell(n) /\ Kept(n)
    BY DEF Init, ClearWay, NothingToTell, Noted, Has, Kept
  <2>3. Marked(n)
    BY DEF Init, Marked, Awaits
  <2> QED
    BY <2>1, <2>2, <2>3 DEF NotTold
<1> QED
  BY <1>1, <1>2, <1>3 DEF AuthorInv, Core

\* A step of the network alone, without notices.
LEMMA CalmTypes ==
  ASSUME Types, UNCHANGED <<disk, mine, sync, watchers, notices, writing, deleting, active>>,
         DOMAIN net' = Node,
         \A k \in Node : \A m \in InFlight(k)' : m \in InFlight(k) \/ IsMessage(m)
  PROVE  Types'
BY DEF Types, IsTransfers, IsMessage, WatcherType

LEMMA CalmCore ==
  ASSUME Types, Core, UNCHANGED <<disk, mine, watchers, notices, writing, deleting, active>>,
         \A k \in Node : \A m \in InFlight(k)' :
           m \in InFlight(k) \/ m.type \notin {"FileChanged", "FileDeleted"}
  PROVE  Core'
<1>1. \A n \in Node : Quiet(n)' <=> Quiet(n)
  BY DEF Quiet, Path
<1>2. \E n \in Node : Quiet(n)'
  BY <1>1 DEF Core
<1>3. ASSUME NEW n \in Node
      PROVE  ClearWay(n)' /\ Marked(n)' /\ NothingToTell(n)' /\ NotTold(n)' /\ Kept(n)'
  <2>1. ClearWay(n)' /\ Kept(n)'
    BY DEF Core, ClearWay, Kept, Path
  <2>2. Marked(n)'
    BY <1>1 DEF Core, Marked, Awaits
  <2>3. NothingToTell(n)'
    BY <1>1 DEF Core, NothingToTell, Noted
  <2>4. NotTold(n)'
    BY <1>1, OtherNode DEF Core, NotTold, Other
  <2> QED
    BY <2>1, <2>2, <2>3, <2>4
<1> QED
  BY <1>2, <1>3 DEF Core

LEMMA CalmMessage ==
  ASSUME Types, NEW n \in Node, NEW m \in InFlight(n),
         \/ OnAnnouncement(n, m) \/ OnManifestRequest(n, m) \/ OnChunkRequest(n, m)
         \/ DropManifest(n, m) \/ RefuseChunk(n, m)
  PROVE  Types' /\ (Core => Core')
<1>1. PICK S : /\ net' = Handled(n, m, S)
               /\ \A r \in S : IsMessage(r) /\ r.type \notin {"FileChanged", "FileDeleted"}
  <2>1. CASE OnAnnouncement(n, m)
    BY <2>1, Harmless DEF OnAnnouncement, IsMessage
  <2>2. CASE OnManifestRequest(n, m)
    <3> DEFINE files == [x \in Offered(n) |-> Here(n, x)]
    <3>1. DOMAIN files \subseteq Name
      BY DEF Offered
    <3> HIDE DEF files
    <3>2. IsMessage(Manifest(files)) /\ Manifest(files).type = "Manifest"
      BY <3>1, Harmless DEF IsMessage
    <3> QED
      BY <2>2, <3>2 DEF OnManifestRequest, files
  <2>3. CASE OnChunkRequest(n, m)
    BY <2>3, Harmless DEF OnChunkRequest, IsMessage
  <2>4. CASE DropManifest(n, m)
    BY <2>4 DEF DropManifest
  <2>5. CASE RefuseChunk(n, m)
    BY <2>5, Harmless DEF RefuseChunk, IsMessage
  <2> QED
    BY <2>1, <2>2, <2>3, <2>4, <2>5
<1>2. UNCHANGED <<disk, mine, sync, watchers, notices, writing, deleting, active>>
  BY DEF OnAnnouncement, OnManifestRequest, OnChunkRequest, DropManifest, RefuseChunk,
         queues, marks, history
<1>3. /\ DOMAIN net' = Node
      /\ \A k \in Node : \A r \in InFlight(k)' : r \in InFlight(k) \/ (k = Other(n) /\ r \in S)
  BY <1>1, HandledNet DEF Types
<1> QED
  BY <1>1, <1>2, <1>3, CalmTypes, CalmCore

LEMMA CalmStall ==
  ASSUME Types, NEW n \in Node, NEW x \in Name, CheckStalls(n, x)
  PROVE  Types' /\ (Core => Core')
<1>1. net' = Sent(n, {ChunkRequest(x)})
      /\ UNCHANGED <<disk, mine, sync, watchers, notices, writing, deleting, active>>
  BY DEF CheckStalls, queues, marks, history
<1>2. /\ DOMAIN net' = Node
      /\ \A k \in Node : \A r \in InFlight(k)' :
           r \in InFlight(k) \/ (k = Other(n) /\ r \in {ChunkRequest(x)})
  BY <1>1, SentNet DEF Types
<1>3. IsMessage(ChunkRequest(x)) /\ ChunkRequest(x).type = "ChunkRequest"
  BY Harmless DEF IsMessage
<1> QED
  BY <1>1, <1>2, <1>3, CalmTypes, CalmCore

\* A window closes when nothing is left to see of what it covers.
LEMMA WindowsKeep ==
  ASSUME Types, NEW n \in Node, Windows(n)
  PROVE  Types' /\ (Core => Core')
<1>1. UNCHANGED <<disk, mine, sync, watchers, notices, active, net>>
  BY DEF Windows, WritingExpires, DeletingExpires, RecentExpires, queues, history
<1>2. DOMAIN writing' = Node /\ DOMAIN deleting' = Node
  BY DEF Windows, WritingExpires, DeletingExpires, RecentExpires, Types
<1>3. \A k \in Node : InFlight(k)' = InFlight(k)
  BY <1>1 DEF InFlight
<1>4. Types'
  BY <1>1, <1>2, <1>3 DEF Types, IsTransfers, IsMessage
<1>5. ASSUME Core PROVE Core'
  <2>1. \A k \in Node : Quiet(k)' <=> Quiet(k)
    BY <1>1 DEF Quiet, Path
  <2>2. \E k \in Node : Quiet(k)'
    BY <1>5, <2>1 DEF Core
  <2>3. ASSUME NEW k \in Node
        PROVE  ClearWay(k)' /\ NothingToTell(k)' /\ NotTold(k)' /\ Kept(k)'
    <3>1. ClearWay(k)' /\ Kept(k)'
      BY <1>1, <1>5 DEF Core, ClearWay, Kept, Path
    <3>2. NothingToTell(k)'
      BY <1>1, <1>5, <2>1 DEF Core, NothingToTell, Noted
    <3>3. NotTold(k)'
      BY <1>3, <1>5, <2>1, OtherNode DEF Core, NotTold, Other
    <3> QED
      BY <3>1, <3>2, <3>3
  <2>4. ASSUME NEW k \in Node, NEW d \in Dir[k], NEW e \in Event, Awaits(k, d, e)
        PROVE  /\ <<d, e.file>> \in writing[k] => <<d, e.file>> \in writing'[k]
               /\ <<d, e.file>> \in deleting[k] => <<d, e.file>> \in deleting'[k]
    <3>1. Pending(k, <<d, e.file>>)
      BY <2>4 DEF Awaits, Pending
    <3>2. CASE \E p \in writing[n] : WritingExpires(n, p)
      BY <3>1, <3>2 DEF WritingExpires, Types
    <3>3. CASE \E p \in deleting[n] : DeletingExpires(n, p)
      BY <3>1, <3>3 DEF DeletingExpires, Types
    <3>4. CASE \E x \in recent[n] : RecentExpires(n, x)
      BY <3>4 DEF RecentExpires
    <3> QED
      BY <3>2, <3>3, <3>4 DEF Windows
  <2>5. ASSUME NEW k \in Node PROVE Marked(k)'
    <3>1. \A d, e : Awaits(k, d, e)' <=> Awaits(k, d, e)
      BY <1>1 DEF Awaits
    <3> QED
      BY <1>5, <2>1, <2>4, <3>1 DEF Core, Marked
  <2> QED
    BY <2>2, <2>3, <2>5 DEF Core
<1> QED
  BY <1>4, <1>5

\* What the node did itself is dropped: at a quiet node, everything.
LEMMA WatchKeeps ==
  ASSUME Types, Core, NEW n \in Node, NEW w \in DOMAIN watchers[n], Watch(n, w)
  PROVE  Types' /\ Core'
<1>1. Types' /\ UNCHANGED <<disk, mine, sync, writing, deleting, active, net>>
  BY WatchStep
<1>2. PICK d \in Dir[n], e \in Event :
         /\ Awaits(n, d, e)
         /\ \A k \in Node : \A f, a : Awaits(k, f, a)' => Awaits(k, f, a)
         /\ \A k \in Node : \A a :
              Noted(k, a)' => Noted(k, a) \/ (k = n /\ a = e /\ ~ Own(n, <<d, e.file>>, e))
  BY WatchStep
<1>3. \A k \in Node : InFlight(k)' = InFlight(k) /\ (Quiet(k)' <=> Quiet(k))
  BY <1>1 DEF InFlight, Quiet, Path
<1>4. ~ Own(n, <<d, e.file>>, e) => e.kind = "write" /\ ~ Quiet(n)
  <2>1. /\ e.kind = "remove" => <<d, e.file>> \in deleting[n]
        /\ Quiet(n) /\ e.kind = "write" => <<d, e.file>> \in writing[n]
    BY <1>2 DEF Core, Marked
  <2> QED
    BY <2>1, EventForm DEF Own
<1>5. ASSUME NEW k \in Node
      PROVE  ClearWay(k)' /\ Marked(k)' /\ NothingToTell(k)' /\ NotTold(k)' /\ Kept(k)'
  <2>1. ClearWay(k)' /\ Kept(k)'
    BY <1>1 DEF Core, ClearWay, Kept, Path
  <2>2. Marked(k)'
    BY <1>1, <1>2, <1>3 DEF Core, Marked
  <2>3. NotTold(k)'
    BY <1>3, OtherNode DEF Core, NotTold, Other
  <2>4. NothingToTell(k)'
    BY <1>2, <1>3, <1>4 DEF Core, NothingToTell
  <2> QED
    BY <2>1, <2>2, <2>3, <2>4
<1>6. \E k \in Node : Quiet(k)'
  BY <1>3 DEF Core
<1> QED
  BY <1>1, <1>5, <1>6 DEF Core

\* Only the author has something to announce, and it is no removal.
LEMMA AnnounceKeeps ==
  ASSUME Types, Core, NEW n \in Node, Announce(n)
  PROVE  Types' /\ Core'
<1>1. Types' /\ UNCHANGED <<disk, mine, sync, watchers, writing, deleting, active, upset>>
  BY AnnounceStep
<1>2. PICK e \in Event :
        /\ Noted(n, e)
        /\ \A k \in Node : \A a : Noted(k, a)' => Noted(k, a)
        /\ e.kind = "write" => net' = net \/ net' = Sent(n, {FileChanged(e.file)})
  BY AnnounceStep
<1>3. e.kind = "write" /\ ~ Quiet(n)
  BY <1>2 DEF Core, NothingToTell
<1>4. PICK c : c.type = "FileChanged" /\ (net' = net \/ net' = Sent(n, {c}))
  BY <1>2, <1>3, Harmless
<1>5. \A k \in Node : \A m \in InFlight(k)' : m \in InFlight(k) \/ (k = Other(n) /\ m = c)
  <2>1. CASE net' = net
    BY <2>1 DEF InFlight
  <2>2. CASE net' = Sent(n, {c})
    <3>1. DOMAIN net = Node
      BY DEF Types
    <3>2. \A k \in Node : \A m \in InFlight(k)' : m \in InFlight(k) \/ (k = Other(n) /\ m \in {c})
      BY <2>2, <3>1, SentNet
    <3> QED
      BY <3>2
  <2> QED
    BY <1>4, <2>1, <2>2
<1>6. \A k \in Node : Quiet(k)' <=> Quiet(k)
  BY <1>1 DEF Quiet, Path
<1>7. ASSUME NEW k \in Node
      PROVE  ClearWay(k)' /\ Marked(k)' /\ NothingToTell(k)' /\ NotTold(k)' /\ Kept(k)'
  <2>1. ClearWay(k)' /\ Kept(k)'
    BY <1>1 DEF Core, ClearWay, Kept, Path
  <2>2. Marked(k)'
    BY <1>1, <1>6 DEF Core, Marked, Awaits
  <2>3. NothingToTell(k)'
    BY <1>2, <1>6 DEF Core, NothingToTell
  <2>4. NotTold(k)'
    <3>1. ASSUME NEW m \in InFlight(k)'
          PROVE  m.type # "FileDeleted" /\ (Quiet(Other(k)) => m.type # "FileChanged")
      <4>1. CASE m \in InFlight(k)
        BY <4>1 DEF Core, NotTold
      <4>2. CASE k = Other(n) /\ m = c
        BY <1>3, <1>4, <4>2, OtherNode
      <4> QED
        BY <1>5, <4>1, <4>2
    <3>2. Quiet(Other(k))' <=> Quiet(Other(k))
      BY <1>6, OtherNode
    <3> QED
      BY <3>1, <3>2 DEF NotTold, Other
  <2> QED
    BY <2>1, <2>2, <2>3, <2>4
<1>8. \E k \in Node : Quiet(k)'
  BY <1>6 DEF Core
<1> QED
  BY <1>1, <1>7, <1>8 DEF Core

LEMMA SetFolderKeeps ==
  ASSUME Types, Core, NEW n \in Node, NEW d \in Dir[n], SetFolder(n, d)
  PROVE  Types' /\ Core'
<1>1. /\ UNCHANGED <<disk, mine, notices, writing, deleting, active>>
      /\ sync' = [sync EXCEPT ![n] = d]
      /\ watchers' = [watchers EXCEPT ![n] = Append(@, [dir |-> d, events |-> <<>>])]
      /\ net' = Sent(n, {FolderAnnouncement, ManifestRequest})
  BY DEF SetFolder, marks
<1>2. /\ DOMAIN watchers' = Node
      /\ \A k \in Node : watchers'[k] \in Seq(WatcherType(k))
      /\ \A k \in Node : \A f, e : Awaits(k, f, e)' => Awaits(k, f, e)
  BY <1>1, SetFolderWatchers
<1>3. /\ DOMAIN net' = Node
      /\ \A k \in Node : \A m \in InFlight(k)' :
           m \in InFlight(k) \/ m \in {FolderAnnouncement, ManifestRequest}
  BY <1>1, SentNet DEF Types
<1>4. \A m \in {FolderAnnouncement, ManifestRequest} :
         IsMessage(m) /\ m.type \notin {"FileChanged", "FileDeleted"}
  BY Harmless DEF IsMessage
<1>5. \A k \in Node : \A m \in InFlight(k)' : IsMessage(m)
  BY <1>3, <1>4 DEF Types
<1>6. Types'
  BY <1>1, <1>2, <1>3, <1>5 DEF Types, IsTransfers, WatcherType, IsMessage
<1>7. \A k \in Node : Quiet(k)' <=> Quiet(k)
  BY <1>1 DEF Quiet, Path
<1>8. ASSUME NEW k \in Node
      PROVE  ClearWay(k)' /\ Marked(k)' /\ NothingToTell(k)' /\ NotTold(k)' /\ Kept(k)'
  <2>1. ClearWay(k)' /\ Kept(k)'
    BY <1>1 DEF Core, ClearWay, Kept, Path
  <2>2. Marked(k)'
    BY <1>1, <1>2, <1>7 DEF Core, Marked
  <2>3. NothingToTell(k)'
    BY <1>1, <1>7 DEF Core, NothingToTell, Noted
  <2>4. NotTold(k)'
    BY <1>3, <1>4, <1>7, OtherNode DEF Core, NotTold, Other
  <2> QED
    BY <2>1, <2>2, <2>3, <2>4
<1>9. \E k \in Node : Quiet(k)'
  BY <1>7 DEF Core
<1> QED
  BY <1>6, <1>8, <1>9 DEF Core

\* Only the author saves; what is under his other paths is not touched.
LEMMA SaveKeeps ==
  ASSUME Types, Core, Clean', NEW n \in Node, NEW d \in Dir[n], NEW x \in File,
         NEW c \in Content, Save(n, d, x, c)
  PROVE  Types' /\ Core'
<1>1. /\ UNCHANGED <<sync, notices, writing, deleting, active, net>>
      /\ disk' = [disk EXCEPT ![n][<<d, x>>] = c]
      /\ mine' = [mine EXCEPT ![n][<<d, x>>] = c]
      /\ watchers' = Noticed(n, d, <<Written(x)>>)
      /\ Rival(n) \subseteq upset'
  BY DEF Save, Blame, marks
<1>2. x \in Name /\ <<d, x>> \in Path(n) /\ c # Absent
  BY NameAssumption, NoneAssumption DEF Path
<1>3. Quiet(Other(n))
  <2>1. "rival" \notin Rival(n)
    BY <1>1 DEF Clean
  <2> QED
    BY <2>1 DEF Rival, Quiet
<1>4. /\ DOMAIN disk' = Node /\ DOMAIN mine' = Node
      /\ \A k \in Node : DOMAIN disk'[k] = Path(k) /\ DOMAIN mine'[k] = Path(k)
      /\ \A k \in Node : k # n => disk'[k] = disk[k] /\ mine'[k] = mine[k]
      /\ disk'[n][<<d, x>>] = c /\ mine'[n][<<d, x>>] = c
      /\ \A p \in Path(n) : p # <<d, x>> => disk'[n][p] = disk[n][p] /\ mine'[n][p] = mine[n][p]
  BY <1>1, <1>2 DEF Types
<1>5. /\ DOMAIN watchers' = Node
      /\ \A k \in Node : watchers'[k] \in Seq(WatcherType(k))
      /\ \A k \in Node : \A f, e : Awaits(k, f, e)' => Awaits(k, f, e) \/ (k = n /\ e = Written(x))
  <2> DEFINE es == <<Written(x)>>
  <2>1. es \in Seq(Event) /\ \A i \in DOMAIN es : es[i] = Written(x)
    BY <1>2, SingleEvents
  <2> HIDE DEF es
  <2>2. watchers' = Noticed(n, d, es)
    BY <1>1 DEF es
  <2> QED
    BY <2>1, <2>2, NoticedWatchers
<1>6. Path(n)' = Path(n) /\ \A k \in Node : Path(k)' = Path(k)
  BY DEF Path
<1>7. ~ Quiet(n)' /\ Quiet(Other(n))'
      /\ \A k \in Node : k # n => (Quiet(k)' <=> Quiet(k))
  BY <1>2, <1>3, <1>4, <1>6, OtherNode DEF Quiet
<1>8. ASSUME NEW k \in Node, NEW p \in Path(k), mine'[k][p] # Absent
      PROVE  p[2] \in File
  <2>1. mine'[k][p] = mine[k][p] \/ p = <<d, x>>
    BY <1>4
  <2>2. mine[k][p] # Absent => p[2] \in File
    BY DEF Types
  <2> QED
    BY <1>8, <2>1, <2>2
<1>9. Types'
  BY <1>1, <1>4, <1>5, <1>6, <1>8 DEF Types, IsTransfers, InFlight, IsMessage, WatcherType
<1>10. ASSUME NEW k \in Node
       PROVE  ClearWay(k)' /\ Marked(k)' /\ NothingToTell(k)' /\ NotTold(k)'
  <2>1. ClearWay(k)'
    <3>1. ASSUME NEW z \in DOMAIN active[k], mine'[k][<<active[k][z].dir, z>>] = Absent
          PROVE  disk'[k][<<active[k][z].dir, z>>] = Absent
      <4>1. <<active[k][z].dir, z>> \in Path(k)
        BY DEF Types, IsTransfers, Path
      <4>2. mine[k][<<active[k][z].dir, z>>] = Absent => disk[k][<<active[k][z].dir, z>>] = Absent
        BY DEF Core, ClearWay
      <4> QED
        BY <1>2, <1>4, <3>1, <4>1, <4>2
    <3> QED
      BY <1>1, <3>1 DEF ClearWay
  <2>2. Marked(k)'
    BY <1>1, <1>2, <1>5, <1>7, SingleEvents DEF Core, Marked
  <2>3. NothingToTell(k)'
    BY <1>1, <1>7 DEF Core, NothingToTell, Noted
  <2>4. NotTold(k)'
    <3>1. Quiet(Other(k))' => Quiet(Other(k))
      BY <1>7, OtherNode
    <3> QED
      BY <1>1, <3>1 DEF Core, NotTold, InFlight, Other
  <2> QED
    BY <2>1, <2>2, <2>3, <2>4
<1>11. ASSUME NEW k \in Node, NEW p \in Path(k), mine'[k][p] # Absent
       PROVE  \E y \in {p[2]} \cup Conflict[p[2]] : disk'[k][<<p[1], y>>] = mine'[k][p]
  <2>1. CASE k = n /\ p = <<d, x>>
    BY <1>4, <2>1
  <2>2. CASE ~ (k = n /\ p = <<d, x>>)
    <3>1. mine'[k][p] = mine[k][p]
      BY <1>4, <2>2
    <3>2. PICK y \in {p[2]} \cup Conflict[p[2]] : disk[k][<<p[1], y>>] = mine[k][p]
      BY <1>11, <3>1 DEF Core, Kept
    <3>3. p = <<p[1], p[2]>> /\ p[2] \in Name /\ p[1] \in Dir[k]
      BY DEF Path
    <3>4. <<p[1], y>> \in Path(k) /\ (k = n => <<p[1], y>> # <<d, x>>)
      <4>1. Conflict[p[2]] \subseteq Name \ File
        BY <3>3, NameAssumption
      <4>2. y \in Name
        BY <3>2, <3>3, <4>1
      <4>3. ASSUME k = n, <<p[1], y>> = <<d, x>> PROVE FALSE
        <5>1. y = p[2]
          BY <3>2, <4>1, <4>3
        <5> QED
          BY <2>2, <3>3, <4>3, <5>1
      <4> QED
        BY <3>3, <4>2, <4>3 DEF Path
    <3> QED
      BY <1>4, <3>1, <3>2, <3>4
  <2> QED
    BY <2>1, <2>2
<1>12. \A k \in Node : Kept(k)'
  BY <1>6, <1>11 DEF Kept
<1>13. \E k \in Node : Quiet(k)'
  BY <1>7, OtherNode
<1> QED
  BY <1>9, <1>10, <1>12, <1>13 DEF Core

\* Without local data a manifest starts transfers of what the folder lacks.
LEMMA ManifestKeeps ==
  ASSUME Types, Core, Clean', NEW n \in Node, NEW m \in InFlight(n), OnManifest(n, m)
  PROVE  Types' /\ Core'
<1> DEFINE wanted == Wanted(n, m.files)
           local  == {x \in wanted : m.files[x] \in Holds(n)}
           S      == {ChunkRequest(x) : x \in wanted \ local}
<1>1. /\ UNCHANGED <<sync, notices, writing, deleting, mine>>
      /\ sync[n] # None /\ m.type = "Manifest"
      /\ upset' = IF local = {} THEN upset ELSE upset \cup {"local"}
      /\ net' = Handled(n, m, S)
  BY DEF OnManifest, marks
<1>2. local = {}
  BY <1>1 DEF Clean
<1>3. PICK es \in Seq(Event) : DOMAIN es = {} /\ watchers' = Noticed(n, sync[n], es)
  <2>1. watchers' = Noticed(n, sync[n], SetToSeq({Written(x) : x \in local}))
    BY DEF OnManifest
  <2>2. {Written(x) : x \in local} = {}
    BY <1>2
  <2>3. watchers' = Noticed(n, sync[n], <<>>)
    BY <2>1, <2>2, NoEvents
  <2>4. <<>> \in Seq(Event) /\ DOMAIN <<>> = {}
    BY EmptySeq
  <2> QED
    BY <2>3, <2>4
<1>4. /\ DOMAIN disk' = Node
      /\ \A k \in Node : DOMAIN disk'[k] = Path(k) /\ \A p \in Path(k) : disk'[k][p] = disk[k][p]
  <2>1. disk' = [disk EXCEPT ![n] =
                   [p \in DOMAIN @ |-> IF p[1] = sync[n] /\ p[2] \in local
                                       THEN m.files[p[2]] ELSE @[p]]]
    BY DEF OnManifest
  <2> HIDE DEF local
  <2> QED
    BY <1>2, <2>1 DEF Types
<1>5. /\ wanted \subseteq Name
      /\ \A x \in wanted : Here(n, x) = Absent /\ x \notin DOMAIN active[n]
  <2>1. DOMAIN m.files \subseteq Name
    BY <1>1 DEF Types, IsMessage
  <2> QED
    BY <2>1 DEF Wanted
<1>6. active' = [active EXCEPT ![n] =
                   [x \in DOMAIN @ \cup (wanted \ local) |->
                      IF x \in DOMAIN @ THEN @[x]
                      ELSE [hash |-> m.files[x], dir |-> sync[n]]]]
  BY DEF OnManifest
<1>7. \A r \in S : r.type = "ChunkRequest" /\ IsMessage(r)
  BY Harmless DEF IsMessage
<1>8. /\ DOMAIN net' = Node
      /\ \A k \in Node : \A r \in InFlight(k)' : r \in InFlight(k) \/ r \in S
  <2> HIDE DEF S
  <2> QED
    BY <1>1, HandledNet DEF Types
<1> HIDE DEF wanted, local, S
<1>9. /\ DOMAIN active' = Node
      /\ \A k \in Node : k # n => active'[k] = active[k]
      /\ DOMAIN active'[n] = DOMAIN active[n] \cup wanted
      /\ \A x \in DOMAIN active[n] : active'[n][x] = active[n][x]
      /\ \A x \in wanted : active'[n][x].dir = sync[n]
  BY <1>2, <1>5, <1>6 DEF Types
<1>10. /\ DOMAIN watchers' = Node
       /\ \A k \in Node : watchers'[k] \in Seq(WatcherType(k))
       /\ \A k \in Node : \A f, e : Awaits(k, f, e)' => Awaits(k, f, e)
  BY <1>3, NoticedWatchers
<1>11. sync[n] \in Dir[n]
  BY <1>1 DEF Types
<1>12. \A k \in Node : IsTransfers(k, active'[k])
  <2>1. IsTransfers(n, active[n])
    BY DEF Types
  <2>2. IsTransfers(n, active'[n])
    BY <1>5, <1>9, <1>11, <2>1 DEF IsTransfers
  <2> QED
    BY <1>9, <2>2 DEF Types
<1>13. \A k \in Node : \A r \in InFlight(k)' : IsMessage(r)
  BY <1>7, <1>8 DEF Types
<1>14. Types'
  BY <1>1, <1>4, <1>8, <1>9, <1>10, <1>12, <1>13
     DEF Types, IsTransfers, WatcherType, IsMessage, Path
<1>15. \A k \in Node : Quiet(k)' <=> Quiet(k)
  BY <1>1 DEF Quiet, Path
<1>16. ASSUME NEW k \in Node
       PROVE  ClearWay(k)' /\ Marked(k)' /\ NothingToTell(k)' /\ NotTold(k)' /\ Kept(k)'
  <2>1. ClearWay(k)'
    <3>1. ASSUME NEW x \in DOMAIN active'[k], mine[k][<<active'[k][x].dir, x>>] = Absent
          PROVE  disk'[k][<<active'[k][x].dir, x>>] = Absent
      <4>1. x \in Name /\ active'[k][x].dir \in Dir[k] /\ <<active'[k][x].dir, x>> \in Path(k)
        BY <1>12 DEF IsTransfers, Path
      <4>2. CASE x \in DOMAIN active[k] /\ active'[k][x] = active[k][x]
        BY <1>4, <3>1, <4>1, <4>2 DEF Core, ClearWay
      <4>3. CASE k = n /\ x \in wanted
        BY <1>4, <1>5, <1>9, <4>1, <4>3 DEF Here
      <4> QED
        BY <1>9, <4>2, <4>3
    <3> QED
      BY <1>1, <3>1 DEF ClearWay
  <2>2. Marked(k)'
    BY <1>1, <1>10, <1>15 DEF Core, Marked
  <2>3. NothingToTell(k)'
    BY <1>1, <1>15 DEF Core, NothingToTell, Noted
  <2>4. NotTold(k)'
    BY <1>7, <1>8, <1>15, OtherNode DEF Core, NotTold, Other
  <2>5. Kept(k)'
    <3>1. ASSUME NEW p \in Path(k), mine[k][p] # Absent
          PROVE  \E y \in {p[2]} \cup Conflict[p[2]] : disk'[k][<<p[1], y>>] = mine[k][p]
      <4>1. PICK y \in {p[2]} \cup Conflict[p[2]] : disk[k][<<p[1], y>>] = mine[k][p]
        BY <3>1 DEF Core, Kept
      <4>2. <<p[1], y>> \in Path(k)
        BY <4>1, NameAssumption DEF Path
      <4> QED
        BY <1>4, <4>1, <4>2
    <3> QED
      BY <1>1, <3>1 DEF Kept, Path
  <2> QED
    BY <2>1, <2>2, <2>3, <2>4, <2>5
<1>17. \E k \in Node : Quiet(k)'
  BY <1>15 DEF Core
<1> QED
  BY <1>14, <1>16, <1>17 DEF Core

\* Only a node whose user saved nothing hears of a change: the copy that goes
\* is not what a user saved there, and its removal is marked.
LEMMA ChangeKeeps ==
  ASSUME Types, Core, NEW n \in Node, NEW m \in InFlight(n), OnFileChanged(n, m)
  PROVE  Types' /\ Core'
<1>1. /\ UNCHANGED <<sync, notices, writing, active, mine>>
      /\ m.type = "FileChanged"
  BY DEF OnFileChanged, history
<1>2. CASE sync[n] = None
  <2>1. net' = Handled(n, m, {}) /\ UNCHANGED <<disk, watchers, deleting>>
    BY <1>2 DEF OnFileChanged
  <2>2. /\ DOMAIN net' = Node
        /\ \A k \in Node : \A r \in InFlight(k)' : r \in InFlight(k)
    BY <2>1, HandledNet DEF Types
  <2> QED
    BY <1>1, <2>1, <2>2, CalmTypes, CalmCore
<1>3. CASE sync[n] # None
  <2> DEFINE q == <<sync[n], m.file>>
  <2>1. /\ deleting' = [deleting EXCEPT ![n] = @ \cup {q}]
        /\ disk' = [disk EXCEPT ![n][q] = Absent]
        /\ watchers' = watchers \/ watchers' = Noticed(n, sync[n], <<Removed(m.file)>>)
        /\ net' = Handled(n, m, {ManifestRequest})
    BY <1>1, <1>3 DEF OnFileChanged, Gone, Reaction
  <2>2. sync[n] \in Dir[n] /\ m.file \in Name /\ q \in Path(n)
    BY <1>1, <1>3 DEF Types, IsMessage, Path
  <2>3. Quiet(n)
    <3>1. ~ Quiet(Other(n))
      BY <1>1 DEF Core, NotTold
    <3> QED
      BY <3>1, OtherNode DEF Core
  <2>4. /\ DOMAIN net' = Node
        /\ \A k \in Node : \A r \in InFlight(k)' : r \in InFlight(k) \/ r = ManifestRequest
    <3> DEFINE S == {ManifestRequest}
    <3>1. net' = Handled(n, m, S) /\ DOMAIN net = Node
      BY <2>1 DEF Types
    <3> HIDE DEF S
    <3>2. /\ DOMAIN net' = Node
          /\ \A k \in Node : \A r \in InFlight(k)' : r \in InFlight(k) \/ (k = Other(n) /\ r \in S)
      BY <3>1, HandledNet
    <3> QED
      BY <3>2 DEF S
  <2>5. IsMessage(ManifestRequest) /\ ManifestRequest.type \notin {"FileChanged", "FileDeleted"}
    BY Harmless DEF IsMessage
  <2>6. /\ DOMAIN watchers' = Node
        /\ \A k \in Node : watchers'[k] \in Seq(WatcherType(k))
        /\ \A k \in Node : \A f, e :
             Awaits(k, f, e)' => \/ Awaits(k, f, e)
                                 \/ k = n /\ f = sync[n] /\ e = Removed(m.file)
    <3>1. CASE watchers' = watchers
      BY <3>1 DEF Types, WatcherType, Awaits
    <3>2. CASE watchers' = Noticed(n, sync[n], <<Removed(m.file)>>)
      <4> DEFINE es == <<Removed(m.file)>>
      <4>1. es \in Seq(Event) /\ \A i \in DOMAIN es : es[i] = Removed(m.file)
        BY <2>2, SingleEvents
      <4> HIDE DEF es
      <4>2. watchers' = Noticed(n, sync[n], es)
        BY <3>2 DEF es
      <4> QED
        BY <4>1, <4>2, NoticedWatchers
    <3> QED
      BY <2>1, <3>1, <3>2
  <2> HIDE DEF q
  <2>7. /\ DOMAIN disk' = Node
        /\ \A k \in Node : DOMAIN disk'[k] = Path(k)
        /\ \A k \in Node : k # n => disk'[k] = disk[k]
        /\ \A p \in Path(n) : disk'[n][p] = IF p = q THEN Absent ELSE disk[n][p]
    BY <2>1, <2>2 DEF Types
  <2>8. /\ DOMAIN deleting' = Node /\ q \in deleting'[n]
        /\ \A k \in Node : deleting[k] \subseteq deleting'[k]
    BY <2>1 DEF Types
  <2>9. \A k \in Node : \A r \in InFlight(k)' : IsMessage(r)
    BY <2>4, <2>5 DEF Types
  <2>10. Types'
    BY <1>1, <2>4, <2>6, <2>7, <2>8, <2>9 DEF Types, IsTransfers, WatcherType, IsMessage, Path
  <2>11. \A k \in Node : Quiet(k)' <=> Quiet(k)
    BY <1>1 DEF Quiet, Path
  <2>12. ASSUME NEW k \in Node
         PROVE  ClearWay(k)' /\ Marked(k)' /\ NothingToTell(k)' /\ NotTold(k)' /\ Kept(k)'
    <3>1. ClearWay(k)'
      <4>1. ASSUME NEW x \in DOMAIN active[k], mine[k][<<active[k][x].dir, x>>] = Absent
            PROVE  disk'[k][<<active[k][x].dir, x>>] = Absent
        <5>1. <<active[k][x].dir, x>> \in Path(k)
          BY DEF Types, IsTransfers, Path
        <5> QED
          BY <2>7, <4>1, <5>1 DEF Core, ClearWay
      <4> QED
        BY <1>1, <4>1 DEF ClearWay
    <3>2. Marked(k)'
      <4>1. ASSUME NEW d \in Dir[k], NEW e \in Event, Awaits(k, d, e)'
            PROVE  /\ e.kind = "remove" => <<d, e.file>> \in deleting'[k]
                   /\ Quiet(k)' /\ e.kind = "write" => <<d, e.file>> \in writing'[k]
        <5>1. CASE Awaits(k, d, e)
          BY <1>1, <2>8, <2>11, <5>1 DEF Core, Marked
        <5>2. CASE k = n /\ d = sync[n] /\ e = Removed(m.file)
          BY <2>2, <2>8, <5>2, SingleEvents DEF q
        <5> QED
          BY <2>6, <4>1, <5>1, <5>2
      <4> QED
        BY <4>1 DEF Marked
    <3>3. NothingToTell(k)'
      BY <1>1, <2>11 DEF Core, NothingToTell, Noted
    <3>4. NotTold(k)'
      BY <2>4, <2>5, <2>11, OtherNode DEF Core, NotTold, Other
    <3>5. Kept(k)'
      <4>1. CASE k = n
        BY <2>3, <2>11, <4>1 DEF Quiet, Kept
      <4>2. CASE k # n
        BY <1>1, <2>7, <4>2 DEF Core, Kept, Path
      <4> QED
        BY <4>1, <4>2
    <3> QED
      BY <3>1, <3>2, <3>3, <3>4, <3>5
  <2>13. \E k \in Node : Quiet(k)'
    BY <2>11 DEF Core
  <2> QED
    BY <2>10, <2>12, <2>13 DEF Core
<1> QED
  BY <1>2, <1>3

\* A file that arrives meets nothing, or its own content, or a save of the
\* author, which goes to a conflict copy under a free name.
LEMMA WriteKeeps ==
  ASSUME Types, Core, Clean', NEW n \in Node, NEW m \in InFlight(n), WriteFile(n, m)
  PROVE  Types' /\ Core'
<1> DEFINE f   == m.file
           d   == active[n][f].dir
           p   == <<d, f>>
           old == disk[n][p]
<1>1. /\ UNCHANGED <<sync, notices, deleting, mine>>
      /\ f \in DOMAIN active[n]
      /\ writing' = [writing EXCEPT ![n] = @ \cup {p}]
      /\ active' = [active EXCEPT ![n] = [x \in DOMAIN @ \ {f} |-> @[x]]]
      /\ net' = Handled(n, m, {})
  BY DEF WriteFile
<1>2. f \in Name /\ d \in Dir[n] /\ p \in Path(n)
  BY <1>1 DEF Types, IsTransfers, Path
\* The old file, if another hand put it there, is saved under a free name y.
<1>3. PICK es \in Seq(Event), y \in Name :
        /\ watchers' = Noticed(n, d, es)
        /\ \A i \in DOMAIN es : es[i].kind = "write" /\ (Quiet(n) => es[i].file = f)
        /\ \/ /\ old \in {Absent, m.data} /\ y = f
              /\ disk' = [disk EXCEPT ![n][p] = m.data]
           \/ /\ old \notin {Absent, m.data}
              /\ y \in Conflict[f] /\ y # f /\ ~ Taken(n, d, y)
              /\ disk' = [disk EXCEPT ![n][p] = m.data, ![n][<<d, y>>] = old]
  <2>1. CASE /\ old \in {Absent, m.data}
             /\ disk' = [disk EXCEPT ![n][p] = m.data]
             /\ watchers' = Noticed(n, d, <<Written(f)>>)
    <3> DEFINE es == <<Written(f)>>
    <3>1. es \in Seq(Event) /\ \A i \in DOMAIN es : es[i].kind = "write" /\ es[i].file = f
      BY <1>2, SingleEvents
    <3>2. watchers' = Noticed(n, d, es)
      BY <2>1
    <3> HIDE DEF es
    <3> QED
      BY <1>2, <2>1, <3>1, <3>2
  <2>2. CASE /\ old \notin {Absent, m.data}
             /\ \E y \in Conflict[f] :
                  /\ disk' = [disk EXCEPT ![n][p] = m.data, ![n][<<d, y>>] = old]
                  /\ watchers' = Noticed(n, d, <<Written(y), Written(f)>>)
                  /\ upset' = IF Taken(n, d, y) THEN upset \cup {"reused"} ELSE upset
    <3>1. PICK y \in Conflict[f] :
             /\ disk' = [disk EXCEPT ![n][p] = m.data, ![n][<<d, y>>] = old]
             /\ watchers' = Noticed(n, d, <<Written(y), Written(f)>>)
             /\ upset' = IF Taken(n, d, y) THEN upset \cup {"reused"} ELSE upset
      BY <2>2
    <3>2. ~ Taken(n, d, y)
      BY <3>1 DEF Clean
    <3>3. mine[n][p] # Absent
      BY <1>1, <2>2 DEF Core, ClearWay
    <3>4. ~ Quiet(n) /\ f \in File
      BY <1>2, <3>3 DEF Quiet, Types
    <3>5. y \in Name /\ y # f
      BY <1>2, <3>4, NameAssumption
    <3> DEFINE es == <<Written(y), Written(f)>>
    <3>6. es \in Seq(Event) /\ \A i \in DOMAIN es : es[i].kind = "write"
      BY <1>2, <3>5, SingleEvents
    <3>7. watchers' = Noticed(n, d, es)
      BY <3>1
    <3> HIDE DEF es
    <3> QED
      BY <2>2, <3>1, <3>2, <3>4, <3>5, <3>6, <3>7
  <2> QED
    BY <2>1, <2>2 DEF WriteFile
<1>4. /\ DOMAIN net' = Node
      /\ \A k \in Node : \A r \in InFlight(k)' : r \in InFlight(k)
  BY <1>1, HandledNet DEF Types
<1> HIDE DEF f, d, p, old
<1>5. /\ DOMAIN watchers' = Node
      /\ \A k \in Node : watchers'[k] \in Seq(WatcherType(k))
      /\ \A k \in Node : \A g, e :
           Awaits(k, g, e)' => \/ Awaits(k, g, e)
                               \/ /\ k = n /\ g = d /\ e.kind = "write"
                                  /\ Quiet(n) => e.file = f
  BY <1>3, NoticedWatchers
<1>6. <<d, y>> \in Path(n)
  BY <1>2, <1>3 DEF Path
<1>7. /\ DOMAIN disk' = Node
      /\ \A k \in Node : DOMAIN disk'[k] = Path(k)
      /\ \A k \in Node : k # n => disk'[k] = disk[k]
      /\ disk'[n][p] = m.data
      /\ \A q \in Path(n) : q \notin {p, <<d, y>>} => disk'[n][q] = disk[n][q]
      /\ old \notin {Absent, m.data} => disk'[n][<<d, y>>] = old
      /\ old \in {Absent, m.data} => <<d, y>> = p
  <2>1. DOMAIN disk = Node /\ \A k \in Node : DOMAIN disk[k] = Path(k)
    BY DEF Types
  <2>2. CASE /\ old \in {Absent, m.data} /\ y = f
             /\ disk' = [disk EXCEPT ![n][p] = m.data]
    BY <1>2, <2>1, <2>2 DEF p
  <2>3. CASE /\ old \notin {Absent, m.data} /\ y # f
             /\ disk' = [disk EXCEPT ![n][p] = m.data, ![n][<<d, y>>] = old]
    <3>1. <<d, y>> # p
      BY <2>3 DEF p
    <3> HIDE DEF p
    <3> QED
      BY <1>2, <1>6, <2>1, <2>3, <3>1
  <2> QED
    BY <1>3, <2>2, <2>3
<1>8. /\ DOMAIN writing' = Node /\ p \in writing'[n]
      /\ \A k \in Node : writing[k] \subseteq writing'[k]
  BY <1>1 DEF Types
<1>9. /\ DOMAIN active' = Node
      /\ \A k \in Node : k # n => active'[k] = active[k]
      /\ DOMAIN active'[n] = DOMAIN active[n] \ {f}
      /\ \A x \in DOMAIN active[n] \ {f} : active'[n][x] = active[n][x]
  BY <1>1 DEF Types
<1>10. \A k \in Node : IsTransfers(k, active'[k])
  <2>1. IsTransfers(n, active[n])
    BY DEF Types
  <2>2. IsTransfers(n, active'[n])
    BY <1>9, <2>1 DEF IsTransfers
  <2> QED
    BY <1>9, <2>2 DEF Types
<1>11. Types'
  BY <1>1, <1>4, <1>5, <1>7, <1>8, <1>9, <1>10
     DEF Types, IsTransfers, WatcherType, IsMessage, Path
<1>12. \A k \in Node : Quiet(k)' <=> Quiet(k)
  BY <1>1 DEF Quiet, Path
<1>13. ClearWay(n)'
  <2>1. ASSUME NEW x \in DOMAIN active[n] \ {f}, mine[n][<<active[n][x].dir, x>>] = Absent
        PROVE  disk'[n][<<active[n][x].dir, x>>] = Absent
    <3>1. <<active[n][x].dir, x>> \in Path(n) /\ disk[n][<<active[n][x].dir, x>>] = Absent
      BY <2>1 DEF Core, ClearWay, Types, IsTransfers, Path
    <3>2. <<active[n][x].dir, x>> # p
      BY DEF p
    <3>3. old \notin {Absent, m.data} => <<active[n][x].dir, x>> # <<d, y>>
      BY <1>3, <3>1 DEF Taken
    <3> QED
      BY <1>7, <3>1, <3>2, <3>3
  <2> QED
    BY <1>1, <1>9, <2>1 DEF ClearWay
<1>14. ASSUME NEW q \in Path(n), mine[n][q] # Absent
       PROVE  \E z \in {q[2]} \cup Conflict[q[2]] : disk'[n][<<q[1], z>>] = mine[n][q]
  <2>1. PICK z \in {q[2]} \cup Conflict[q[2]] : disk[n][<<q[1], z>>] = mine[n][q]
    BY <1>14 DEF Core, Kept
  <2>2. q = <<q[1], q[2]>> /\ q[2] \in File /\ <<q[1], z>> \in Path(n)
        /\ Conflict[q[2]] \subseteq Name \ File
    BY <1>14, <2>1, NameAssumption DEF Path, Types
  <2>3. CASE <<q[1], z>> \notin {p, <<d, y>>}
    BY <1>7, <2>1, <2>2, <2>3
  <2>4. CASE <<q[1], z>> = p
    <3>1. CASE old \in {Absent, m.data}
      BY <1>7, <1>14, <2>1, <2>4, <3>1 DEF old
    <3>2. CASE old \notin {Absent, m.data}
      <4>1. mine[n][p] # Absent
        BY <1>1, <3>2 DEF Core, ClearWay, p, d, old
      <4>2. f \in File
        BY <1>2, <4>1 DEF Types, p
      <4>3. z = f /\ q[1] = d
        BY <2>4 DEF p
      <4>4. q[2] = f
        BY <2>1, <2>2, <4>2, <4>3
      <4>5. y \in Conflict[q[2]] /\ disk'[n][<<q[1], y>>] = old
        BY <1>3, <1>7, <3>2, <4>3, <4>4
      <4> QED
        BY <2>1, <2>4, <4>5 DEF old
    <3> QED
      BY <3>1, <3>2
  <2>5. CASE <<q[1], z>> = <<d, y>> /\ <<q[1], z>> # p
    BY <1>3, <1>7, <1>14, <2>1, <2>5 DEF Taken
  <2> QED
    BY <2>3, <2>4, <2>5
<1>15. ASSUME NEW k \in Node
       PROVE  ClearWay(k)' /\ Marked(k)' /\ NothingToTell(k)' /\ NotTold(k)' /\ Kept(k)'
  <2>1. ClearWay(k)'
    <3>1. k # n => ClearWay(k)'
      BY <1>1, <1>7, <1>9 DEF Core, ClearWay
    <3> QED
      BY <1>13, <3>1
  <2>2. Marked(k)'
    <3>1. ASSUME NEW g \in Dir[k], NEW e \in Event, Awaits(k, g, e)'
          PROVE  /\ e.kind = "remove" => <<g, e.file>> \in deleting'[k]
                 /\ Quiet(k)' /\ e.kind = "write" => <<g, e.file>> \in writing'[k]
      <4>1. CASE Awaits(k, g, e)
        BY <1>1, <1>8, <1>12, <4>1 DEF Core, Marked
      <4>2. CASE k = n /\ g = d /\ e.kind = "write" /\ (Quiet(n) => e.file = f)
        BY <1>8, <1>12, <4>2 DEF p
      <4> QED
        BY <1>5, <3>1, <4>1, <4>2
    <3> QED
      BY <3>1 DEF Marked
  <2>3. NothingToTell(k)'
    BY <1>1, <1>12 DEF Core, NothingToTell, Noted
  <2>4. NotTold(k)'
    BY <1>4, <1>12, OtherNode DEF Core, NotTold, Other
  <2>5. Kept(k)'
    <3>1. ASSUME k # n PROVE Kept(k)'
      <4>1. disk'[k] = disk[k] /\ mine' = mine
        BY <1>1, <1>7, <3>1
      <4>2. Kept(k)
        BY DEF Core
      <4> QED
        BY <4>1, <4>2 DEF Kept, Path
    <3>2. Kept(n)'
      BY <1>1, <1>14 DEF Kept, Path
    <3> QED
      BY <3>1, <3>2
  <2> QED
    BY <2>1, <2>2, <2>3, <2>4, <2>5
<1>16. \E k \in Node : Quiet(k)'
  BY <1>12 DEF Core
<1> QED
  BY <1>11, <1>15, <1>16 DEF Core

-----------------------------------------------------------------------------
(* One author: every step.                                                  *)

\* What the history says of the past stays true.
LEMMA UpsetKept == Next => upset \subseteq upset'
<1> SUFFICES ASSUME Next PROVE upset \subseteq upset'
  OBVIOUS
<1>1. PICK n \in Node : Work(n) \/ Windows(n) \/ User(n)
  BY DEF Next
<1>2. CASE Windows(n)
  BY <1>2 DEF Windows, WritingExpires, DeletingExpires, RecentExpires, history
<1>3. CASE User(n)
  BY <1>3 DEF User, SetFolder, Save, Unlink, Blame
<1>4. CASE \E m \in InFlight(n) : OnMessage(n, m)
  <2>1. PICK m \in InFlight(n) : OnMessage(n, m)
    BY <1>4
  <2>2. OnManifest(n, m) => upset \subseteq upset'
    BY DEF OnManifest
  <2>3. WriteFile(n, m) => upset \subseteq upset'
    BY DEF WriteFile
  <2>4. OnAnnouncement(n, m) \/ OnManifestRequest(n, m) \/ OnChunkRequest(n, m)
        \/ DropManifest(n, m) \/ RefuseChunk(n, m) \/ OnFileChanged(n, m)
        \/ OnFileDeleted(n, m) => upset \subseteq upset'
    BY DEF OnAnnouncement, OnManifestRequest, OnChunkRequest, DropManifest, RefuseChunk,
           OnFileChanged, OnFileDeleted, history
  <2> QED
    BY <2>1, <2>2, <2>3, <2>4 DEF OnMessage
<1>5. CASE Work(n) /\ ~ \E m \in InFlight(n) : OnMessage(n, m)
  BY <1>5 DEF Work, Watch, Announce, CheckStalls, history
<1> QED
  BY <1>1, <1>2, <1>3, <1>4, <1>5 DEF Work

LEMMA CleanBefore ==
  ASSUME Next, Clean' PROVE Clean
BY UpsetKept DEF Clean

LEMMA AuthorNext ==
  ASSUME AuthorInv, [Next]_vars PROVE AuthorInv'
<1>1. CASE UNCHANGED vars
  <2>1. /\ UNCHANGED <<disk, mine, sync, watchers, notices, writing, deleting, active>>
        /\ upset' = upset /\ net' = net
    BY <1>1 DEF vars, queues, marks, history
  <2>2. \A k \in Node : InFlight(k)' = InFlight(k)
    BY <2>1 DEF InFlight
  <2>3. ASSUME Types, Core PROVE Types' /\ Core'
    <3>1. DOMAIN net' = Node
      BY <2>1, <2>3 DEF Types
    <3> QED
      BY <2>1, <2>2, <2>3, <3>1, CalmTypes, CalmCore
  <2> QED
    BY <2>1, <2>3 DEF AuthorInv, Clean
<1>2. ASSUME Next, Clean' PROVE Types' /\ Core'
  <2>1. Types /\ Core
    BY <1>2, CleanBefore DEF AuthorInv
  <2>2. PICK n \in Node : Work(n) \/ Windows(n) \/ User(n)
    BY <1>2 DEF Next
  <2>3. CASE \E w \in DOMAIN watchers[n] : Watch(n, w)
    BY <2>1, <2>3, WatchKeeps
  <2>4. CASE Announce(n)
    BY <2>1, <2>4, AnnounceKeeps
  <2>5. CASE \E m \in InFlight(n) : OnMessage(n, m)
    <3>1. PICK m \in InFlight(n) : OnMessage(n, m)
      BY <2>5
    <3>2. CASE OnManifest(n, m)
      BY <1>2, <2>1, <3>2, ManifestKeeps
    <3>3. CASE WriteFile(n, m)
      BY <1>2, <2>1, <3>3, WriteKeeps
    <3>4. CASE OnFileChanged(n, m)
      BY <2>1, <3>4, ChangeKeeps
    <3>5. ~ OnFileDeleted(n, m)
      BY <2>1 DEF OnFileDeleted, Core, NotTold
    <3>6. CASE \/ OnAnnouncement(n, m) \/ OnManifestRequest(n, m) \/ OnChunkRequest(n, m)
               \/ DropManifest(n, m) \/ RefuseChunk(n, m)
      BY <2>1, <3>6, CalmMessage
    <3> QED
      BY <3>1, <3>2, <3>3, <3>4, <3>5, <3>6 DEF OnMessage
  <2>6. CASE \E x \in Name : CheckStalls(n, x)
    BY <2>1, <2>6, CalmStall
  <2>7. CASE Windows(n)
    BY <2>1, <2>7, WindowsKeep
  <2>8. CASE User(n)
    <3>1. PICK d \in Dir[n] : \/ SetFolder(n, d)
                              \/ \E x \in File : Unlink(n, d, x) \/ \E c \in Content : Save(n, d, x, c)
      BY <2>8 DEF User
    <3>2. CASE SetFolder(n, d)
      BY <2>1, <3>2, SetFolderKeeps
    <3>3. ASSUME NEW x \in File, Unlink(n, d, x) PROVE FALSE
      <4>1. "removal" \in upset'
        BY <3>3 DEF Unlink, Blame
      <4> QED
        BY <1>2, <4>1 DEF Clean
    <3>4. ASSUME NEW x \in File, NEW c \in Content, Save(n, d, x, c) PROVE Types' /\ Core'
      BY <1>2, <2>1, <3>4, SaveKeeps
    <3> QED
      BY <3>1, <3>2, <3>3, <3>4
  <2> QED
    BY <2>2, <2>3, <2>4, <2>5, <2>6, <2>7, <2>8 DEF Work
<1> QED
  BY <1>1, <1>2 DEF AuthorInv

\* As long as only one user edits, and removes nothing, what he saved last
\* stays in his folder, under its name or as a conflict copy (watcher.rs, the
\* two marks; handler.rs, the notices; storage.rs, the reassembly).
THEOREM AuthorKeepsHolds == Spec => []AuthorKeeps
<1>1. AuthorInv => AuthorKeeps
  BY DEF AuthorInv, Core, Clean, Kept, AuthorKeeps
<1> QED
  BY <1>1, AuthorInit, AuthorNext, PTL DEF Spec

-----------------------------------------------------------------------------
(* When users take turns.                                                   *)

\* A change of x at n is on its way to the peer, or still to be announced.
Telling(n, x) ==
    \/ FileChanged(x) \in InFlight(Other(n))
    \/ /\ x \notin recent[n]
       /\ \/ Noted(n, Written(x))
          \/ Awaits(n, sync[n], Written(x)) /\ <<sync[n], x>> \notin writing[n]

\* A change is on its way once, and the window that keeps it from being
\* announced again is open.
Posted ==
    /\ DOMAIN recent = Node
    /\ \A n \in Node :
         /\ IsABag(net[n])
         /\ \A m \in InFlight(n) :
              m.type = "FileChanged" =>
                m = FileChanged(m.file) /\ m.file \in recent[Other(n)] /\ net[n][m] = 1

Paired == \A n \in Node : sync[n] # None
NoTransfers == \A n \in Node : DOMAIN active[n] = {}
AgreeBut(x) == \A y \in Name : y # x => Here(NodeA, y) = Here(NodeB, y)

\* A node without a folder neither offers nor accepts files.
Alone ==
    /\ NoTransfers
    /\ \E n \in Node : sync[n] = None
    /\ \A n \in Node :
        /\ \A m \in InFlight(n) :
             \/ m.type \in {"FolderAnnouncement", "ManifestRequest"}
             \/ m.type = "Manifest" /\ sync[n] = None
        /\ \A e : ~ Noted(n, e)
        /\ \A d, e : ~ Awaits(n, d, e)

\* The user of n saved x, and the peer does not know it yet.
Saved(n, x) ==
    /\ Paired
    /\ NoTransfers
    /\ AgreeBut(x)
    /\ Here(n, x) # Absent
    /\ Telling(n, x)
    /\ \A k \in Node :
        /\ \A m \in InFlight(k) : k = Other(n) /\ m = FileChanged(x)
        /\ \A e : Noted(k, e) => k = n /\ e = Written(x)
        /\ \A d, e : Awaits(k, d, e) => k = n /\ d = sync[n] /\ e = Written(x)

\* The user of n removed x: the peer has no copy left, or will hear of it.
Unlinked(n, x) ==
    /\ Paired
    /\ NoTransfers
    /\ AgreeBut(x)
    /\ Here(n, x) = Absent
    /\ Here(Other(n), x) # Absent =>
         \/ FileDeleted(x) \in InFlight(Other(n))
         \/ Noted(n, Removed(x))
         \/ \E d \in Dir[n] : Awaits(n, d, Removed(x))
    /\ deleting[n] = {}
    /\ \A k \in Node :
        /\ \A m \in InFlight(k) : m = FileDeleted(x)
        /\ \A e : Noted(k, e) => e = Removed(x)
        /\ \A d, e : Awaits(k, d, e) => e = Removed(x)

\* What both are to have under the name x.
Goal(x) == IF Here(NodeA, x) # Absent THEN Here(NodeA, x) ELSE Here(NodeB, x)

\* What is on its way gets x to n.
Coming(n, x) ==
    \/ FolderAnnouncement \in InFlight(n)
    \/ ManifestRequest \in InFlight(Other(n))
    \/ \E m \in InFlight(n) : m.type = "Manifest" /\ x \in DOMAIN m.files
    \/ x \in DOMAIN active[n]

\* n has nothing but what both are to have,
Clear(n) == \A x \in Name : Here(n, x) \in {Goal(x), Absent}

\* a change is announced only while both have the file, and by one of them,
Told(n) ==
    \A x \in Name :
        Telling(n, x) => /\ Here(n, x) # Absent /\ Here(Other(n), x) # Absent
                         /\ ~ Telling(Other(n), x)

\* what n lacks and the peer has is coming,
Fed(n) ==
    \A x \in Name : Here(n, x) = Absent /\ Here(Other(n), x) # Absent => Coming(n, x)

\* as what both are to have,
TrueMail(n) ==
    \A m \in InFlight(n) :
        /\ m.type # "FileDeleted"
        /\ m.type = "Manifest" =>
             \A x \in DOMAIN m.files : m.files[x] = Goal(x) /\ Goal(x) # Absent

TrueTransfers(n) ==
    \A x \in DOMAIN active[n] :
        /\ active[n][x].hash = Goal(x) /\ Goal(x) # Absent
        /\ active[n][x].dir = sync[n]

\* and no removal is announced.
Unheard(n) ==
    /\ \A e : Noted(n, e) => e.kind = "write"
    /\ \A d, e : Awaits(n, d, e) =>
         d = sync[n] /\ (e.kind = "remove" => <<d, e.file>> \in deleting[n])

\* Files spread from the node that has them to the one that does not.
Spreading ==
    /\ Paired
    /\ \A n \in Node :
         Clear(n) /\ Told(n) /\ Fed(n) /\ TrueMail(n) /\ TrueTransfers(n) /\ Unheard(n)

InTurns == \/ Alone
           \/ Spreading
           \/ \E n \in Node, x \in File : Saved(n, x) \/ Unlinked(n, x)

TurnsInv == "crossing" \notin upset => Types /\ Posted /\ InTurns

-----------------------------------------------------------------------------
(* In turns: at rest.                                                       *)

LEMMA AtRest ==
  ASSUME Types, Settled
  PROVE  /\ NoTransfers
         /\ \A n \in Node : InFlight(n) = {} /\ notices[n] = <<>>
         /\ \A n \in Node : \A e : ~ Noted(n, e)
         /\ \A n \in Node : \A d, e : ~ Awaits(n, d, e)
         /\ \A n \in Node : \A x : ~ Telling(n, x)
<1>1. \A n \in Node : InFlight(n) = {} /\ notices[n] = <<>>
  BY DEF Settled, InFlight, BagToSet, EmptyBag, SetToBag
<1>2. \A n \in Node : \A e : ~ Noted(n, e)
  BY <1>1 DEF Noted, Has
<1>3. \A n \in Node : \A d, e : ~ Awaits(n, d, e)
  BY DEF Settled, Awaits
<1>4. \A n \in Node : \A x : ~ Telling(n, x)
  BY <1>1, <1>2, <1>3, OtherNode DEF Telling
<1> QED
  BY <1>1, <1>2, <1>3, <1>4 DEF Settled, NoTransfers

\* In turns, what is at rest agrees.
LEMMA RestAgrees ==
  ASSUME Types, InTurns, Settled, Paired
  PROVE  \A x \in Name : Here(NodeA, x) = Here(NodeB, x)
<1>1. ~ Alone
  BY DEF Alone, Paired
<1>2. NodeA \in Node /\ NodeB \in Node /\ Other(NodeA) = NodeB /\ Other(NodeB) = NodeA
  BY NodeAssumption DEF Node, Other
<1>3. ASSUME NEW n \in Node, NEW x \in File, Saved(n, x) PROVE FALSE
  BY <1>3, AtRest DEF Saved
<1>4. ASSUME NEW n \in Node, NEW x \in File, Unlinked(n, x)
      PROVE  \A y \in Name : Here(NodeA, y) = Here(NodeB, y)
  <2>1. Here(n, x) = Absent /\ Here(Other(n), x) = Absent
    BY <1>4, AtRest, OtherNode DEF Unlinked
  <2>2. Here(NodeA, x) = Here(NodeB, x)
    BY <1>2, <2>1 DEF Node
  <2> QED
    BY <1>4, <2>2 DEF Unlinked, AgreeBut
<1>5. ASSUME Spreading, NEW x \in Name
      PROVE  Here(NodeA, x) = Here(NodeB, x)
  <2>1. \A n \in Node : ~ Coming(n, x)
    BY AtRest, OtherNode DEF Coming, NoTransfers
  <2>2. \A n \in Node : Clear(n) /\ Fed(n)
    BY <1>5 DEF Spreading
  <2> QED
    BY <1>2, <2>1, <2>2 DEF Clear, Fed
<1> QED
  BY <1>1, <1>3, <1>4, <1>5 DEF InTurns

LEMMA TurnsInit == Init => TurnsInv
<1> SUFFICES ASSUME Init PROVE Types /\ Posted /\ Alone
  BY DEF TurnsInv, InTurns
<1>1. AuthorInv /\ Clean
  BY AuthorInit DEF Init, Clean
<1>2. Types
  BY <1>1 DEF AuthorInv
<1>3. \A n \in Node : InFlight(n) = {}
  BY DEF Init, InFlight, BagToSet, EmptyBag, SetToBag
<1>4. \A n \in Node : IsABag(net[n])
  BY DEF Init, IsABag, EmptyBag, SetToBag
<1>5. Posted
  BY <1>3, <1>4 DEF Posted, Init
<1>6. \A n \in Node : \A d, e : ~ Awaits(n, d, e)
  BY DEF Init, Awaits
<1>7. NodeA \in Node
  BY DEF Node
<1>8. Alone
  BY <1>3, <1>6, <1>7 DEF Alone, NoTransfers, Init, Noted, Has
<1> QED
  BY <1>2, <1>5, <1>8

\* What is seen of a folder changes with the disk and the folder only.
LEMMA SameView ==
  ASSUME UNCHANGED <<disk, sync>>
  PROVE  /\ Paired' = Paired
         /\ \A n, x : Here(n, x)' = Here(n, x)
         /\ \A x : Goal(x)' = Goal(x) /\ (AgreeBut(x)' <=> AgreeBut(x))
         /\ \A n \in Node : Clear(n)' <=> Clear(n)
<1>1. \A n, x : Here(n, x)' = Here(n, x)
  BY DEF Here
<1>2. \A x : Goal(x)' = Goal(x)
  BY <1>1 DEF Goal
<1>3. \A x : AgreeBut(x)' <=> AgreeBut(x)
  BY <1>1 DEF AgreeBut
<1>4. Paired' = Paired
  BY DEF Paired
<1>5. \A n \in Node : Clear(n)' <=> Clear(n)
  BY <1>1, <1>2 DEF Clear
<1> QED
  BY <1>1, <1>2, <1>3, <1>4, <1>5

\* A step that nobody hears of.
LEMMA Unseen ==
  ASSUME InTurns, UNCHANGED <<disk, sync, active>>,
         \A n \in Node : InFlight(n)' = InFlight(n),
         \A n \in Node : \A e : Noted(n, e)' <=> Noted(n, e),
         \A n \in Node : \A d, e : Awaits(n, d, e)' <=> Awaits(n, d, e),
         \A n \in Node, x \in Name : Telling(n, x)' <=> Telling(n, x),
         \A n \in Node : deleting[n] = {} => deleting'[n] = {},
         \A n \in Node : \A d, e :
           Awaits(n, d, e) /\ <<d, e.file>> \in deleting[n] => <<d, e.file>> \in deleting'[n]
  PROVE  InTurns'
<1>1. CASE Alone
  <2>1. Alone'
    BY <1>1 DEF Alone, NoTransfers
  <2> QED
    BY <2>1 DEF InTurns
<1>2. ASSUME NEW n \in Node, NEW x \in File, Saved(n, x) PROVE Saved(n, x)'
  <2>1. x \in Name
    BY NameAssumption
  <2> QED
    BY <1>2, <2>1, SameView DEF Saved, NoTransfers
<1>3. ASSUME NEW n \in Node, NEW x \in File, Unlinked(n, x) PROVE Unlinked(n, x)'
  <2>1. Other(n) \in Node
    BY OtherNode
  <2> QED
    BY <1>3, <2>1, SameView DEF Unlinked, NoTransfers
<1>4. ASSUME Spreading PROVE Spreading'
  <2>1. ASSUME NEW n \in Node
        PROVE  Clear(n)' /\ Told(n)' /\ Fed(n)' /\ TrueMail(n)' /\ TrueTransfers(n)' /\ Unheard(n)'
    <3>1. Other(n) \in Node
      BY OtherNode
    <3>2. Clear(n) /\ Told(n) /\ Fed(n) /\ TrueMail(n) /\ TrueTransfers(n) /\ Unheard(n)
      BY <1>4 DEF Spreading
    <3>3. Clear(n)' /\ Told(n)'
      BY <3>1, <3>2, SameView DEF Told
    <3>4. Fed(n)'
      BY <3>1, <3>2, SameView DEF Fed, Coming
    <3>5. TrueMail(n)' /\ TrueTransfers(n)'
      BY <3>2, SameView DEF TrueMail, TrueTransfers
    <3>6. Unheard(n)'
      BY <3>2 DEF Unheard
    <3> QED
      BY <3>3, <3>4, <3>5, <3>6
  <2> QED
    BY <1>4, <2>1, SameView DEF Spreading
<1> QED
  BY <1>1, <1>2, <1>3, <1>4 DEF InTurns

\* A window closes when nothing is left to see of what it covers.
LEMMA WindowsTurns ==
  ASSUME Types, Posted, InTurns, NEW n \in Node, Windows(n)
  PROVE  Types' /\ Posted' /\ InTurns'
<1>1. UNCHANGED <<disk, sync, watchers, notices, active, net>>
  BY DEF Windows, WritingExpires, DeletingExpires, RecentExpires, queues
<1>2. /\ \A k \in Node : InFlight(k)' = InFlight(k)
      /\ \A k \in Node : \A e : Noted(k, e)' <=> Noted(k, e)
      /\ \A k \in Node : \A d, e : Awaits(k, d, e)' <=> Awaits(k, d, e)
  BY <1>1 DEF InFlight, Noted, Awaits
<1>3. \A k \in Node : \A d, e : Awaits(k, d, e) => Pending(k, <<d, e.file>>)
  BY DEF Awaits, Pending
<1>4. /\ DOMAIN recent' = Node
      /\ \A k \in Node : recent'[k] \subseteq recent[k]
      /\ recent' = recent \/ Settled
  BY DEF Windows, WritingExpires, DeletingExpires, RecentExpires, Posted
<1>5. \A k \in Node : \A d, e :
        Awaits(k, d, e) => /\ <<d, e.file>> \in writing[k] <=> <<d, e.file>> \in writing'[k]
                           /\ <<d, e.file>> \in deleting[k] <=> <<d, e.file>> \in deleting'[k]
  <2>1. CASE \E p \in writing[n] : WritingExpires(n, p)
    BY <1>3, <2>1 DEF WritingExpires, Types
  <2>2. CASE \E p \in deleting[n] : DeletingExpires(n, p)
    BY <1>3, <2>2 DEF DeletingExpires, Types
  <2>3. CASE \E x \in recent[n] : RecentExpires(n, x)
    BY <2>3 DEF RecentExpires
  <2> QED
    BY <2>1, <2>2, <2>3 DEF Windows
<1>6. \A k \in Node : deleting[k] = {} => deleting'[k] = {}
  BY DEF Windows, WritingExpires, DeletingExpires, RecentExpires, Types
<1>7. Posted'
  <2>1. CASE recent' = recent
    BY <1>1, <1>2, <1>4, <2>1, OtherNode DEF Posted
  <2>2. CASE Settled
    <3>1. \A k \in Node : InFlight(k)' = {}
      BY <1>2, <2>2, AtRest
    <3> QED
      BY <1>1, <1>4, <3>1 DEF Posted
  <2> QED
    BY <1>4, <2>1, <2>2
<1>8. ASSUME NEW k \in Node, NEW x \in Name
      PROVE  Telling(k, x)' <=> Telling(k, x)
  <2>1. CASE Settled
    <3>1. \A j \in Node : InFlight(j)' = {} /\ (\A e : ~ Noted(j, e)') /\ (\A d, e : ~ Awaits(j, d, e)')
      BY <1>2, <2>1, AtRest
    <3> QED
      BY <2>1, <3>1, AtRest, OtherNode DEF Telling
  <2>2. CASE recent' = recent
    <3>1. Written(x).file = x
      BY DEF Written
    <3>2. Awaits(k, sync[k], Written(x)) =>
            (<<sync[k], x>> \in writing[k] <=> <<sync[k], x>> \in writing'[k])
      BY <1>5, <3>1
    <3> QED
      BY <1>1, <1>2, <2>2, <3>2, OtherNode DEF Telling, Other
  <2> QED
    BY <1>4, <2>1, <2>2
<1>9. Types'
  BY WindowsKeep
<1> QED
  BY <1>1, <1>2, <1>5, <1>6, <1>7, <1>8, <1>9, Unseen

-----------------------------------------------------------------------------
(* In turns: users.                                                         *)

\* Spreading starts anew when a folder is set.
LEMMA SetFolderTurns ==
  ASSUME Types, Posted, NEW n \in Node, NEW d \in Dir[n], SetFolder(n, d),
         "crossing" \notin upset'
  PROVE  Types' /\ Posted' /\ InTurns'
<1> DEFINE o == Other(n)
           S == {FolderAnnouncement, ManifestRequest}
<1>1. /\ UNCHANGED <<disk, mine, notices, writing, deleting, recent, active>>
      /\ sync' = [sync EXCEPT ![n] = d]
      /\ watchers' = [watchers EXCEPT ![n] = Append(@, [dir |-> d, events |-> <<>>])]
      /\ net' = Sent(n, S)
      /\ Settled /\ Compatible(n, d)
  BY DEF SetFolder, marks, Blame
<1>2. o \in Node /\ o # n /\ Other(o) = n /\ \A k \in Node : k = n \/ k = o
  BY OtherNode
<1>3. /\ \A k \in Node : InFlight(k) = {} /\ DOMAIN active[k] = {}
      /\ \A k \in Node : \A e : ~ Noted(k, e)
      /\ \A k \in Node : \A f, e : ~ Awaits(k, f, e)
  BY <1>1, AtRest DEF NoTransfers
<1>4. /\ DOMAIN watchers' = Node
      /\ \A k \in Node : watchers'[k] \in Seq(WatcherType(k))
      /\ \A k \in Node : \A f, e : ~ Awaits(k, f, e)'
  BY <1>1, <1>3, SetFolderWatchers
<1>5. \A k \in Node : \A e : ~ Noted(k, e)'
  BY <1>1, <1>3 DEF Noted
<1>6. \A k \in Node : IsABag(net[k])
  BY DEF Posted
<1>7. /\ DOMAIN net' = Node /\ \A k \in Node : IsABag(net'[k])
      /\ InFlight(n)' = {} /\ InFlight(o)' = S
  <2>1. DOMAIN net = Node
    BY DEF Types
  <2> HIDE DEF S
  <2>2. /\ DOMAIN net' = Node /\ \A k \in Node : IsABag(net'[k])
        /\ InFlight(n)' = InFlight(n) /\ InFlight(o)' = InFlight(o) \cup S
    BY <1>1, <1>6, <2>1, SentMail
  <2> QED
    BY <1>2, <1>3, <2>2
<1>8. /\ \A m \in S : m.type \in {"FolderAnnouncement", "ManifestRequest"} /\ IsMessage(m)
      /\ FolderAnnouncement \in S /\ ManifestRequest \in S
  BY Harmless DEF IsMessage
<1> HIDE DEF o, S
<1>9. \A k \in Node : \A m \in InFlight(k)' :
        m.type \in {"FolderAnnouncement", "ManifestRequest"} /\ IsMessage(m)
  BY <1>2, <1>7, <1>8
<1>10. Types'
  <2>1. \A k \in Node : sync'[k] \in Dir[k] \cup {None}
    BY <1>1 DEF Types
  <2> QED
    BY <1>1, <1>4, <1>7, <1>9, <2>1 DEF Types, IsTransfers, WatcherType, IsMessage, Path
<1>11. Posted'
  BY <1>1, <1>7, <1>9 DEF Posted
<1>12. /\ sync'[n] = d /\ sync'[o] = sync[o] /\ d # None
       /\ \A x : Here(n, x)' = disk[n][<<d, x>>] /\ Here(o, x)' = Here(o, x)
  BY <1>1, <1>2, NoneAssumption DEF Types, Here
<1>13. ASSUME sync[o] = None PROVE Alone'
  BY <1>1, <1>2, <1>3, <1>4, <1>5, <1>9, <1>12, <1>13 DEF Alone, NoTransfers
<1>14. ASSUME sync[o] # None PROVE Spreading'
  <2>1. \A x \in Name : Here(n, x)' = Absent \/ Here(o, x)' = Absent \/ Here(n, x)' = Here(o, x)'
    BY <1>1, <1>12, <1>14 DEF Compatible, o
  <2>2. {n, o} = {NodeA, NodeB}
    BY <1>2 DEF Node
  <2>3. \A x \in Name : /\ Here(n, x)' \in {Goal(x)', Absent}
                        /\ Here(o, x)' \in {Goal(x)', Absent}
    BY <2>1, <2>2 DEF Goal
  <2>4. \A k \in Node : Clear(k)'
    BY <1>2, <2>3 DEF Clear
  <2>5. \A k \in Node : \A x : ~ Telling(k, x)'
    <3>1. \A k \in Node : \A x : FileChanged(x) \notin InFlight(Other(k))'
      BY <1>9, Harmless, OtherNode
    <3> QED
      BY <1>4, <1>5, <3>1 DEF Telling
  <2>6. \A k \in Node : Told(k)'
    BY <2>5 DEF Told
  <2>7. \A k \in Node : Fed(k)'
    <3>1. FolderAnnouncement \in InFlight(o)' /\ ManifestRequest \in InFlight(Other(n))'
      BY <1>7, <1>8 DEF o
    <3>2. \A x : Coming(n, x)' /\ Coming(o, x)'
      BY <3>1 DEF Coming
    <3> QED
      BY <1>2, <3>2 DEF Fed
  <2>8. \A k \in Node : TrueMail(k)' /\ TrueTransfers(k)' /\ Unheard(k)'
    BY <1>1, <1>3, <1>4, <1>5, <1>9 DEF TrueMail, TrueTransfers, Unheard
  <2>9. Paired'
    BY <1>2, <1>12, <1>14 DEF Paired
  <2> QED
    BY <2>4, <2>6, <2>7, <2>8, <2>9 DEF Spreading
<1> QED
  BY <1>10, <1>11, <1>13, <1>14 DEF InTurns

\* A user saves or removes a file.
Edited(n, d, x, v, e) ==
    /\ UNCHANGED <<sync, notices, writing, deleting, recent, active, net>>
    /\ disk' = [disk EXCEPT ![n][<<d, x>>] = v]
    /\ mine' = [mine EXCEPT ![n][<<d, x>>] = v]
    /\ watchers' = Noticed(n, d, <<e>>)

LEMMA EditStep ==
  ASSUME Types, NEW n \in Node, NEW d \in Dir[n], NEW x \in File, NEW v, NEW e \in Event,
         Edited(n, d, x, v, e)
  PROVE  /\ Types'
         /\ \A k \in Node : \A p \in Path(k) :
              disk'[k][p] = IF k = n /\ p = <<d, x>> THEN v ELSE disk[k][p]
         /\ \A k \in Node : \A f, a :
              Awaits(k, f, a)' => Awaits(k, f, a) \/ (k = n /\ f = d /\ a = e)
         /\ (\E w \in DOMAIN watchers[n] : watchers[n][w].dir = d) => Awaits(n, d, e)'
<1> DEFINE es == <<e>>
<1>1. es \in Seq(Event) /\ DOMAIN es = 1 .. 1 /\ es[1] = e
  OBVIOUS
<1>2. /\ watchers' = Noticed(n, d, es)
      /\ UNCHANGED <<sync, notices, writing, deleting, recent, active, net>>
      /\ disk' = [disk EXCEPT ![n][<<d, x>>] = v]
      /\ mine' = [mine EXCEPT ![n][<<d, x>>] = v]
  BY DEF Edited
<1> HIDE DEF es
<1>3. x \in Name /\ <<d, x>> \in Path(n)
  BY NameAssumption DEF Path
<1>4. /\ DOMAIN watchers' = Node
      /\ \A k \in Node : watchers'[k] \in Seq(WatcherType(k))
      /\ \A k \in Node : \A f, a :
           Awaits(k, f, a)' => \/ Awaits(k, f, a)
                               \/ k = n /\ f = d /\ \E i \in DOMAIN es : es[i] = a
  BY <1>1, <1>2, NoticedWatchers
<1>5. (\E w \in DOMAIN watchers[n] : watchers[n][w].dir = d) => Awaits(n, d, e)'
  <2>1. (\E w \in DOMAIN watchers[n] : watchers[n][w].dir = d) =>
           \A i \in DOMAIN es : Awaits(n, d, es[i])'
    BY <1>1, <1>2, NoticedKept
  <2>2. 1 \in DOMAIN es
    BY <1>1
  <2> QED
    BY <1>1, <2>1, <2>2
<1>6. \A k \in Node : \A f, a :
        Awaits(k, f, a)' => Awaits(k, f, a) \/ (k = n /\ f = d /\ a = e)
  <2>1. \A i \in DOMAIN es : es[i] = e
    BY <1>1
  <2> QED
    BY <1>4, <2>1
<1>7. /\ DOMAIN disk' = Node /\ DOMAIN mine' = Node
      /\ \A k \in Node : DOMAIN disk'[k] = Path(k) /\ DOMAIN mine'[k] = Path(k)
      /\ \A k \in Node : \A p \in Path(k) :
           /\ disk'[k][p] = IF k = n /\ p = <<d, x>> THEN v ELSE disk[k][p]
           /\ mine'[k][p] = IF k = n /\ p = <<d, x>> THEN v ELSE mine[k][p]
  BY <1>2, <1>3 DEF Types
<1>8. \A k \in Node : \A p \in Path(k) : mine'[k][p] # Absent => p[2] \in File
  <2>1. \A k \in Node : \A p \in Path(k) : mine[k][p] # Absent => p[2] \in File
    BY DEF Types
  <2> QED
    BY <1>7, <2>1
<1>9. Types'
  BY <1>2, <1>4, <1>7, <1>8 DEF Types, IsTransfers, InFlight, IsMessage, WatcherType, Path
<1> QED
  BY <1>5, <1>6, <1>7, <1>9

\* A user who acts in turn finds both at rest, and alike.
LEMMA EditTurns ==
  ASSUME Types, Posted, InTurns, NEW n \in Node, NEW d \in Dir[n], NEW x \in File,
         NEW v, NEW e \in Event, InTurn(n, d),
         Edited(n, d, x, v, e), \E w \in DOMAIN watchers[n] : watchers[n][w].dir = d,
         \/ v # Absent /\ e = Written(x)
         \/ v = Absent /\ e = Removed(x)
  PROVE  Types' /\ Posted' /\ InTurns'
<1> DEFINE o == Other(n)
<1>1. o \in Node /\ o # n /\ Other(o) = n /\ \A k \in Node : k = n \/ k = o
  BY OtherNode
<1> HIDE DEF o
<1>2. /\ Settled /\ d = sync[n] /\ sync[o] # None /\ sync[n] # None /\ x \in Name
      /\ writing[n] = {} /\ deleting[n] = {} /\ recent[n] = {}
  BY NoneAssumption, NameAssumption DEF InTurn, Rested, o
<1>3. /\ Types'
      /\ \A k \in Node : \A p \in Path(k) :
           disk'[k][p] = IF k = n /\ p = <<d, x>> THEN v ELSE disk[k][p]
      /\ \A k \in Node : \A f, a :
           Awaits(k, f, a)' => Awaits(k, f, a) \/ (k = n /\ f = d /\ a = e)
      /\ Awaits(n, d, e)'
  BY EditStep
<1> USE DEF Edited
<1>4. /\ NoTransfers
      /\ \A k \in Node : InFlight(k) = {}
      /\ \A k \in Node : \A a : ~ Noted(k, a)
      /\ \A k \in Node : \A f, a : ~ Awaits(k, f, a)
  BY <1>2, AtRest
<1>5. /\ NoTransfers'
      /\ \A k \in Node : InFlight(k)' = {}
      /\ \A k \in Node : \A a : ~ Noted(k, a)'
      /\ \A k \in Node : \A f, a : Awaits(k, f, a)' => k = n /\ f = d /\ a = e
  BY <1>3, <1>4 DEF NoTransfers, InFlight, Noted
<1>6. Posted'
  BY <1>5 DEF Posted
<1>7. Paired /\ Paired'
  BY <1>1, <1>2 DEF Paired
<1>8. \A y \in Name : Here(NodeA, y) = Here(NodeB, y)
  BY <1>2, <1>7, RestAgrees
<1>9. \A k \in Node : \A y \in Name :
        Here(k, y)' = IF k = n /\ y = x THEN v ELSE Here(k, y)
  <2>1. \A k \in Node : \A y \in Name : <<sync[k], y>> \in Path(k)
    BY <1>7 DEF Paired, Types, Path
  <2> QED
    BY <1>2, <1>3, <2>1 DEF Here
<1>10. NodeA \in Node /\ NodeB \in Node
  BY DEF Node
<1>11. AgreeBut(x)'
  BY <1>8, <1>9, <1>10 DEF AgreeBut
<1>12. ASSUME v # Absent, e = Written(x) PROVE Saved(n, x)'
  <2>1. Telling(n, x)'
    BY <1>2, <1>3, <1>12 DEF Telling
  <2> QED
    BY <1>2, <1>5, <1>7, <1>9, <1>11, <1>12, <2>1 DEF Saved
<1>13. ASSUME v = Absent, e = Removed(x) PROVE Unlinked(n, x)'
  BY <1>2, <1>3, <1>5, <1>7, <1>9, <1>11, <1>13 DEF Unlinked
<1> QED
  BY <1>3, <1>6, <1>12, <1>13 DEF InTurns

-----------------------------------------------------------------------------
(* In turns: watchers and main loops.                                       *)

LEMMA WatchTurns ==
  ASSUME Types, Posted, InTurns, NEW n \in Node, NEW w \in DOMAIN watchers[n], Watch(n, w)
  PROVE  Types' /\ Posted' /\ InTurns'
<1>1. /\ Types'
      /\ UNCHANGED <<disk, sync, writing, deleting, recent, active, net>>
  BY WatchStep
<1>2. PICK d \in Dir[n], e \in Event :
        LET told == ~ Own(n, <<d, e.file>>, e)
                    /\ ~ (e.kind = "write" /\ disk[n][<<d, e.file>>] = Absent)
        IN /\ Awaits(n, d, e)
           /\ \A k \in Node : \A f, a : Awaits(k, f, a)' => Awaits(k, f, a)
           /\ \A k \in Node : \A f, a :
                Awaits(k, f, a) /\ ~ (k = n /\ f = d /\ a = e) => Awaits(k, f, a)'
           /\ \A k \in Node : \A a :
                Noted(k, a)' <=> Noted(k, a) \/ (k = n /\ a = e /\ told)
  BY WatchStep
<1> DEFINE told == ~ Own(n, <<d, e.file>>, e)
                   /\ ~ (e.kind = "write" /\ disk[n][<<d, e.file>>] = Absent)
<1>3. /\ Awaits(n, d, e)
      /\ \A k \in Node : \A f, a : Awaits(k, f, a)' => Awaits(k, f, a)
      /\ \A k \in Node : \A f, a :
           Awaits(k, f, a) /\ ~ (k = n /\ f = d /\ a = e) => Awaits(k, f, a)'
      /\ \A k \in Node : \A a : Noted(k, a)' <=> Noted(k, a) \/ (k = n /\ a = e /\ told)
  BY <1>2
<1>4. /\ told => (e.kind = "write" => <<d, e.file>> \notin writing[n])
      /\ told => (e.kind = "remove" => <<d, e.file>> \notin deleting[n])
      /\ e.kind = "write" /\ <<d, e.file>> \notin writing[n] /\ disk[n][<<d, e.file>>] # Absent => told
      /\ e.kind = "remove" /\ <<d, e.file>> \notin deleting[n] => told
  BY DEF Own
<1> HIDE DEF told
<1>5. \A k \in Node : InFlight(k)' = InFlight(k)
  BY <1>1 DEF InFlight
<1>6. Posted'
  BY <1>1, <1>5, OtherNode DEF Posted
<1>7. e.kind \in {"write", "remove"} /\ e.file \in Name
      /\ \A x : /\ Written(x).kind = "write" /\ Written(x).file = x
                /\ Removed(x).kind = "remove" /\ Removed(x).file = x
  BY EventForm DEF Written, Removed
<1>8. ~ Alone
  BY <1>3 DEF Alone
<1>9. ASSUME NEW k \in Node, NEW x \in File, Saved(k, x) PROVE Saved(k, x)'
  <2>1. k = n /\ d = sync[n] /\ e = Written(x)
    BY <1>3, <1>9 DEF Saved
  <2>2. Telling(n, x)'
    <3>1. FileChanged(x) \in InFlight(Other(n)) => Telling(n, x)'
      BY <1>5, OtherNode DEF Telling
    <3>2. ASSUME x \notin recent[n], Noted(n, Written(x)) PROVE Telling(n, x)'
      BY <1>1, <1>3, <3>2 DEF Telling
    <3>3. ASSUME x \notin recent[n], <<sync[n], x>> \notin writing[n] PROVE Telling(n, x)'
      <4>1. disk[n][<<d, x>>] # Absent
        BY <1>9, <2>1 DEF Saved, Here
      <4>2. told
        BY <1>4, <1>7, <2>1, <3>3, <4>1
      <4> QED
        BY <1>1, <1>3, <2>1, <3>3, <4>2 DEF Telling
    <3> QED
      BY <1>9, <2>1, <3>1, <3>2, <3>3 DEF Saved, Telling
  <2> QED
    BY <1>1, <1>3, <1>5, <1>9, <2>1, <2>2, SameView DEF Saved, NoTransfers
<1>10. ASSUME NEW k \in Node, NEW x \in File, Unlinked(k, x) PROVE Unlinked(k, x)'
  <2>1. e = Removed(x)
    BY <1>3, <1>10 DEF Unlinked
  <2>2. ASSUME NEW f \in Dir[k], Awaits(k, f, Removed(x))
        PROVE  Awaits(k, f, Removed(x))' \/ Noted(k, Removed(x))'
    <3>1. deleting[k] = {}
      BY <1>10 DEF Unlinked
    <3>2. k = n => told
      BY <1>4, <1>7, <2>1, <3>1
    <3> QED
      BY <1>3, <2>1, <2>2, <3>2
  <2>3. Noted(k, Removed(x)) => Noted(k, Removed(x))'
    BY <1>3
  <2>4. Other(k) \in Node
    BY OtherNode
  <2>5. Here(Other(k), x)' # Absent =>
         \/ FileDeleted(x) \in InFlight(Other(k))'
         \/ Noted(k, Removed(x))'
         \/ \E f \in Dir[k] : Awaits(k, f, Removed(x))'
    BY <1>1, <1>5, <1>10, <2>2, <2>3, <2>4, SameView DEF Unlinked
  <2> QED
    BY <1>1, <1>3, <1>5, <1>10, <2>1, <2>5, SameView DEF Unlinked, NoTransfers
<1>11. ASSUME Spreading PROVE Spreading'
  <2>1. ASSUME NEW k \in Node, NEW x \in Name, Telling(k, x)'
        PROVE  Telling(k, x)
    <3>1. CASE Noted(k, Written(x))' /\ ~ Noted(k, Written(x)) /\ x \notin recent[k]
      <4>1. k = n /\ e = Written(x) /\ told
        BY <1>3, <3>1
      <4>2. d = sync[n]
        BY <1>3, <1>11 DEF Spreading, Unheard
      <4> QED
        BY <1>3, <1>4, <1>7, <3>1, <4>1, <4>2 DEF Telling
    <3>2. CASE ~ (Noted(k, Written(x))' /\ ~ Noted(k, Written(x)) /\ x \notin recent[k])
      BY <1>1, <1>3, <1>5, <2>1, <3>2, OtherNode DEF Telling
    <3> QED
      BY <3>1, <3>2
  <2>2. ASSUME NEW k \in Node
        PROVE  Clear(k)' /\ Told(k)' /\ Fed(k)' /\ TrueMail(k)' /\ TrueTransfers(k)' /\ Unheard(k)'
    <3>1. Other(k) \in Node
      BY OtherNode
    <3>2. Clear(k) /\ Told(k) /\ Fed(k) /\ TrueMail(k) /\ TrueTransfers(k) /\ Unheard(k)
      BY <1>11 DEF Spreading
    <3>3. Clear(k)' /\ Told(k)'
      BY <1>1, <2>1, <3>1, <3>2, SameView DEF Told
    <3>4. Fed(k)'
      BY <1>1, <1>5, <3>1, <3>2, SameView DEF Fed, Coming
    <3>5. TrueMail(k)' /\ TrueTransfers(k)'
      BY <1>1, <1>5, <3>2, SameView DEF TrueMail, TrueTransfers
    <3>6. Unheard(k)'
      <4>1. told /\ k = n => e.kind = "write"
        BY <1>3, <1>4, <1>7, <3>2 DEF Unheard
      <4> QED
        BY <1>1, <1>3, <3>2, <4>1 DEF Unheard
    <3> QED
      BY <3>3, <3>4, <3>5, <3>6
  <2> QED
    BY <1>1, <1>11, <2>2, SameView DEF Spreading
<1> QED
  BY <1>1, <1>6, <1>8, <1>9, <1>10, <1>11 DEF InTurns

LEMMA AnnounceTurns ==
  ASSUME Types, Posted, InTurns, NEW n \in Node, Announce(n)
  PROVE  Types' /\ Posted' /\ InTurns'
<1> DEFINE o == Other(n)
<1>1. o \in Node /\ o # n /\ Other(o) = n /\ \A k \in Node : k = n \/ k = o
  BY OtherNode
<1>2. /\ Types'
      /\ UNCHANGED <<disk, sync, watchers, writing, deleting, active>>
  BY AnnounceStep
<1>3. PICK e \in Event :
        /\ Noted(n, e)
        /\ \A k \in Node : \A a : Noted(k, a)' => Noted(k, a)
        /\ \A k \in Node : \A a : Noted(k, a) /\ ~ (k = n /\ a = e) => Noted(k, a)'
        /\ \/ /\ e.kind = "remove"
              /\ recent' = [recent EXCEPT ![n] = @ \ {e.file}]
              /\ net' = Sent(n, {FileDeleted(e.file)})
           \/ /\ e.kind = "write" /\ e.file \in recent[n]
              /\ UNCHANGED <<recent, net>>
           \/ /\ e.kind = "write" /\ e.file \notin recent[n]
              /\ recent' = [recent EXCEPT ![n] = @ \cup {e.file}]
              /\ net' = Sent(n, {FileChanged(e.file)})
  BY AnnounceStep
<1> DEFINE x == e.file
           c == FileChanged(x)
           r == FileDeleted(x)
<1>4. /\ x \in Name
      /\ e.kind = "write" => e = Written(x)
      /\ e.kind = "remove" => e = Removed(x)
  BY EventForm
<1>5. /\ c.type = "FileChanged" /\ c.file = x
      /\ r.type = "FileDeleted" /\ r.file = x
      /\ \A z : FileChanged(z).type = "FileChanged" /\ FileChanged(z).file = z
      /\ \A z : FileDeleted(z).type = "FileDeleted"
      /\ \A z : Written(z).kind = "write" /\ Removed(z).kind = "remove"
      /\ \A y, z : Written(y) = Written(z) => y = z
  BY Harmless DEF Written, Removed
<1>6. /\ DOMAIN net = Node /\ DOMAIN recent = Node
      /\ \A k \in Node : IsABag(net[k])
      /\ \A k \in Node : \A m \in InFlight(k) :
           m.type = "FileChanged" =>
             m = FileChanged(m.file) /\ m.file \in recent[Other(k)] /\ net[k][m] = 1
  BY DEF Types, Posted
<1>7. \A k \in Node : \A d, a : Awaits(k, d, a)' <=> Awaits(k, d, a)
  BY <1>2 DEF Awaits
<1>8. ~ Alone
  BY <1>3 DEF Alone
<1> HIDE DEF x, c, r, o
\* A notice of a change that was announced a moment ago.
<1>9. CASE e.kind = "write" /\ x \in recent[n]
  <2>1. UNCHANGED <<recent, net>>
    BY <1>3, <1>9 DEF x
  <2>2. \A k \in Node : InFlight(k)' = InFlight(k)
    BY <2>1 DEF InFlight
  <2>3. Posted'
    BY <2>1, <2>2, OtherNode DEF Posted
  <2>4. \A k \in Node, y \in Name : Telling(k, y)' <=> Telling(k, y)
    <3>1. ASSUME NEW k \in Node, NEW y \in Name, y \notin recent[k]
          PROVE  Noted(k, Written(y))' <=> Noted(k, Written(y))
      BY <1>3, <1>4, <1>5, <1>9, <3>1
    <3> QED
      BY <1>2, <1>7, <2>1, <2>2, <3>1, OtherNode DEF Telling
  <2>5. ASSUME NEW k \in Node, NEW z \in File, Saved(k, z) PROVE Saved(k, z)'
    <3>1. z \in Name
      BY NameAssumption
    <3> QED
      BY <1>2, <1>3, <1>7, <2>2, <2>4, <2>5, <3>1, SameView DEF Saved, NoTransfers
  <2>6. ASSUME NEW k \in Node, NEW z \in File, Unlinked(k, z) PROVE FALSE
    BY <1>3, <1>5, <1>9, <2>6 DEF Unlinked
  <2>7. ASSUME Spreading PROVE Spreading'
    <3>1. ASSUME NEW k \in Node
          PROVE  Clear(k)' /\ Told(k)' /\ Fed(k)' /\ TrueMail(k)' /\ TrueTransfers(k)' /\ Unheard(k)'
      <4>1. Clear(k) /\ Told(k) /\ Fed(k) /\ TrueMail(k) /\ TrueTransfers(k) /\ Unheard(k)
            /\ Other(k) \in Node
        BY <2>7, OtherNode DEF Spreading
      <4>2. Clear(k)' /\ Told(k)' /\ Fed(k)' /\ TrueMail(k)' /\ TrueTransfers(k)'
        BY <1>2, <2>2, <2>4, <4>1, SameView DEF Told, Fed, Coming, TrueMail, TrueTransfers
      <4>3. Unheard(k)'
        BY <1>2, <1>3, <1>7, <4>1 DEF Unheard
      <4> QED
        BY <4>2, <4>3
    <3> QED
      BY <1>2, <2>7, <3>1, SameView DEF Spreading
  <2> QED
    BY <1>2, <1>8, <2>3, <2>5, <2>6, <2>7 DEF InTurns
\* A change is announced.
<1>10. CASE e.kind = "write" /\ x \notin recent[n]
  <2>1. recent' = [recent EXCEPT ![n] = @ \cup {x}] /\ net' = Sent(n, {c})
    BY <1>3, <1>10 DEF x, c
  <2>2. c \notin InFlight(o)
    BY <1>1, <1>5, <1>6, <1>10
  <2>3. /\ DOMAIN net' = Node /\ \A k \in Node : IsABag(net'[k])
        /\ net'[n] = net[n] /\ InFlight(n)' = InFlight(n)
        /\ InFlight(o)' = InFlight(o) \cup {c}
        /\ \A m \in InFlight(o) : net'[o][m] = net[o][m]
        /\ net'[o][c] = 1
    <3> DEFINE S == {c}
    <3>1. net' = Sent(n, S) /\ S \cap InFlight(o) = {}
      BY <2>1, <2>2
    <3> HIDE DEF S
    <3>2. /\ DOMAIN net' = Node /\ \A k \in Node : IsABag(net'[k])
          /\ net'[n] = net[n] /\ InFlight(n)' = InFlight(n)
          /\ InFlight(o)' = InFlight(o) \cup S
          /\ \A m \in InFlight(o) \ S : net'[o][m] = net[o][m]
          /\ \A m \in S \ InFlight(o) : net'[o][m] = 1
      BY <1>6, <3>1, SentMail DEF o
    <3>3. c \in S /\ S = {c}
      BY DEF S
    <3> QED
      BY <2>2, <3>2, <3>3
  <2>4. /\ DOMAIN recent' = Node /\ recent'[n] = recent[n] \cup {x} /\ recent'[o] = recent[o]
    BY <1>1, <1>6, <2>1
  <2>5. Posted'
    <3>1. ASSUME NEW m \in InFlight(n)', m.type = "FileChanged"
          PROVE  m = FileChanged(m.file) /\ m.file \in recent'[o] /\ net'[n][m] = 1
      BY <1>1, <1>6, <2>3, <2>4, <3>1 DEF o
    <3>2. ASSUME NEW m \in InFlight(o)', m.type = "FileChanged"
          PROVE  m = FileChanged(m.file) /\ m.file \in recent'[n] /\ net'[o][m] = 1
      <4>1. CASE m = c
        BY <1>5, <2>3, <2>4, <4>1 DEF c
      <4>2. CASE m \in InFlight(o)
        BY <1>1, <1>6, <2>3, <2>4, <3>2, <4>2
      <4> QED
        BY <2>3, <4>1, <4>2
    <3>3. Other(n) = o
      BY DEF o
    <3> QED
      BY <1>1, <2>3, <2>4, <3>1, <3>2, <3>3 DEF Posted
  <2>6. e = Written(x)
    BY <1>4, <1>10
  <2>7. Telling(n, x) /\ Telling(n, x)'
    BY <1>3, <1>10, <2>3, <2>6 DEF Telling, o, c
  <2>8. ASSUME NEW k \in Node, NEW y \in Name, Telling(k, y)' PROVE Telling(k, y)
    <3>1. CASE k = n /\ y = x
      BY <2>7, <3>1
    <3>2. CASE ~ (k = n /\ y = x)
      <4>1. FileChanged(y) \in InFlight(Other(k))' => FileChanged(y) \in InFlight(Other(k))
        <5>1. k = n => FileChanged(y) # c
          BY <1>5, <3>2
        <5>2. k = n \/ (k = o /\ Other(k) = n)
          BY <1>1
        <5> QED
          BY <1>1, <2>3, <5>1, <5>2 DEF o
      <4>2. y \notin recent'[k] => y \notin recent[k]
        BY <1>1, <2>4
      <4> QED
        BY <1>2, <1>3, <1>7, <2>8, <4>1, <4>2 DEF Telling
    <3> QED
      BY <3>1, <3>2
  <2>9. ASSUME NEW k \in Node, NEW z \in File, Saved(k, z) PROVE Saved(k, z)'
    <3>1. k = n /\ z = x
      BY <1>3, <1>5, <2>6, <2>9 DEF Saved
    <3>2. /\ \A m \in InFlight(o)' : m = c
          /\ \A m \in InFlight(n)' : FALSE
      BY <1>1, <2>3, <2>9, <3>1 DEF Saved, c, o
    <3>3. \A j \in Node : \A m \in InFlight(j)' : j = Other(k) /\ m = FileChanged(z)
      BY <1>1, <3>1, <3>2 DEF c, o
    <3> QED
      BY <1>2, <1>3, <1>7, <2>7, <2>9, <3>1, <3>3, SameView DEF Saved, NoTransfers
  <2>10. ASSUME NEW k \in Node, NEW z \in File, Unlinked(k, z) PROVE FALSE
    BY <1>3, <1>5, <1>10, <2>10 DEF Unlinked
  <2>11. ASSUME Spreading PROVE Spreading'
    <3>1. ASSUME NEW k \in Node
          PROVE  Clear(k)' /\ Told(k)' /\ Fed(k)' /\ TrueMail(k)' /\ TrueTransfers(k)' /\ Unheard(k)'
      <4>1. Clear(k) /\ Told(k) /\ Fed(k) /\ TrueMail(k) /\ TrueTransfers(k) /\ Unheard(k)
            /\ Other(k) \in Node
        BY <2>11, OtherNode DEF Spreading
      <4>2. Clear(k)' /\ Told(k)'
        BY <1>2, <2>8, <4>1, SameView DEF Told
      <4>3. \A j \in Node : InFlight(j) \subseteq InFlight(j)'
                            /\ InFlight(j)' \subseteq InFlight(j) \cup {c}
        BY <1>1, <2>3
      <4>4. Fed(k)'
        BY <1>2, <4>1, <4>3, SameView DEF Fed, Coming
      <4>5. TrueMail(k)' /\ TrueTransfers(k)'
        BY <1>2, <1>5, <4>1, <4>3, SameView DEF TrueMail, TrueTransfers
      <4>6. Unheard(k)'
        BY <1>2, <1>3, <1>7, <4>1 DEF Unheard
      <4> QED
        BY <4>2, <4>4, <4>5, <4>6
    <3> QED
      BY <1>2, <2>11, <3>1, SameView DEF Spreading
  <2> QED
    BY <1>2, <1>8, <2>5, <2>9, <2>10, <2>11 DEF InTurns
\* A removal is announced.
<1>11. CASE e.kind = "remove"
  <2>1. recent' = [recent EXCEPT ![n] = @ \ {x}] /\ net' = Sent(n, {r})
    BY <1>3, <1>11 DEF x, r
  <2>2. /\ DOMAIN net' = Node /\ \A k \in Node : IsABag(net'[k])
        /\ InFlight(n)' = InFlight(n)
        /\ InFlight(o)' = InFlight(o) \cup {r}
    <3> DEFINE S == {r}
    <3>1. net' = Sent(n, S)
      BY <2>1
    <3> HIDE DEF S
    <3>2. /\ DOMAIN net' = Node /\ \A k \in Node : IsABag(net'[k])
          /\ InFlight(n)' = InFlight(n)
          /\ InFlight(o)' = InFlight(o) \cup S
      BY <1>6, <3>1, SentMail DEF o
    <3> QED
      BY <3>2 DEF S
  <2>3. DOMAIN recent' = Node
    BY <1>6, <2>1
  <2>4. ~ Spreading
    BY <1>3, <1>11 DEF Spreading, Unheard
  <2>5. ASSUME NEW k \in Node, NEW z \in File, Saved(k, z) PROVE FALSE
    BY <1>3, <1>5, <1>11, <2>5 DEF Saved
  <2>6. ASSUME NEW k \in Node, NEW z \in File, Unlinked(k, z) PROVE Posted' /\ Unlinked(k, z)'
    <3>1. e = Removed(z) /\ z = x /\ r = FileDeleted(z)
      BY <1>3, <2>6 DEF Unlinked, Removed, x, r
    <3>2. \A j \in Node : \A m \in InFlight(j)' : m = FileDeleted(z)
      BY <1>1, <2>2, <2>6, <3>1 DEF Unlinked
    <3>3. Posted'
      BY <1>5, <2>2, <2>3, <3>2 DEF Posted
    <3>4. \/ FileDeleted(z) \in InFlight(Other(k)) \/ Noted(k, Removed(z))
             \/ \E d \in Dir[k] : Awaits(k, d, Removed(z))
          => \/ FileDeleted(z) \in InFlight(Other(k))' \/ Noted(k, Removed(z))'
             \/ \E d \in Dir[k] : Awaits(k, d, Removed(z))'
      <4>1. CASE k = n
        BY <2>2, <3>1, <4>1 DEF o
      <4>2. CASE k = o
        BY <1>1, <1>3, <1>7, <2>2, <4>2
      <4> QED
        BY <1>1, <4>1, <4>2
    <3>5. Other(k) \in Node
      BY OtherNode
    <3> QED
      BY <1>2, <1>3, <1>7, <2>6, <3>2, <3>3, <3>4, <3>5, SameView DEF Unlinked, NoTransfers
  <2> QED
    BY <1>2, <1>8, <2>4, <2>5, <2>6 DEF InTurns
<1> QED
  BY <1>9, <1>10, <1>11, EventForm

-----------------------------------------------------------------------------
(* In turns: messages.                                                      *)

\* A message is taken, and others are sent, none of them a change.
LEMMA MailPosted ==
  ASSUME Types, Posted, NEW n \in Node, NEW m \in InFlight(n), NEW S,
         net' = Handled(n, m, S), UNCHANGED recent,
         \A r \in S : r.type # "FileChanged"
  PROVE  /\ Posted'
         /\ m.type = "FileChanged" => m \notin InFlight(n)'
         /\ InFlight(n)' \subseteq InFlight(n)
         /\ \A r \in InFlight(n) : r # m => r \in InFlight(n)'
         /\ InFlight(Other(n))' = InFlight(Other(n)) \cup S
<1> DEFINE o == Other(n)
<1>1. o \in Node /\ o # n /\ Other(o) = n /\ \A k \in Node : k = n \/ k = o
  BY OtherNode
<1>2. /\ DOMAIN net = Node /\ DOMAIN recent = Node
      /\ \A k \in Node : IsABag(net[k])
      /\ \A k \in Node : \A r \in InFlight(k) :
           r.type = "FileChanged" =>
             r = FileChanged(r.file) /\ r.file \in recent[Other(k)] /\ net[k][r] = 1
  BY DEF Types, Posted
<1>3. /\ DOMAIN net' = Node
      /\ \A k \in Node : IsABag(net'[k])
      /\ InFlight(n)' \subseteq InFlight(n)
      /\ \A r \in InFlight(n) : r # m => r \in InFlight(n)' /\ net'[n][r] = net[n][r]
      /\ net[n][m] = 1 => m \notin InFlight(n)'
      /\ InFlight(o)' = InFlight(o) \cup S
      /\ \A r \in InFlight(o) \ S : net'[o][r] = net[o][r]
  BY <1>2, HandledMail
<1>4. m.type = "FileChanged" => m \notin InFlight(n)'
  BY <1>2, <1>3
<1> HIDE DEF o
<1>5. ASSUME NEW k \in Node, NEW r \in InFlight(k)', r.type = "FileChanged"
      PROVE  r = FileChanged(r.file) /\ r.file \in recent'[Other(k)] /\ net'[k][r] = 1
  <2>1. CASE k = n
    BY <1>2, <1>3, <1>4, <1>5, <2>1
  <2>2. CASE k = o
    BY <1>2, <1>3, <1>5, <2>2
  <2> QED
    BY <1>1, <2>1, <2>2
<1>6. Posted'
  BY <1>2, <1>3, <1>5 DEF Posted
<1> QED
  BY <1>3, <1>4, <1>6 DEF o

\* Messages that only make the nodes ask and offer.
LEMMA CalmTurns ==
  ASSUME Types, Posted, InTurns, NEW n \in Node, NEW m \in InFlight(n),
         \/ OnAnnouncement(n, m) \/ OnManifestRequest(n, m) \/ OnChunkRequest(n, m)
         \/ DropManifest(n, m) \/ RefuseChunk(n, m)
  PROVE  Types' /\ Posted' /\ InTurns'
<1> DEFINE o == Other(n)
           offer == [x \in Offered(n) |-> Here(n, x)]
<1>1. o \in Node /\ o # n /\ Other(o) = n /\ \A k \in Node : k = n \/ k = o
  BY OtherNode
<1>2. Types' /\ UNCHANGED <<disk, sync, watchers, notices, writing, deleting, recent, active>>
  BY CalmMessage DEF OnAnnouncement, OnManifestRequest, OnChunkRequest, DropManifest, RefuseChunk,
                     queues, marks
<1>3. /\ DOMAIN offer = Offered(n) /\ \A x \in Offered(n) : offer[x] = Here(n, x)
      /\ Manifest(offer).type = "Manifest" /\ Manifest(offer).files = offer
  <2> HIDE DEF offer
  <2>1. Manifest(offer).type = "Manifest" /\ Manifest(offer).files = offer
    BY Harmless
  <2> QED
    BY <2>1 DEF offer
<1> HIDE DEF offer
<1>4. PICK S :
        /\ net' = Handled(n, m, S)
        /\ \/ m.type \in {"FolderAnnouncement", "ManifestRequest", "ChunkRequest", "ChunkResponse"}
           \/ m.type = "Manifest" /\ sync[n] = None
        /\ m.type = "FolderAnnouncement" => ManifestRequest \in S
        /\ m.type = "ManifestRequest" /\ sync[n] # None /\ Offered(n) # {} => Manifest(offer) \in S
        /\ \A r \in S :
             \/ r.type = "Manifest" /\ r = Manifest(offer) /\ sync[n] # None
             \/ r.type \in {"ManifestRequest", "ChunkRequest", "ChunkResponse"}
        /\ m.type \in {"FolderAnnouncement", "ManifestRequest", "Manifest"} =>
             \A r \in S : r.type \in {"Manifest", "ManifestRequest"}
  <2>1. CASE OnAnnouncement(n, m)
    BY <2>1, Harmless DEF OnAnnouncement
  <2>2. CASE OnManifestRequest(n, m)
    BY <1>3, <2>2 DEF OnManifestRequest, offer
  <2>3. CASE OnChunkRequest(n, m)
    BY <2>3, Harmless DEF OnChunkRequest
  <2>4. CASE DropManifest(n, m)
    BY <2>4 DEF DropManifest
  <2>5. CASE RefuseChunk(n, m)
    BY <2>5, Harmless DEF RefuseChunk
  <2> QED
    BY <2>1, <2>2, <2>3, <2>4, <2>5
<1>5. /\ Posted'
      /\ InFlight(n)' \subseteq InFlight(n)
      /\ \A r \in InFlight(n) : r # m => r \in InFlight(n)'
      /\ InFlight(o)' = InFlight(o) \cup S
  BY <1>2, <1>4, MailPosted
<1> HIDE DEF o
<1>6. /\ \A k \in Node : \A e : Noted(k, e)' <=> Noted(k, e)
      /\ \A k \in Node : \A d, e : Awaits(k, d, e)' <=> Awaits(k, d, e)
  BY <1>2 DEF Noted, Awaits
<1>7. ASSUME Alone PROVE Alone'
  <2>1. \A k \in Node : \A r \in InFlight(k) :
          \/ r.type \in {"FolderAnnouncement", "ManifestRequest"}
          \/ r.type = "Manifest" /\ sync[k] = None
    BY <1>7 DEF Alone
  <2>2. \A r \in S : \/ r.type = "ManifestRequest"
                     \/ r.type = "Manifest" /\ sync[n] # None
    BY <1>4, <2>1
  <2>3. sync[n] # None => sync[o] = None
    BY <1>1, <1>7 DEF Alone
  <2>4. \A k \in Node : \A r \in InFlight(k)' :
          \/ r.type \in {"FolderAnnouncement", "ManifestRequest"}
          \/ r.type = "Manifest" /\ sync[k] = None
    BY <1>1, <1>5, <2>1, <2>2, <2>3
  <2> QED
    BY <1>2, <1>6, <1>7, <2>4 DEF Alone, NoTransfers
<1>8. ASSUME NEW k \in Node, NEW x \in File, Saved(k, x) \/ Unlinked(k, x) PROVE FALSE
  <2>1. m = FileChanged(x) \/ m = FileDeleted(x)
    BY <1>8 DEF Saved, Unlinked
  <2>2. m.type \in {"FileChanged", "FileDeleted"}
    BY <2>1, Harmless
  <2> QED
    BY <1>4, <2>2
<1>9. ASSUME Spreading PROVE Spreading'
  <2>1. \A k \in Node : \A x : FileChanged(x) \in InFlight(k)' => FileChanged(x) \in InFlight(k)
    BY <1>1, <1>4, <1>5, Harmless
  <2>2. \A k \in Node, x \in Name : Telling(k, x)' => Telling(k, x)
    BY <1>2, <1>6, <2>1, OtherNode DEF Telling
  <2>3. \A x \in Offered(n) : offer[x] = Goal(x) /\ Goal(x) # Absent
    <3>1. Clear(n)
      BY <1>9 DEF Spreading
    <3> QED
      BY <1>3, <3>1 DEF Offered, Clear
  <2>4. ASSUME NEW x \in Name, Here(n, x) = Absent, Here(o, x) # Absent, Coming(n, x)
        PROVE  Coming(n, x)'
    <3>1. CASE FolderAnnouncement \in InFlight(n)
      <4>1. m = FolderAnnouncement => ManifestRequest \in InFlight(o)'
        BY <1>4, <1>5, Harmless
      <4> QED
        BY <1>5, <3>1, <4>1 DEF Coming, o
    <3>2. CASE ManifestRequest \in InFlight(o)
      BY <1>5, <3>2 DEF Coming, o
    <3>3. CASE \E r \in InFlight(n) : r.type = "Manifest" /\ x \in DOMAIN r.files
      <4>1. sync[n] # None
        BY <1>9 DEF Spreading, Paired
      <4> QED
        BY <1>4, <1>5, <3>3, <4>1 DEF Coming
    <3> QED
      BY <1>2, <2>4, <3>1, <3>2, <3>3 DEF Coming, o
  <2>5. ASSUME NEW x \in Name, Here(o, x) = Absent, Here(n, x) # Absent, Coming(o, x)
        PROVE  Coming(o, x)'
    <3>1. CASE ManifestRequest \in InFlight(n)
      <4>1. x \in Offered(n) /\ sync[n] # None
        BY <1>9, <2>5 DEF Spreading, Paired, Offered
      <4>2. m = ManifestRequest => Manifest(offer) \in InFlight(o)'
        BY <1>4, <1>5, <4>1, Harmless
      <4> QED
        BY <1>1, <1>3, <1>5, <3>1, <4>1, <4>2 DEF Coming
    <3>2. CASE ManifestRequest \notin InFlight(n)
      BY <1>1, <1>2, <1>5, <2>5, <3>2 DEF Coming
    <3> QED
      BY <3>1, <3>2
  <2>6. ASSUME NEW k \in Node
        PROVE  Clear(k)' /\ Told(k)' /\ Fed(k)' /\ TrueMail(k)' /\ TrueTransfers(k)' /\ Unheard(k)'
    <3>1. Clear(k) /\ Told(k) /\ Fed(k) /\ TrueMail(k) /\ TrueTransfers(k) /\ Unheard(k)
          /\ Other(k) \in Node
      BY <1>9, OtherNode DEF Spreading
    <3>2. Clear(k)' /\ Told(k)'
      BY <1>2, <2>2, <3>1, SameView DEF Told
    <3>3. Fed(k)'
      <4>1. k = n \/ k = o
        BY <1>1
      <4>2. \A x \in Name : Here(k, x) = Absent /\ Here(Other(k), x) # Absent => Coming(k, x)'
        BY <1>1, <2>4, <2>5, <3>1, <4>1 DEF Fed, o
      <4> QED
        BY <1>2, <4>2, SameView DEF Fed
    <3>4. TrueMail(k)'
      <4>1. ASSUME NEW r \in InFlight(k)'
            PROVE  /\ r.type # "FileDeleted"
                   /\ r.type = "Manifest" =>
                        \A x \in DOMAIN r.files : r.files[x] = Goal(x) /\ Goal(x) # Absent
        <5>1. CASE r \in InFlight(k)
          BY <3>1, <5>1 DEF TrueMail
        <5>2. CASE r \in S
          BY <1>3, <1>4, <2>3, <5>2
        <5> QED
          BY <1>1, <1>5, <4>1, <5>1, <5>2
      <4> QED
        BY <1>2, <4>1, SameView DEF TrueMail
    <3>5. TrueTransfers(k)' /\ Unheard(k)'
      BY <1>2, <1>6, <3>1, SameView DEF TrueTransfers, Unheard
    <3> QED
      BY <3>2, <3>3, <3>4, <3>5
  <2> QED
    BY <1>2, <1>9, <2>6, SameView DEF Spreading
<1> QED
  BY <1>2, <1>5, <1>7, <1>8, <1>9 DEF InTurns

LEMMA StallTurns ==
  ASSUME Types, Posted, InTurns, NEW n \in Node, NEW x \in Name, CheckStalls(n, x)
  PROVE  Types' /\ Posted' /\ InTurns'
<1> DEFINE o == Other(n)
           c == ChunkRequest(x)
           S == {c}
<1>1. o \in Node /\ o # n /\ Other(o) = n /\ \A k \in Node : k = n \/ k = o
  BY OtherNode
<1>2. Types' /\ UNCHANGED <<disk, sync, watchers, notices, writing, deleting, recent, active>>
  BY CalmStall DEF CheckStalls, queues, marks
<1>3. net' = Sent(n, S) /\ x \in DOMAIN active[n]
  BY DEF CheckStalls
<1>4. c.type = "ChunkRequest" /\ \A z : FileChanged(z).type = "FileChanged"
  BY Harmless
<1>5. /\ DOMAIN net = Node /\ DOMAIN recent = Node
      /\ \A k \in Node : IsABag(net[k])
      /\ \A k \in Node : \A r \in InFlight(k) :
           r.type = "FileChanged" =>
             r = FileChanged(r.file) /\ r.file \in recent[Other(k)] /\ net[k][r] = 1
  BY DEF Types, Posted
<1> HIDE DEF c
<1>6. S = {c} /\ c \in S
  OBVIOUS
<1> HIDE DEF S
<1>7. /\ \A k \in Node : IsABag(net'[k])
      /\ net'[n] = net[n] /\ InFlight(n)' = InFlight(n)
      /\ InFlight(o)' = InFlight(o) \cup S
      /\ \A r \in InFlight(o) \ S : net'[o][r] = net[o][r]
  BY <1>3, <1>5, SentMail
<1> HIDE DEF o
<1>8. Posted'
  <2>1. ASSUME NEW k \in Node, NEW r \in InFlight(k)', r.type = "FileChanged"
        PROVE  r = FileChanged(r.file) /\ r.file \in recent'[Other(k)] /\ net'[k][r] = 1
    <3>1. CASE k = n
      BY <1>2, <1>5, <1>7, <2>1, <3>1
    <3>2. CASE k = o
      <4>1. r \in InFlight(o) \ S
        BY <1>4, <1>6, <1>7, <2>1, <3>2
      <4> QED
        BY <1>1, <1>2, <1>5, <1>7, <2>1, <3>2, <4>1
    <3> QED
      BY <1>1, <3>1, <3>2
  <2> QED
    BY <1>2, <1>5, <1>7, <2>1 DEF Posted
<1>9. /\ \A k \in Node : \A e : Noted(k, e)' <=> Noted(k, e)
      /\ \A k \in Node : \A d, e : Awaits(k, d, e)' <=> Awaits(k, d, e)
  BY <1>2 DEF Noted, Awaits
<1>10. ~ NoTransfers
  BY <1>3 DEF NoTransfers
<1>11. Spreading
  BY <1>10 DEF InTurns, Alone, Saved, Unlinked
<1>12. \A k \in Node : /\ InFlight(k) \subseteq InFlight(k)'
                       /\ InFlight(k)' \subseteq InFlight(k) \cup {c}
  BY <1>1, <1>6, <1>7
<1>13. \A k \in Node, z \in Name : Telling(k, z)' => Telling(k, z)
  BY <1>2, <1>4, <1>9, <1>12, OtherNode DEF Telling
<1>14. ASSUME NEW k \in Node
       PROVE  Clear(k)' /\ Told(k)' /\ Fed(k)' /\ TrueMail(k)' /\ TrueTransfers(k)' /\ Unheard(k)'
  <2>1. Clear(k) /\ Told(k) /\ Fed(k) /\ TrueMail(k) /\ TrueTransfers(k) /\ Unheard(k)
        /\ Other(k) \in Node
    BY <1>11, OtherNode DEF Spreading
  <2>2. Clear(k)' /\ Told(k)'
    BY <1>2, <1>13, <2>1, SameView DEF Told
  <2>3. Fed(k)'
    BY <1>2, <1>12, <2>1, SameView DEF Fed, Coming
  <2>4. TrueMail(k)'
    BY <1>2, <1>4, <1>12, <2>1, SameView DEF TrueMail
  <2>5. TrueTransfers(k)' /\ Unheard(k)'
    BY <1>2, <1>9, <2>1, SameView DEF TrueTransfers, Unheard
  <2> QED
    BY <2>2, <2>3, <2>4, <2>5
<1>15. Spreading'
  BY <1>2, <1>11, <1>14, SameView DEF Spreading
<1> QED
  BY <1>2, <1>8, <1>15 DEF InTurns

\* A copy that goes: what is seen of the folders, and by watchers.
LEMMA GoneStep ==
  ASSUME Types, UNCHANGED sync, NEW n \in Node, sync[n] # None, NEW x \in Name, Gone(n, x)
  PROVE  /\ DOMAIN disk' = Node /\ \A k \in Node : DOMAIN disk'[k] = Path(k)
         /\ \A k \in Node, y \in Name :
              Here(k, y)' = IF k = n /\ y = x THEN Absent ELSE Here(k, y)
         /\ DOMAIN watchers' = Node
         /\ \A k \in Node : watchers'[k] \in Seq(WatcherType(k))
         /\ \A k \in Node : \A f, e :
              Awaits(k, f, e)' => Awaits(k, f, e) \/ (k = n /\ f = sync[n] /\ e = Removed(x))
         /\ \A k \in Node : \A f, e : Awaits(k, f, e) => Awaits(k, f, e)'
<1> DEFINE es == <<Removed(x)>>
           q == <<sync[n], x>>
<1>1. /\ disk' = [disk EXCEPT ![n][q] = Absent]
      /\ watchers' = watchers \/ watchers' = Noticed(n, sync[n], es)
  BY DEF Gone
<1>2. es \in Seq(Event) /\ \A i \in DOMAIN es : es[i] = Removed(x)
  BY SingleEvents
<1> HIDE DEF es
<1>3. \A y \in Name : <<sync[n], y>> \in Path(n)
  BY DEF Types, Path
<1>4. /\ DOMAIN disk' = Node /\ \A k \in Node : DOMAIN disk'[k] = Path(k)
      /\ \A k \in Node : k # n => disk'[k] = disk[k]
      /\ \A p \in Path(n) : disk'[n][p] = IF p = q THEN Absent ELSE disk[n][p]
  BY <1>1, <1>3 DEF Types
<1>5. \A k \in Node, y \in Name :
        Here(k, y)' = IF k = n /\ y = x THEN Absent ELSE Here(k, y)
  BY <1>3, <1>4 DEF Here
<1>6. CASE watchers' = watchers
  <2>1. /\ DOMAIN watchers' = Node
        /\ \A k \in Node : watchers'[k] \in Seq(WatcherType(k))
    BY <1>6 DEF Types, WatcherType
  <2>2. \A k \in Node : \A f, e : Awaits(k, f, e)' <=> Awaits(k, f, e)
    BY <1>6 DEF Awaits
  <2> QED
    BY <1>4, <1>5, <2>1, <2>2
<1>7. CASE watchers' = Noticed(n, sync[n], es)
  <2>1. /\ DOMAIN watchers' = Node
        /\ \A k \in Node : watchers'[k] \in Seq(WatcherType(k))
        /\ \A k \in Node : \A f, e :
             Awaits(k, f, e)' => \/ Awaits(k, f, e)
                                 \/ k = n /\ f = sync[n] /\ \E i \in DOMAIN es : es[i] = e
    BY <1>2, <1>7, NoticedWatchers
  <2>2. \A k \in Node : \A f, e : Awaits(k, f, e) => Awaits(k, f, e)'
    BY <1>2, <1>7, NoticedKept
  <2>3. \A k \in Node : \A f, e :
          Awaits(k, f, e)' => Awaits(k, f, e) \/ (k = n /\ f = sync[n] /\ e = Removed(x))
    BY <1>2, <2>1
  <2> QED
    BY <1>4, <1>5, <2>1, <2>2, <2>3
<1> QED
  BY <1>1, <1>6, <1>7

\* The removal of the last copy.
LEMMA DeleteTurns ==
  ASSUME Types, Posted, InTurns, NEW n \in Node, NEW m \in InFlight(n), OnFileDeleted(n, m)
  PROVE  Types' /\ Posted' /\ InTurns'
<1>1. m.type = "FileDeleted"
  BY DEF OnFileDeleted
<1>2. ~ Alone /\ ~ Spreading
  BY <1>1 DEF Alone, Spreading, TrueMail
<1>3. \A k \in Node, x \in File : ~ Saved(k, x)
  BY <1>1, Harmless DEF Saved
<1>4. PICK k \in Node, x \in File : Unlinked(k, x)
  BY <1>2, <1>3 DEF InTurns
<1>5. m = FileDeleted(x) /\ m.file = x /\ x \in Name /\ sync[n] # None
  BY <1>4, Harmless, NameAssumption DEF Unlinked, Paired
<1>6. /\ UNCHANGED <<mine, sync, notices, writing, deleting, recent, active>>
      /\ Gone(n, x) /\ net' = Handled(n, m, {})
  BY <1>1, <1>5 DEF OnFileDeleted, marks, history, Reaction
<1>7. /\ Posted'
      /\ InFlight(n)' \subseteq InFlight(n)
      /\ InFlight(Other(n))' = InFlight(Other(n))
  <2> DEFINE S == {}
  <2>1. net' = Handled(n, m, S) /\ (\A r \in S : r.type # "FileChanged") /\ UNCHANGED recent
    BY <1>6
  <2>2. S = {}
    OBVIOUS
  <2> HIDE DEF S
  <2>3. /\ Posted'
        /\ InFlight(n)' \subseteq InFlight(n)
        /\ InFlight(Other(n))' = InFlight(Other(n)) \cup S
    BY <2>1, MailPosted
  <2> QED
    BY <2>2, <2>3
<1>8. /\ DOMAIN disk' = Node /\ \A j \in Node : DOMAIN disk'[j] = Path(j)
      /\ \A j \in Node, y \in Name :
           Here(j, y)' = IF j = n /\ y = x THEN Absent ELSE Here(j, y)
      /\ DOMAIN watchers' = Node
      /\ \A j \in Node : watchers'[j] \in Seq(WatcherType(j))
      /\ \A j \in Node : \A f, e :
           Awaits(j, f, e)' => Awaits(j, f, e) \/ (j = n /\ f = sync[n] /\ e = Removed(x))
      /\ \A j \in Node : \A f, e : Awaits(j, f, e) => Awaits(j, f, e)'
  BY <1>5, <1>6, GoneStep
<1>9. /\ Other(n) \in Node /\ Other(n) # n /\ \A j \in Node : j = n \/ j = Other(n)
      /\ \A j \in Node : Other(j) \in Node
  BY OtherNode
<1>10. \A j \in Node : InFlight(j)' \subseteq InFlight(j)
  BY <1>7, <1>9
<1>11. DOMAIN net' = Node
  BY <1>6 DEF Types, Handled
<1>12. Types'
  <2>1. \A j \in Node : \A r \in InFlight(j)' : IsMessage(r)
    BY <1>10 DEF Types
  <2> QED
    BY <1>6, <1>8, <1>11, <2>1 DEF Types, IsTransfers, WatcherType, IsMessage, Path
<1>13. \A j \in Node : \A e : Noted(j, e)' <=> Noted(j, e)
  BY <1>6 DEF Noted
<1>14. AgreeBut(x)'
  <2>1. AgreeBut(x) /\ NodeA \in Node /\ NodeB \in Node
    BY <1>4 DEF Unlinked, Node
  <2> QED
    BY <1>8, <2>1 DEF AgreeBut
<1>15. Here(k, x)' = Absent
  BY <1>4, <1>5, <1>8 DEF Unlinked
<1>16. ASSUME Here(Other(k), x)' # Absent
       PROVE  \/ FileDeleted(x) \in InFlight(Other(k))'
              \/ Noted(k, Removed(x))'
              \/ \E d \in Dir[k] : Awaits(k, d, Removed(x))'
  <2>1. Other(k) # n /\ Here(Other(k), x) # Absent
    BY <1>5, <1>8, <1>9, <1>16
  <2>2. Other(n) # n /\ (k = n \/ k = Other(n)) /\ Other(Other(n)) = n
    BY OtherNode
  <2>3. k = n
    BY <2>1, <2>2
  <2> QED
    BY <1>4, <1>7, <1>8, <1>13, <2>1, <2>3 DEF Unlinked
<1>17. Unlinked(k, x)'
  BY <1>4, <1>6, <1>8, <1>10, <1>13, <1>14, <1>15, <1>16 DEF Unlinked, Paired, NoTransfers
<1> QED
  BY <1>7, <1>12, <1>17 DEF InTurns

\* What the notice of a change does at the node that takes it.
LEMMA ChangeStep ==
  ASSUME Types, Posted, Paired, NEW n \in Node, NEW m \in InFlight(n), OnFileChanged(n, m)
  PROVE  LET x == m.file
             o == Other(n)
         IN /\ Types' /\ Posted'
            /\ UNCHANGED <<sync, writing, recent, active>>
            /\ x \in Name /\ m = FileChanged(x) /\ x \in recent[o]
            /\ \A k \in Node, y \in Name :
                 Here(k, y)' = IF k = n /\ y = x THEN Absent ELSE Here(k, y)
            /\ \A k \in Node : deleting[k] \subseteq deleting'[k]
            /\ <<sync[n], x>> \in deleting'[n]
            /\ \A k \in Node : \A e : Noted(k, e)' <=> Noted(k, e)
            /\ \A k \in Node : \A f, e :
                 Awaits(k, f, e)' => Awaits(k, f, e) \/ (k = n /\ f = sync[n] /\ e = Removed(x))
            /\ InFlight(n)' = InFlight(n) \ {m}
            /\ InFlight(o)' = InFlight(o) \cup {ManifestRequest}
<1> DEFINE x == m.file
           o == Other(n)
<1>1. m.type = "FileChanged" /\ sync[n] # None
  BY DEF OnFileChanged, Paired
<1>2. /\ UNCHANGED <<mine, sync, notices, writing, recent, active>>
      /\ deleting' = [deleting EXCEPT ![n] = @ \cup {<<sync[n], x>>}]
      /\ Gone(n, x)
      /\ net' = Handled(n, m, {ManifestRequest})
  BY <1>1 DEF OnFileChanged, history, Reaction
<1>3. x \in Name /\ m = FileChanged(x) /\ x \in recent[o]
  BY <1>1 DEF Types, IsMessage, Posted
<1>4. /\ DOMAIN deleting' = Node
      /\ \A k \in Node : deleting[k] \subseteq deleting'[k]
      /\ <<sync[n], x>> \in deleting'[n]
  BY <1>2 DEF Types
<1>5. /\ Posted'
      /\ InFlight(n)' = InFlight(n) \ {m}
      /\ InFlight(o)' = InFlight(o) \cup {ManifestRequest}
  <2> DEFINE S == {ManifestRequest}
  <2>1. net' = Handled(n, m, S) /\ (\A r \in S : r.type # "FileChanged") /\ UNCHANGED recent
    BY <1>2, Harmless
  <2>2. S = {ManifestRequest}
    OBVIOUS
  <2> HIDE DEF S
  <2>3. /\ Posted'
        /\ m \notin InFlight(n)'
        /\ InFlight(n)' \subseteq InFlight(n)
        /\ \A r \in InFlight(n) : r # m => r \in InFlight(n)'
        /\ InFlight(o)' = InFlight(o) \cup S
    BY <1>1, <2>1, MailPosted
  <2> QED
    BY <2>2, <2>3
<1> HIDE DEF x, o
<1>6. /\ DOMAIN disk' = Node /\ \A j \in Node : DOMAIN disk'[j] = Path(j)
      /\ \A j \in Node, y \in Name :
           Here(j, y)' = IF j = n /\ y = x THEN Absent ELSE Here(j, y)
      /\ DOMAIN watchers' = Node
      /\ \A j \in Node : watchers'[j] \in Seq(WatcherType(j))
      /\ \A j \in Node : \A f, e :
           Awaits(j, f, e)' => Awaits(j, f, e) \/ (j = n /\ f = sync[n] /\ e = Removed(x))
  BY <1>1, <1>2, <1>3, GoneStep
<1>7. \A k \in Node : \A e : Noted(k, e)' <=> Noted(k, e)
  BY <1>2 DEF Noted
<1>8. DOMAIN net' = Node
  BY <1>2 DEF Types, Handled
<1>9. \A k \in Node : \A r \in InFlight(k)' : IsMessage(r)
  <2>1. \A k \in Node : k = n \/ k = o
    BY OtherNode DEF o
  <2>2. IsMessage(ManifestRequest)
    BY Harmless DEF IsMessage
  <2> QED
    BY <1>5, <2>1, <2>2 DEF Types
<1>10. Types'
  BY <1>2, <1>4, <1>6, <1>8, <1>9 DEF Types, IsTransfers, WatcherType, IsMessage, Path
<1> QED
  BY <1>2, <1>3, <1>4, <1>5, <1>6, <1>7, <1>10 DEF x, o

LEMMA ChangeTurns ==
  ASSUME Types, Posted, InTurns, NEW n \in Node, NEW m \in InFlight(n), OnFileChanged(n, m)
  PROVE  Types' /\ Posted' /\ InTurns'
<1> DEFINE x == m.file
           o == Other(n)
<1>1. o \in Node /\ o # n /\ Other(o) = n /\ \A k \in Node : k = n \/ k = o
  BY OtherNode
<1>2. m.type = "FileChanged"
  BY DEF OnFileChanged
<1>3. ~ Alone /\ \A k \in Node, y \in File : ~ Unlinked(k, y)
  BY <1>2, Harmless DEF Alone, Unlinked
<1>4. Paired
  BY <1>3 DEF InTurns, Saved, Spreading
<1>5. /\ Types' /\ Posted'
      /\ UNCHANGED <<sync, writing, recent, active>>
      /\ x \in Name /\ m = FileChanged(x) /\ x \in recent[o]
      /\ \A k \in Node, y \in Name :
           Here(k, y)' = IF k = n /\ y = x THEN Absent ELSE Here(k, y)
      /\ \A k \in Node : deleting[k] \subseteq deleting'[k]
      /\ <<sync[n], x>> \in deleting'[n]
      /\ \A k \in Node : \A e : Noted(k, e)' <=> Noted(k, e)
      /\ \A k \in Node : \A f, e :
           Awaits(k, f, e)' => Awaits(k, f, e) \/ (k = n /\ f = sync[n] /\ e = Removed(x))
      /\ InFlight(n)' = InFlight(n) \ {m}
      /\ InFlight(o)' = InFlight(o) \cup {ManifestRequest}
  BY <1>4, ChangeStep
<1>6. Paired'
  BY <1>4, <1>5 DEF Paired
<1>7. /\ ManifestRequest.type = "ManifestRequest" /\ FolderAnnouncement.type = "FolderAnnouncement"
      /\ \A y : FileChanged(y).type = "FileChanged" /\ FileChanged(y).file = y
      /\ \A y : /\ Written(y).kind = "write" /\ Written(y).file = y
                /\ Removed(y).kind = "remove" /\ Removed(y).file = y
  BY Harmless DEF Written, Removed
<1> HIDE DEF x, o
<1>8. ASSUME NEW k \in Node, NEW y \in Name, Telling(k, y)'
      PROVE  Telling(k, y) /\ ~ (k = o /\ y = x)
  <2>1. FileChanged(y) \in InFlight(Other(k))' =>
          FileChanged(y) \in InFlight(Other(k)) /\ ~ (k = o /\ y = x)
    BY <1>1, <1>5, <1>7 DEF o
  <2>2. Awaits(k, sync[k], Written(y))' => Awaits(k, sync[k], Written(y))
    BY <1>5, <1>7
  <2>3. y \notin recent[k] => ~ (k = o /\ y = x)
    BY <1>5
  <2> QED
    BY <1>5, <1>8, <2>1, <2>2, <2>3 DEF Telling
<1>9. \A k \in Node, y \in Name :
        (Here(n, y)' = Absent /\ Here(o, y)' # Absent) => Coming(n, y)'
  BY <1>5 DEF Coming, o
<1>10. {n, o} = {NodeA, NodeB}
  BY <1>1 DEF Node
\* The first that the peer hears of what a user saved.
<1>11. ASSUME NEW k \in Node, NEW z \in File, Saved(k, z) PROVE Spreading'
  <2>0. n = Other(k) /\ m = FileChanged(z)
    BY <1>11 DEF Saved
  <2>1. k = o /\ z = x /\ k # n
    <3>1. FileChanged(z).file = z /\ FileChanged(x).file = x /\ m = FileChanged(x)
      BY <1>5, <1>7
    <3>2. z = x
      BY <2>0, <3>1
    <3>3. k # n
      BY <1>1, <2>0 DEF o
    <3> QED
      BY <1>1, <3>2, <3>3
  <2>2. \A y \in Name : y # x => Here(n, y)' = Here(o, y)'
    BY <1>1, <1>5, <1>10, <1>11, <2>1 DEF Saved, AgreeBut
  <2>3. Here(n, x)' = Absent /\ Here(o, x)' # Absent
    BY <1>1, <1>5, <1>11, <2>1 DEF Saved
  <2>4. InFlight(n)' = {} /\ InFlight(o)' = {ManifestRequest}
    BY <1>1, <1>5, <1>11, <2>1 DEF Saved
  <2>5. \A j \in Node, y \in Name : ~ Telling(j, y)'
    <3>1. \A y \in Name : Telling(o, y) => y = x
      BY <1>1, <1>5, <1>7, <1>11, <2>1 DEF Saved, Telling, Written
    <3>2. \A y \in Name : ~ Telling(n, y)
      <4>1. InFlight(o) = {}
        BY <1>1, <1>11, <2>0, <2>1 DEF Saved
      <4>2. (\A e : ~ Noted(n, e)) /\ \A d, e : ~ Awaits(n, d, e)
        BY <1>11, <2>1 DEF Saved
      <4> QED
        BY <4>1, <4>2 DEF Telling, o
    <3> QED
      BY <1>1, <1>8, <3>1, <3>2
  <2>6. \A j \in Node : Clear(j)'
    BY <1>1, <1>10, <2>2, <2>3 DEF Clear, Goal
  <2>7. \A j \in Node : Told(j)'
    BY <2>5 DEF Told
  <2>8. \A j \in Node : Fed(j)'
    <3>1. Fed(n)'
      BY <1>9, <1>1 DEF Fed, o
    <3>2. Fed(o)'
      BY <1>1, <2>2, <2>3 DEF Fed
    <3> QED
      BY <1>1, <3>1, <3>2
  <2>9. \A j \in Node : TrueMail(j)' /\ TrueTransfers(j)'
    BY <1>1, <1>5, <1>7, <1>11, <2>4 DEF TrueMail, TrueTransfers, Saved, NoTransfers
  <2>10. \A j \in Node : Unheard(j)'
    BY <1>1, <1>5, <1>7, <1>11, <2>1 DEF Unheard, Saved
  <2> QED
    BY <1>6, <2>6, <2>7, <2>8, <2>9, <2>10 DEF Spreading
\* A change on the way of spreading: the peer that told of it has the file.
<1>12. ASSUME Spreading PROVE Spreading'
  <2>1. Telling(o, x) /\ Told(o) /\ Clear(o) /\ Clear(n)
    BY <1>1, <1>5, <1>12 DEF Spreading, Telling
  <2>2. /\ Here(o, x) # Absent /\ Here(n, x) # Absent /\ ~ Telling(n, x)
        /\ Here(o, x) = Goal(x)
    BY <1>1, <1>5, <2>1 DEF Told, Clear
  <2>3. \A y \in Name : Goal(y)' = Goal(y)
    <3>1. Goal(x)' = Goal(x)
      BY <1>1, <1>5, <1>10, <2>2 DEF Goal
    <3>2. \A y \in Name : y # x => Here(NodeA, y)' = Here(NodeA, y) /\ Here(NodeB, y)' = Here(NodeB, y)
      BY <1>1, <1>5, <1>10
    <3> QED
      BY <3>1, <3>2 DEF Goal
  <2>4. ASSUME NEW k \in Node
        PROVE  Clear(k)' /\ Told(k)' /\ Fed(k)' /\ TrueMail(k)' /\ TrueTransfers(k)' /\ Unheard(k)'
    <3>1. Clear(k) /\ Told(k) /\ Fed(k) /\ TrueMail(k) /\ TrueTransfers(k) /\ Unheard(k)
          /\ Other(k) \in Node
      BY <1>12, OtherNode DEF Spreading
    <3>2. Clear(k)'
      BY <1>5, <2>3, <3>1 DEF Clear
    <3>3. Told(k)'
      <4>1. ASSUME NEW y \in Name, Telling(k, y)'
            PROVE  /\ Here(k, y)' # Absent /\ Here(Other(k), y)' # Absent
                   /\ ~ Telling(Other(k), y)'
        <5>1. Telling(k, y) /\ y # x
          BY <1>1, <1>8, <2>2, <4>1
        <5> QED
          BY <1>5, <1>8, <3>1, <5>1 DEF Told
      <4> QED
        BY <4>1 DEF Told
    <3>4. Fed(k)'
      <4>1. CASE k = n
        BY <1>9, <1>1, <4>1 DEF Fed, o
      <4>2. CASE k = o
        <5>1. ASSUME NEW y \in Name, Here(o, y)' = Absent, Here(n, y)' # Absent
              PROVE  Coming(o, y)'
          <6>1. Coming(o, y)
            BY <1>1, <1>5, <3>1, <4>2, <5>1 DEF Fed
          <6> QED
            BY <1>1, <1>2, <1>5, <1>7, <6>1 DEF Coming
        <5> QED
          BY <1>1, <4>2, <5>1 DEF Fed
      <4> QED
        BY <1>1, <4>1, <4>2
    <3>5. TrueMail(k)'
      <4>1. \A r \in InFlight(k)' : r \in InFlight(k) \/ r = ManifestRequest
        BY <1>1, <1>5
      <4>2. \A r \in InFlight(k) : r.type = "Manifest" => DOMAIN r.files \subseteq Name
        BY DEF Types, IsMessage
      <4> QED
        BY <1>7, <2>3, <3>1, <4>1, <4>2 DEF TrueMail
    <3>6. TrueTransfers(k)'
      <4>1. DOMAIN active[k] \subseteq Name
        BY DEF Types, IsTransfers
      <4> QED
        BY <1>5, <2>3, <3>1, <4>1 DEF TrueTransfers
    <3>7. Unheard(k)'
      BY <1>5, <1>7, <3>1 DEF Unheard
    <3> QED
      BY <3>2, <3>3, <3>4, <3>5, <3>6, <3>7
  <2> QED
    BY <1>6, <2>4 DEF Spreading
<1> QED
  BY <1>3, <1>5, <1>11, <1>12 DEF InTurns

\* What a manifest does at the node that takes it: what the folder holds under
\* another name (local) is written, the rest of what is wanted (asked) is
\* requested, in the messages S.
Fetched(n, m, local, asked, S) ==
    /\ Types' /\ Posted'
    /\ local \subseteq Name /\ asked \subseteq Name
    /\ m.type = "Manifest" /\ sync[n] # None
    /\ UNCHANGED <<sync, notices, writing, deleting, recent>>
    /\ local \cup asked = Wanted(n, m.files) /\ local \cap asked = {}
    /\ \A k \in Node, y \in Name :
         Here(k, y)' = IF k = n /\ y \in local THEN m.files[y] ELSE Here(k, y)
    /\ \A k \in Node : \A f, e :
         Awaits(k, f, e)' => \/ Awaits(k, f, e)
                             \/ k = n /\ f = sync[n] /\ \E y \in local : e = Written(y)
    /\ active'[Other(n)] = active[Other(n)]
    /\ DOMAIN active'[n] = DOMAIN active[n] \cup asked
    /\ \A y \in DOMAIN active[n] : active'[n][y] = active[n][y]
    /\ \A y \in asked : active'[n][y].hash = m.files[y] /\ active'[n][y].dir = sync[n]
    /\ \A r \in S : r.type = "ChunkRequest"
    /\ InFlight(n)' \subseteq InFlight(n)
    /\ \A r \in InFlight(n) : r # m => r \in InFlight(n)'
    /\ InFlight(Other(n))' = InFlight(Other(n)) \cup S

LEMMA ManifestStep ==
  ASSUME Types, Posted, NEW n \in Node, NEW m \in InFlight(n), OnManifest(n, m)
  PROVE  \E local, asked, S : Fetched(n, m, local, asked, S)
<1> DEFINE wanted == Wanted(n, m.files)
           local  == {x \in wanted : m.files[x] \in Holds(n)}
           asked  == wanted \ local
           S      == {ChunkRequest(x) : x \in asked}
           W      == {Written(x) : x \in local}
           es     == SetToSeq(W)
<1>1. /\ UNCHANGED <<sync, notices, writing, deleting, recent, mine>>
      /\ sync[n] # None /\ m.type = "Manifest"
      /\ net' = Handled(n, m, S)
      /\ watchers' = Noticed(n, sync[n], es)
      /\ disk' = [disk EXCEPT ![n] =
                    [p \in DOMAIN @ |-> IF p[1] = sync[n] /\ p[2] \in local
                                        THEN m.files[p[2]] ELSE @[p]]]
      /\ active' = [active EXCEPT ![n] =
                      [x \in DOMAIN @ \cup asked |->
                         IF x \in DOMAIN @ THEN @[x]
                         ELSE [hash |-> m.files[x], dir |-> sync[n]]]]
  BY DEF OnManifest, marks
<1>2. wanted \subseteq Name /\ \A x \in wanted : x \notin DOMAIN active[n]
  <2>1. DOMAIN m.files \subseteq Name
    BY <1>1 DEF Types, IsMessage
  <2> QED
    BY <2>1 DEF Wanted
<1>3. \A r \in S : r.type = "ChunkRequest" /\ IsMessage(r)
  BY Harmless DEF IsMessage
<1>4. /\ local \subseteq wanted /\ asked \subseteq wanted
      /\ local \cup asked = wanted /\ local \cap asked = {}
  OBVIOUS
<1>5. es \in Seq(Event) /\ \A i \in DOMAIN es : \E y \in local : es[i] = Written(y)
  <2>1. IsFiniteSet(W) /\ W \subseteq Event
    <3>1. IsFiniteSet(local) /\ local \subseteq Name
      BY <1>2, <1>4, NameAssumption, FS_Subset
    <3> HIDE DEF local
    <3>2. IsFiniteSet(W)
      <4> DEFINE f == [x \in local |-> Written(x)]
      <4>1. f \in Surjection(local, W)
        BY DEF Surjection
      <4> QED
        BY <3>1, <4>1, FS_Surjection
    <3>3. W \subseteq Event
      BY <3>1, SingleEvents
    <3> QED
      BY <3>2, <3>3
  <2> HIDE DEF W
  <2>2. es \in Seq(Event) /\ \A i \in DOMAIN es : es[i] \in W
    BY <2>1, SeqOfSet
  <2> HIDE DEF es
  <2> QED
    BY <2>2 DEF W
<1> HIDE DEF wanted, local, asked, S, W, es
<1>6. /\ DOMAIN watchers' = Node
      /\ \A k \in Node : watchers'[k] \in Seq(WatcherType(k))
      /\ \A k \in Node : \A f, e :
           Awaits(k, f, e)' => \/ Awaits(k, f, e)
                               \/ k = n /\ f = sync[n] /\ \E i \in DOMAIN es : es[i] = e
  BY <1>1, <1>5, NoticedWatchers
<1>7. \A k \in Node : \A f, e :
        Awaits(k, f, e)' => \/ Awaits(k, f, e)
                            \/ k = n /\ f = sync[n] /\ \E y \in local : e = Written(y)
  BY <1>5, <1>6
<1>8. /\ DOMAIN disk' = Node /\ \A k \in Node : DOMAIN disk'[k] = Path(k)
      /\ \A k \in Node : k # n => disk'[k] = disk[k]
      /\ \A p \in Path(n) :
           disk'[n][p] = IF p[1] = sync[n] /\ p[2] \in local THEN m.files[p[2]] ELSE disk[n][p]
  BY <1>1 DEF Types
<1>9. \A k \in Node, y \in Name :
        Here(k, y)' = IF k = n /\ y \in local THEN m.files[y] ELSE Here(k, y)
  <2>1. \A y \in Name : <<sync[n], y>> \in Path(n)
    BY <1>1 DEF Types, Path
  <2> QED
    BY <1>1, <1>8, <2>1 DEF Here
<1>10. /\ DOMAIN active' = Node
       /\ \A k \in Node : k # n => active'[k] = active[k]
       /\ DOMAIN active'[n] = DOMAIN active[n] \cup asked
       /\ \A y \in DOMAIN active[n] : active'[n][y] = active[n][y]
       /\ \A y \in asked : active'[n][y].hash = m.files[y] /\ active'[n][y].dir = sync[n]
  BY <1>1, <1>2, <1>4 DEF Types
<1>11. \A k \in Node : IsTransfers(k, active'[k])
  <2>1. IsTransfers(n, active[n]) /\ sync[n] \in Dir[n]
    BY <1>1 DEF Types
  <2>2. \A y \in asked : active'[n][y].dir = sync[n] /\ y \in Name
    BY <1>2, <1>4, <1>10
  <2>3. IsTransfers(n, active'[n])
    BY <1>10, <2>1, <2>2 DEF IsTransfers
  <2> QED
    BY <1>10, <2>3 DEF Types
<1>12. /\ Posted'
       /\ InFlight(n)' \subseteq InFlight(n)
       /\ \A r \in InFlight(n) : r # m => r \in InFlight(n)'
       /\ InFlight(Other(n))' = InFlight(Other(n)) \cup S
  BY <1>1, <1>3, MailPosted
<1>13. /\ DOMAIN net' = Node
       /\ \A k \in Node : \A r \in InFlight(k)' : IsMessage(r)
  <2>1. /\ DOMAIN net' = Node
        /\ \A k \in Node : \A r \in InFlight(k)' : r \in InFlight(k) \/ r \in S
    BY <1>1, HandledNet DEF Types
  <2> QED
    BY <1>3, <2>1 DEF Types
<1>14. Types'
  BY <1>1, <1>6, <1>8, <1>10, <1>11, <1>13
     DEF Types, IsTransfers, WatcherType, IsMessage, Path
<1>15. Other(n) \in Node /\ Other(n) # n
  BY OtherNode
<1>16. local \in SUBSET Name /\ asked \in SUBSET Name
  BY <1>2, <1>4
<1>17. local \cup asked = Wanted(n, m.files)
  BY <1>4 DEF wanted
<1>18. Fetched(n, m, local, asked, S)
  BY <1>1, <1>3, <1>4, <1>7, <1>9, <1>10, <1>12, <1>14, <1>15, <1>16, <1>17 DEF Fetched
<1> QED
  BY <1>18

LEMMA ManifestTurns ==
  ASSUME Types, Posted, InTurns, NEW n \in Node, NEW m \in InFlight(n), OnManifest(n, m)
  PROVE  Types' /\ Posted' /\ InTurns'
<1> DEFINE o == Other(n)
<1>1. o \in Node /\ o # n /\ Other(o) = n /\ \A k \in Node : k = n \/ k = o
  BY OtherNode
<1>0. PICK local, asked, S : Fetched(n, m, local, asked, S)
  BY ManifestStep
<1>2. /\ Types' /\ Posted'
      /\ local \subseteq Name /\ asked \subseteq Name
      /\ m.type = "Manifest" /\ sync[n] # None
      /\ UNCHANGED <<sync, notices, writing, deleting, recent>>
      /\ local \cup asked = Wanted(n, m.files) /\ local \cap asked = {}
      /\ \A k \in Node, y \in Name :
           Here(k, y)' = IF k = n /\ y \in local THEN m.files[y] ELSE Here(k, y)
      /\ \A k \in Node : \A f, e :
           Awaits(k, f, e)' => \/ Awaits(k, f, e)
                               \/ k = n /\ f = sync[n] /\ \E y \in local : e = Written(y)
      /\ active'[o] = active[o]
      /\ DOMAIN active'[n] = DOMAIN active[n] \cup asked
      /\ \A y \in DOMAIN active[n] : active'[n][y] = active[n][y]
      /\ \A y \in asked : active'[n][y].hash = m.files[y] /\ active'[n][y].dir = sync[n]
      /\ \A r \in S : r.type = "ChunkRequest"
      /\ InFlight(n)' \subseteq InFlight(n)
      /\ \A r \in InFlight(n) : r # m => r \in InFlight(n)'
      /\ InFlight(o)' = InFlight(o) \cup S
  BY <1>0 DEF Fetched
<1>3. Spreading
  BY <1>2, Harmless DEF InTurns, Alone, Saved, Unlinked
<1>4. /\ \A k \in Node : Clear(k) /\ Told(k) /\ Fed(k) /\ TrueMail(k) /\ TrueTransfers(k) /\ Unheard(k)
      /\ Paired
  BY <1>3 DEF Spreading
<1>5. {n, o} = {NodeA, NodeB}
  BY <1>1 DEF Node
<1>6. \A y \in local \cup asked :
        /\ y \in DOMAIN m.files /\ m.files[y] = Goal(y) /\ Goal(y) # Absent
        /\ Here(n, y) = Absent /\ Here(o, y) # Absent /\ y \notin DOMAIN active[n]
  <2>1. \A y \in local \cup asked :
          y \in DOMAIN m.files /\ Here(n, y) = Absent /\ y \notin DOMAIN active[n]
    BY <1>2 DEF Wanted
  <2>2. \A y \in DOMAIN m.files : m.files[y] = Goal(y) /\ Goal(y) # Absent
    BY <1>2, <1>4 DEF TrueMail
  <2>3. \A y : Here(n, y) = Absent /\ Goal(y) # Absent => Here(o, y) # Absent
    BY <1>5 DEF Goal
  <2> QED
    BY <2>1, <2>2, <2>3
<1> HIDE DEF o
<1>7. \A k \in Node, y \in Name :
        Here(k, y)' = IF k = n /\ y \in local THEN Goal(y) ELSE Here(k, y)
  BY <1>2, <1>6
<1>8. \A y \in Name : Goal(y)' = Goal(y)
  <2>1. ASSUME NEW y \in local PROVE Goal(y)' = Goal(y)
    <3>1. Here(n, y)' = Goal(y) /\ Here(o, y)' = Here(o, y) /\ Here(o, y) = Goal(y)
      BY <1>1, <1>2, <1>5, <1>6, <1>7 DEF Goal
    <3> QED
      BY <1>5, <3>1 DEF Goal
  <2>2. ASSUME NEW y \in Name \ local PROVE Goal(y)' = Goal(y)
    <3>1. Here(NodeA, y)' = Here(NodeA, y) /\ Here(NodeB, y)' = Here(NodeB, y)
      BY <1>7 DEF Node
    <3> QED
      BY <3>1 DEF Goal
  <2> QED
    BY <2>1, <2>2
<1>9. /\ ManifestRequest.type = "ManifestRequest" /\ FolderAnnouncement.type = "FolderAnnouncement"
      /\ \A y : FileChanged(y).type = "FileChanged"
      /\ \A y : Written(y).kind = "write" /\ Written(y).file = y
  BY Harmless DEF Written
<1>10. /\ \A k \in Node : \A e : Noted(k, e)' <=> Noted(k, e)
       /\ \A k \in Node : \A r \in InFlight(k)' : r \in InFlight(k) \/ r.type = "ChunkRequest"
       /\ \A k \in Node : \A r \in InFlight(k) : r # m => r \in InFlight(k)'
  BY <1>1, <1>2 DEF Noted
<1>11. ASSUME NEW k \in Node, NEW y \in Name, Telling(k, y)'
       PROVE  Telling(k, y) \/ (k = n /\ y \in local)
  <2>1. FileChanged(y) \in InFlight(Other(k))' => FileChanged(y) \in InFlight(Other(k))
    BY <1>9, <1>10, OtherNode
  <2>2. Awaits(k, sync[k], Written(y))' =>
          Awaits(k, sync[k], Written(y)) \/ (k = n /\ y \in local)
    <3>1. \A z \in local : Written(z) = Written(y) => z = y
      BY <1>9
    <3> QED
      BY <1>2, <3>1
  <2> QED
    BY <1>2, <1>10, <1>11, <2>1, <2>2 DEF Telling
<1>12. ASSUME NEW k \in Node, NEW y \in Name, Telling(k, y)'
       PROVE  /\ Here(k, y)' # Absent /\ Here(Other(k), y)' # Absent
              /\ ~ Telling(Other(k), y)'
  <2>1. CASE Telling(k, y)
    <3>1. Other(k) \in Node /\ Here(k, y) # Absent /\ Here(Other(k), y) # Absent /\ ~ Telling(Other(k), y)
      BY <1>4, <2>1, OtherNode DEF Told
    <3>2. ~ (Other(k) = n /\ y \in local)
      BY <1>6, <3>1
    <3>3. ~ Telling(Other(k), y)'
      BY <1>11, <3>1, <3>2
    <3> QED
      BY <1>6, <1>7, <3>1, <3>3
  <2>2. CASE k = n /\ y \in local
    <3>1. Here(n, y)' # Absent /\ Here(o, y)' # Absent
      BY <1>1, <1>6, <1>7, <2>2
    <3>2. ~ Telling(o, y)
      BY <1>1, <1>4, <1>6, <2>2 DEF Told
    <3>3. ~ Telling(o, y)'
      BY <1>1, <1>11, <3>2
    <3> QED
      BY <2>2, <3>1, <3>3 DEF o
  <2> QED
    BY <1>11, <1>12, <2>1, <2>2
<1>13. ASSUME NEW y \in Name, Here(n, y)' = Absent, Here(o, y)' # Absent
       PROVE  Coming(n, y)'
  <2>1. Here(n, y) = Absent /\ Here(o, y) # Absent /\ y \notin local
    BY <1>1, <1>6, <1>7, <1>13
  <2>2. Coming(n, y)
    BY <1>4, <2>1 DEF Fed, o
  <2>3. CASE y \in DOMAIN m.files
    <3>1. y \in DOMAIN active[n] \/ y \in Wanted(n, m.files)
      BY <2>1, <2>3 DEF Wanted
    <3>2. y \in DOMAIN active'[n]
      BY <1>2, <2>1, <3>1
    <3> QED
      BY <3>2 DEF Coming
  <2>4. CASE y \notin DOMAIN m.files
    <3>1. FolderAnnouncement \in InFlight(n) => FolderAnnouncement \in InFlight(n)'
      BY <1>2, <1>9
    <3>2. ManifestRequest \in InFlight(o) => ManifestRequest \in InFlight(o)'
      BY <1>2
    <3>3. \A r \in InFlight(n) : y \in DOMAIN r.files => r \in InFlight(n)'
      BY <1>2, <2>4
    <3> QED
      BY <1>2, <2>2, <3>1, <3>2, <3>3 DEF Coming, o
  <2> QED
    BY <2>3, <2>4
<1>14. ASSUME NEW y \in Name, Here(o, y)' = Absent, Here(n, y)' # Absent
       PROVE  Coming(o, y)'
  <2>1. Here(o, y) = Absent /\ Here(n, y) # Absent
    BY <1>1, <1>6, <1>7, <1>14
  <2>2. Coming(o, y)
    BY <1>1, <1>4, <2>1 DEF Fed
  <2>3. ManifestRequest \in InFlight(n) => ManifestRequest \in InFlight(n)'
    BY <1>2, <1>9
  <2>4. InFlight(o) \subseteq InFlight(o)'
    BY <1>2
  <2> QED
    BY <1>1, <1>2, <2>2, <2>3, <2>4 DEF Coming
<1>15. ASSUME NEW k \in Node
       PROVE  Clear(k)' /\ Told(k)' /\ Fed(k)' /\ TrueMail(k)' /\ TrueTransfers(k)' /\ Unheard(k)'
  <2>1. Clear(k)'
    BY <1>4, <1>7, <1>8 DEF Clear
  <2>2. Told(k)'
    BY <1>12 DEF Told
  <2>3. Fed(k)'
    <3>1. Fed(n)' /\ Fed(o)'
      BY <1>1, <1>13, <1>14 DEF Fed, o
    <3> QED
      BY <1>1, <3>1
  <2>4. TrueMail(k)'
    <3>1. \A r \in InFlight(k) : r.type = "Manifest" => DOMAIN r.files \subseteq Name
      BY DEF Types, IsMessage
    <3> QED
      BY <1>4, <1>8, <1>10, <3>1 DEF TrueMail
  <2>5. TrueTransfers(k)'
    <3>1. DOMAIN active[k] \subseteq Name
      BY DEF Types, IsTransfers
    <3>2. CASE k = o
      BY <1>2, <1>4, <1>8, <3>1, <3>2 DEF TrueTransfers
    <3>3. CASE k = n
      <4>1. ASSUME NEW y \in DOMAIN active'[n]
            PROVE  /\ active'[n][y].hash = Goal(y) /\ Goal(y) # Absent
                   /\ active'[n][y].dir = sync[n] /\ y \in Name
        <5>1. CASE y \in DOMAIN active[n]
          BY <1>2, <1>4, <3>1, <3>3, <5>1 DEF TrueTransfers
        <5>2. CASE y \in asked
          BY <1>2, <1>6, <5>2
        <5> QED
          BY <1>2, <4>1, <5>1, <5>2
      <4> QED
        BY <1>2, <1>8, <3>3, <4>1 DEF TrueTransfers
    <3> QED
      BY <1>1, <3>2, <3>3
  <2>6. Unheard(k)'
    BY <1>2, <1>4, <1>9, <1>10 DEF Unheard
  <2> QED
    BY <2>1, <2>2, <2>3, <2>4, <2>5, <2>6
<1>16. Paired'
  BY <1>2, <1>4 DEF Paired
<1> QED
  BY <1>2, <1>15, <1>16 DEF Spreading, InTurns

\* A file that arrives is what both are to have, and meets nothing else.
LEMMA WriteTurns ==
  ASSUME Types, Posted, InTurns, NEW n \in Node, NEW m \in InFlight(n), WriteFile(n, m)
  PROVE  Types' /\ Posted' /\ InTurns'
<1> DEFINE o == Other(n)
           f == m.file
           p == <<sync[n], f>>
           es == <<Written(f)>>
<1>1. o \in Node /\ o # n /\ Other(o) = n /\ \A k \in Node : k = n \/ k = o
  BY OtherNode
<1>2. /\ UNCHANGED <<sync, notices, deleting, recent, mine>>
      /\ m.type = "ChunkResponse" /\ f \in DOMAIN active[n] /\ m.data = active[n][f].hash
      /\ active' = [active EXCEPT ![n] = [x \in DOMAIN @ \ {f} |-> @[x]]]
      /\ net' = Handled(n, m, {})
  BY DEF WriteFile
<1>3. Spreading
  <2>1. ~ NoTransfers
    BY <1>2 DEF NoTransfers
  <2> QED
    BY <2>1 DEF InTurns, Alone, Saved, Unlinked
<1>4. /\ \A k \in Node : Clear(k) /\ Told(k) /\ Fed(k) /\ TrueMail(k) /\ TrueTransfers(k) /\ Unheard(k)
      /\ Paired
  BY <1>3 DEF Spreading
<1>5. {n, o} = {NodeA, NodeB}
  BY <1>1 DEF Node
<1>6. f \in Name /\ sync[n] \in Dir[n] /\ p \in Path(n) /\ \A y \in Name : <<sync[n], y>> \in Path(n)
  <2>1. sync[n] \in Dir[n] /\ f \in Name
    BY <1>2, <1>4 DEF Types, IsTransfers, Paired
  <2> QED
    BY <2>1 DEF Path
<1>7. /\ active[n][f].dir = sync[n] /\ m.data = Goal(f) /\ Goal(f) # Absent
      /\ disk[n][p] \in {Absent, m.data}
  <2>1. active[n][f].dir = sync[n] /\ m.data = Goal(f) /\ Goal(f) # Absent
    BY <1>2, <1>4 DEF TrueTransfers
  <2>2. Here(n, f) \in {Goal(f), Absent}
    BY <1>4, <1>6 DEF Clear
  <2> QED
    BY <2>1, <2>2 DEF Here
<1>8. /\ writing' = [writing EXCEPT ![n] = @ \cup {p}]
      /\ disk' = [disk EXCEPT ![n][p] = m.data]
      /\ watchers' = Noticed(n, sync[n], es)
  BY <1>7 DEF WriteFile
<1>9. /\ es \in Seq(Event) /\ \A i \in DOMAIN es : es[i] = Written(f)
      /\ \A y : Written(y).kind = "write" /\ Written(y).file = y
  BY <1>6, SingleEvents DEF Written
<1>10. /\ Posted'
       /\ InFlight(n)' \subseteq InFlight(n)
       /\ \A r \in InFlight(n) : r # m => r \in InFlight(n)'
       /\ InFlight(o)' = InFlight(o)
  <2> DEFINE S == {}
  <2>1. net' = Handled(n, m, S) /\ (\A r \in S : r.type # "FileChanged") /\ UNCHANGED recent
    BY <1>2
  <2>2. S = {}
    OBVIOUS
  <2> HIDE DEF S
  <2>3. /\ Posted'
        /\ InFlight(n)' \subseteq InFlight(n)
        /\ \A r \in InFlight(n) : r # m => r \in InFlight(n)'
        /\ InFlight(o)' = InFlight(o) \cup S
    BY <2>1, MailPosted
  <2> QED
    BY <2>2, <2>3
<1> HIDE DEF o, f, es
<1>11. /\ DOMAIN watchers' = Node
       /\ \A k \in Node : watchers'[k] \in Seq(WatcherType(k))
       /\ \A k \in Node : \A g, e :
            Awaits(k, g, e)' => Awaits(k, g, e) \/ (k = n /\ g = sync[n] /\ e = Written(f))
  <2>1. /\ DOMAIN watchers' = Node
        /\ \A k \in Node : watchers'[k] \in Seq(WatcherType(k))
        /\ \A k \in Node : \A g, e :
             Awaits(k, g, e)' => \/ Awaits(k, g, e)
                                 \/ k = n /\ g = sync[n] /\ \E i \in DOMAIN es : es[i] = e
    BY <1>8, <1>9, NoticedWatchers
  <2> QED
    BY <1>9, <2>1
<1>12. /\ DOMAIN disk' = Node /\ \A k \in Node : DOMAIN disk'[k] = Path(k)
       /\ \A k \in Node : k # n => disk'[k] = disk[k]
       /\ \A q \in Path(n) : disk'[n][q] = IF q = p THEN m.data ELSE disk[n][q]
  BY <1>6, <1>8 DEF Types
<1>13. \A k \in Node, y \in Name :
         Here(k, y)' = IF k = n /\ y = f THEN Goal(f) ELSE Here(k, y)
  BY <1>2, <1>6, <1>7, <1>12 DEF Here
<1>14. /\ DOMAIN active' = Node
       /\ \A k \in Node : k # n => active'[k] = active[k]
       /\ DOMAIN active'[n] = DOMAIN active[n] \ {f}
       /\ \A y \in DOMAIN active[n] \ {f} : active'[n][y] = active[n][y]
  BY <1>2 DEF Types
<1>15. \A k \in Node : IsTransfers(k, active'[k])
  <2>1. IsTransfers(n, active[n])
    BY DEF Types
  <2>2. IsTransfers(n, active'[n])
    BY <1>14, <2>1 DEF IsTransfers
  <2> QED
    BY <1>14, <2>2 DEF Types
<1>16. /\ DOMAIN writing' = Node /\ p \in writing'[n]
       /\ \A k \in Node : writing[k] \subseteq writing'[k]
  BY <1>8 DEF Types
<1>17. \A k \in Node : /\ InFlight(k)' \subseteq InFlight(k)
                       /\ \A r \in InFlight(k) : r # m => r \in InFlight(k)'
  BY <1>1, <1>10
<1>18. Types'
  <2>1. DOMAIN net' = Node
    BY <1>2 DEF Types, Handled
  <2>2. \A k \in Node : \A r \in InFlight(k)' : IsMessage(r)
    BY <1>17 DEF Types
  <2> QED
    BY <1>2, <1>11, <1>12, <1>14, <1>15, <1>16, <2>1, <2>2
       DEF Types, IsTransfers, WatcherType, IsMessage, Path
<1>19. \A y \in Name : Goal(y)' = Goal(y)
  <2>1. Goal(f)' = Goal(f)
    BY <1>1, <1>5, <1>6, <1>7, <1>13 DEF Goal
  <2>2. ASSUME NEW y \in Name \ {f} PROVE Goal(y)' = Goal(y)
    <3>1. Here(NodeA, y)' = Here(NodeA, y) /\ Here(NodeB, y)' = Here(NodeB, y)
      BY <1>13 DEF Node
    <3> QED
      BY <3>1 DEF Goal
  <2> QED
    BY <2>1, <2>2
<1>20. \A k \in Node, y \in Name : Telling(k, y)' => Telling(k, y)
  <2>1. ASSUME NEW k \in Node, NEW y \in Name, Awaits(k, sync[k], Written(y))',
               <<sync[k], y>> \notin writing'[k]
        PROVE  Awaits(k, sync[k], Written(y)) /\ <<sync[k], y>> \notin writing[k]
    <3>1. ~ (k = n /\ Written(y) = Written(f))
      <4>1. Written(y) = Written(f) => y = f
        BY <1>9
      <4> QED
        BY <1>16, <2>1, <4>1
    <3> QED
      BY <1>2, <1>11, <1>16, <2>1, <3>1
  <2> QED
    BY <1>2, <1>17, <2>1, OtherNode DEF Telling, Noted
<1>21. \A k \in Node, y \in Name : Here(k, y) # Absent => Here(k, y)' # Absent
  BY <1>7, <1>13
<1>22. FolderAnnouncement # m /\ ManifestRequest # m
  BY <1>2, Harmless
<1>23. ASSUME NEW k \in Node, NEW y \in Name, Coming(k, y), ~ (k = n /\ y = f)
       PROVE  Coming(k, y)'
  <2>1. FolderAnnouncement \in InFlight(k) => FolderAnnouncement \in InFlight(k)'
    BY <1>17, <1>22
  <2>2. ManifestRequest \in InFlight(Other(k)) => ManifestRequest \in InFlight(Other(k))'
    BY <1>17, <1>22, OtherNode
  <2>3. \A r \in InFlight(k) : r.type = "Manifest" => r \in InFlight(k)'
    BY <1>2, <1>17
  <2>4. y \in DOMAIN active[k] => y \in DOMAIN active'[k]
    BY <1>14, <1>23
  <2> QED
    BY <1>23, <2>1, <2>2, <2>3, <2>4 DEF Coming
<1>24. ASSUME NEW k \in Node
       PROVE  Clear(k)' /\ Told(k)' /\ Fed(k)' /\ TrueMail(k)' /\ TrueTransfers(k)' /\ Unheard(k)'
  <2>1. Clear(k) /\ Told(k) /\ Fed(k) /\ TrueMail(k) /\ TrueTransfers(k) /\ Unheard(k)
        /\ Other(k) \in Node
    BY <1>4, OtherNode
  <2>2. Clear(k)'
    BY <1>13, <1>19, <2>1 DEF Clear
  <2>3. Told(k)'
    BY <1>20, <1>21, <2>1 DEF Told
  <2>4. Fed(k)'
    <3>1. ASSUME NEW y \in Name, Here(k, y)' = Absent, Here(Other(k), y)' # Absent
          PROVE  Coming(k, y)'
      <4>1. Here(k, y) = Absent /\ ~ (k = n /\ y = f)
        BY <1>7, <1>13, <3>1
      <4>2. Here(Other(k), y) # Absent
        <5>1. CASE Other(k) = n /\ y = f
          <6>1. {k, Other(k)} = {NodeA, NodeB}
            BY OtherNode DEF Node
          <6> QED
            BY <1>7, <4>1, <5>1, <6>1 DEF Goal
        <5>2. CASE ~ (Other(k) = n /\ y = f)
          BY <1>13, <2>1, <3>1, <5>2
        <5> QED
          BY <5>1, <5>2
      <4> QED
        BY <1>23, <2>1, <4>1, <4>2 DEF Fed
    <3> QED
      BY <3>1 DEF Fed
  <2>5. TrueMail(k)'
    <3>1. \A r \in InFlight(k) : r.type = "Manifest" => DOMAIN r.files \subseteq Name
      BY DEF Types, IsMessage
    <3> QED
      BY <1>17, <1>19, <2>1, <3>1 DEF TrueMail
  <2>6. TrueTransfers(k)'
    <3>1. DOMAIN active[k] \subseteq Name
      BY DEF Types, IsTransfers
    <3>2. DOMAIN active'[k] \subseteq DOMAIN active[k]
          /\ \A y \in DOMAIN active'[k] : active'[k][y] = active[k][y]
      BY <1>14
    <3> QED
      BY <1>2, <1>19, <2>1, <3>1, <3>2 DEF TrueTransfers
  <2>7. Unheard(k)'
    BY <1>2, <1>9, <1>11, <2>1 DEF Unheard, Noted
  <2> QED
    BY <2>2, <2>3, <2>4, <2>5, <2>6, <2>7
<1>25. Paired'
  BY <1>2, <1>4 DEF Paired
<1> QED
  BY <1>10, <1>18, <1>24, <1>25 DEF Spreading, InTurns

-----------------------------------------------------------------------------
(* In turns: every step.                                                    *)

LEMMA TurnsNext ==
  ASSUME TurnsInv, [Next]_vars PROVE TurnsInv'
<1>1. CASE UNCHANGED vars
  <2>1. /\ UNCHANGED <<disk, mine, sync, watchers, notices, writing, deleting, recent, active, net>>
        /\ upset' = upset
    BY <1>1 DEF vars, queues, marks, history
  <2>2. \A k \in Node : InFlight(k)' = InFlight(k)
    BY <2>1 DEF InFlight
  <2>3. ASSUME Types, Posted, InTurns PROVE Types' /\ Posted' /\ InTurns'
    <3>1. DOMAIN net' = Node
      BY <2>1, <2>3 DEF Types
    <3>2. Types'
      BY <2>1, <2>2, <2>3, <3>1, CalmTypes
    <3>3. Posted'
      BY <2>1, <2>2, <2>3, OtherNode DEF Posted
    <3>4. /\ \A k \in Node : \A e : Noted(k, e)' <=> Noted(k, e)
          /\ \A k \in Node : \A d, e : Awaits(k, d, e)' <=> Awaits(k, d, e)
      BY <2>1 DEF Noted, Awaits
    <3>5. \A k \in Node, x \in Name : Telling(k, x)' <=> Telling(k, x)
      BY <2>1, <2>2, <3>4, OtherNode DEF Telling
    <3>6. InTurns'
      BY <2>1, <2>2, <2>3, <3>4, <3>5, Unseen
    <3> QED
      BY <3>2, <3>3, <3>6
  <2> QED
    BY <2>1, <2>3 DEF TurnsInv
<1>2. ASSUME Next, "crossing" \notin upset' PROVE Types' /\ Posted' /\ InTurns'
  <2>1. Types /\ Posted /\ InTurns
    BY <1>2, UpsetKept DEF TurnsInv
  <2>2. PICK n \in Node : Work(n) \/ Windows(n) \/ User(n)
    BY <1>2 DEF Next
  <2>3. CASE \E w \in DOMAIN watchers[n] : Watch(n, w)
    BY <2>1, <2>3, WatchTurns
  <2>4. CASE Announce(n)
    BY <2>1, <2>4, AnnounceTurns
  <2>5. CASE \E m \in InFlight(n) : OnMessage(n, m)
    <3>1. PICK m \in InFlight(n) : OnMessage(n, m)
      BY <2>5
    <3>2. CASE OnManifest(n, m)
      BY <2>1, <3>2, ManifestTurns
    <3>3. CASE WriteFile(n, m)
      BY <2>1, <3>3, WriteTurns
    <3>4. CASE OnFileChanged(n, m)
      BY <2>1, <3>4, ChangeTurns
    <3>5. CASE OnFileDeleted(n, m)
      BY <2>1, <3>5, DeleteTurns
    <3>6. CASE \/ OnAnnouncement(n, m) \/ OnManifestRequest(n, m) \/ OnChunkRequest(n, m)
               \/ DropManifest(n, m) \/ RefuseChunk(n, m)
      BY <2>1, <3>6, CalmTurns
    <3> QED
      BY <3>1, <3>2, <3>3, <3>4, <3>5, <3>6 DEF OnMessage
  <2>6. CASE \E x \in Name : CheckStalls(n, x)
    BY <2>1, <2>6, StallTurns
  <2>7. CASE Windows(n)
    BY <2>1, <2>7, WindowsTurns
  <2>8. CASE User(n)
    <3>1. PICK d \in Dir[n] : \/ SetFolder(n, d)
                              \/ \E x \in File : Unlink(n, d, x) \/ \E c \in Content : Save(n, d, x, c)
      BY <2>8 DEF User
    <3>2. CASE SetFolder(n, d)
      BY <1>2, <2>1, <3>2, SetFolderTurns
    <3>3. ASSUME NEW x \in File, Unlink(n, d, x) PROVE Types' /\ Posted' /\ InTurns'
      <4>1. Removed(x) \in Event
        BY NameAssumption, SingleEvents
      <4>2. /\ InTurn(n, d) /\ Edited(n, d, x, Absent, Removed(x))
            /\ \E w \in DOMAIN watchers[n] : watchers[n][w].dir = d
        BY <1>2, <3>3 DEF Unlink, Blame, Edited, marks
      <4> QED
        BY <2>1, <4>1, <4>2, EditTurns
    <3>4. ASSUME NEW x \in File, NEW c \in Content, Save(n, d, x, c)
          PROVE  Types' /\ Posted' /\ InTurns'
      <4>1. Written(x) \in Event /\ c # Absent
        BY NameAssumption, NoneAssumption, SingleEvents
      <4>2. /\ InTurn(n, d) /\ Edited(n, d, x, c, Written(x))
            /\ \E w \in DOMAIN watchers[n] : watchers[n][w].dir = d
        BY <1>2, <3>4 DEF Save, Blame, Edited, marks
      <4> QED
        BY <2>1, <4>1, <4>2, EditTurns
    <3> QED
      BY <3>1, <3>2, <3>3, <3>4
  <2> QED
    BY <2>2, <2>3, <2>4, <2>5, <2>6, <2>7, <2>8 DEF Work
<1> QED
  BY <1>1, <1>2 DEF TurnsInv

\* When users take turns, the two folders are the same whenever nothing is on
\* its way, for any folders, names, contents and number of acts: every save,
\* removal and new folder reaches the other side, and no echo of the nodes' own
\* writes and removals undoes it (handler.rs, the notices and the manifests;
\* watcher.rs, the two marks; main.rs, the five seconds).
THEOREM SettledAgreeHolds == Spec => []SettledAgree
<1>1. TurnsInv => SettledAgree
  BY RestAgrees DEF TurnsInv, SettledAgree, Paired
<1> QED
  BY <1>1, TurnsInit, TurnsNext, PTL DEF Spec

=============================================================================
