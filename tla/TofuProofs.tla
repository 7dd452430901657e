----------------------------- MODULE TofuProofs -----------------------------
(***************************************************************************)
(* Proofs about the key exchange of module Tofu: the node whose user is    *)
(* asked never holds a key without that user's consent, for every number   *)
(* of connections, losses, restarts, denials and revocations; every key is *)
(* derived from the pairs of two sides; and both nodes hold the same key   *)
(* when no exchange is going on, until a connection comes up beside        *)
(* another, a message is lost or an old prompt approved.                   *)
(***************************************************************************)
EXTENDS Tofu, FiniteSetTheorems, TLAPS

Maps == /\ DOMAIN key = Node
        /\ DOMAIN store = Node
        /\ DOMAIN secret = Node
        /\ DOMAIN trust = Node

\* The node with the higher id never begins an exchange.
HigherWaits == secret[Higher] = None

\* What is in memory may have come from the store, and the store survives a
\* restart: consent covers both.
KeysApproved ==
    key[Higher] # None \/ store[Higher] # None => trust[Higher] = "approved"

ConsentInv == Maps /\ HigherWaits /\ KeysApproved

LEMMA ConsentInit == Init => ConsentInv
  <1>1. SUFFICES ASSUME Init PROVE ConsentInv
    OBVIOUS
  <1>2. Higher \in Node
    BY DEF Node
  <1>3. Maps
    BY <1>1 DEF Init, Maps
  <1>4. HigherWaits
    BY <1>1, <1>2 DEF Init, HigherWaits
  <1>5. KeysApproved
    BY <1>1, <1>2 DEF Init, KeysApproved
  <1> QED
    BY <1>3, <1>4, <1>5 DEF ConsentInv

\* Connections come and go, and so do processes: memory is filled from the
\* store only, and only the other node begins an exchange.
LEMMA ConsentLinks ==
    ASSUME ConsentInv,
           \/ \E c \in Conn : Open(c) \/ Close(c)
           \/ Lose
           \/ \E n \in Node : DialFails(n) \/ (\E lost \in BOOLEAN : Restart(n, lost))
    PROVE  ConsentInv'
  <1>1. Maps /\ HigherWaits /\ KeysApproved /\ Higher \in Node
    BY DEF ConsentInv, Node
  <1>2. CASE \E c \in Conn : Open(c)
    <2>1. PICK c \in Conn : Open(c)
      BY <1>2
    <2>2. ~ Initiates(Higher)
      BY NodesAssumption DEF Initiates
    <2>3. HigherWaits'
      BY <1>1, <2>1, <2>2 DEF Open, HigherWaits
    <2>4. Maps'
      BY <1>1, <2>1 DEF Open, Maps
    <2>5. /\ key'[Higher] = Loaded(Higher)
          /\ store' = store
          /\ trust[Higher] = "approved" => trust'[Higher] = "approved"
      BY <1>1, <2>1 DEF Open
    <2>6. KeysApproved'
      BY <1>1, <2>5 DEF KeysApproved, Loaded
    <2> QED
      BY <2>3, <2>4, <2>6 DEF ConsentInv
  <1>3. CASE \/ \E c \in Conn : Close(c)
             \/ Lose
             \/ \E n \in Node : DialFails(n)
    BY <1>1, <1>3 DEF Close, Lose, DialFails, keyVars, ConsentInv, Maps,
       HigherWaits, KeysApproved
  <1>4. CASE \E n \in Node : \E lost \in BOOLEAN : Restart(n, lost)
    <2>1. PICK n \in Node, lost \in BOOLEAN : Restart(n, lost)
      BY <1>4
    <2>2. Maps'
      BY <1>1, <2>1 DEF Restart, Maps
    <2>3. HigherWaits'
      BY <1>1, <2>1 DEF Restart, Maps, HigherWaits
    <2>4. KeysApproved'
      BY <1>1, <2>1 DEF Restart, Maps, KeysApproved
    <2> QED
      BY <2>2, <2>3, <2>4 DEF ConsentInv
  <1> QED
    BY <1>2, <1>3, <1>4

\* Messages: a proposal gives a key only to a node that has one, and an Accept
\* only to a node that has a secret.
LEMMA ConsentMessages ==
    ASSUME ConsentInv, NEW n \in Node, OnMessage(n)
    PROVE  ConsentInv'
  <1>1. Maps /\ HigherWaits /\ KeysApproved /\ Higher \in Node
    BY DEF ConsentInv, Node
  <1>2. PICK m \in net : OnPropose(n, m) \/ OnAccept(n, m) \/ OnAnnouncement(n, m)
    BY DEF OnMessage
  <1>3. CASE OnPropose(n, m)
    <2>1. Maps'
      BY <1>1, <1>3 DEF OnPropose, SetPeerKey, Maps
    <2>2. HigherWaits'
      BY <1>1, <1>3 DEF OnPropose, HigherWaits
    <2>3. KeysApproved'
      BY <1>1, <1>3 DEF OnPropose, SetPeerKey, KnownPeer, Loaded, Maps, KeysApproved
    <2> QED
      BY <2>1, <2>2, <2>3 DEF ConsentInv
  <1>4. CASE OnAccept(n, m)
    <2>1. Maps'
      BY <1>1, <1>4 DEF OnAccept, SecretTaken, SetPeerKey, Maps
    <2>2. HigherWaits'
      BY <1>1, <1>4 DEF OnAccept, SecretTaken, Maps, HigherWaits
    <2>3. CASE n = Higher
      <3>1. ~ Completes(Higher, m)
        BY <1>1 DEF Completes, HigherWaits
      <3> QED
        BY <1>1, <1>4, <2>1, <2>2, <2>3, <3>1
        DEF OnAccept, Loaded, Maps, KeysApproved, ConsentInv
    <2>4. CASE n # Higher
      <3>1. key'[Higher] = key[Higher] /\ store'[Higher] = store[Higher]
        BY <1>1, <1>4, <2>4 DEF OnAccept, SetPeerKey, Maps
      <3> QED
        BY <1>1, <1>4, <2>1, <2>2, <3>1 DEF OnAccept, KeysApproved, ConsentInv
    <2> QED
      BY <2>3, <2>4
  <1>5. CASE OnAnnouncement(n, m)
    BY <1>1, <1>5 DEF OnAnnouncement, Loaded, Maps, HigherWaits, KeysApproved,
       ConsentInv
  <1> QED
    BY <1>2, <1>3, <1>4, <1>5

\* Users: whoever gets a key from Approve has consented, and a revocation
\* empties both the memory and the store.
LEMMA ConsentUsers ==
    ASSUME ConsentInv, NEW n \in Node, Approve(n) \/ Deny(n) \/ Revoke(n)
    PROVE  ConsentInv'
  <1>1. Maps /\ HigherWaits /\ KeysApproved /\ Higher \in Node
    BY DEF ConsentInv, Node
  <1>2. CASE Approve(n)
    BY <1>1, <1>2 DEF Approve, SetPeerKey, Maps, HigherWaits, KeysApproved,
       ConsentInv
  <1>3. CASE Deny(n)
    BY <1>1, <1>3 DEF Deny, Maps, HigherWaits, KeysApproved, ConsentInv
  <1>4. CASE Revoke(n)
    BY <1>1, <1>4 DEF Revoke, Maps, HigherWaits, KeysApproved, ConsentInv
  <1> QED
    BY <1>2, <1>3, <1>4

LEMMA ConsentNext == ConsentInv /\ [Next]_vars => ConsentInv'
  <1>1. SUFFICES ASSUME ConsentInv, [Next]_vars PROVE ConsentInv'
    OBVIOUS
  <1>2. CASE UNCHANGED vars
    BY <1>1, <1>2 DEF vars, keyVars, ConsentInv, Maps, HigherWaits, KeysApproved
  <1>3. CASE \/ \E c \in Conn : Open(c) \/ Close(c)
             \/ Lose
             \/ \E n \in Node : DialFails(n) \/ (\E lost \in BOOLEAN : Restart(n, lost))
    BY <1>1, <1>3, ConsentLinks
  <1>4. CASE \E n \in Node : OnMessage(n)
    BY <1>1, <1>4, ConsentMessages
  <1>5. CASE \E n \in Node : Approve(n) \/ Deny(n) \/ Revoke(n)
    BY <1>1, <1>5, ConsentUsers
  <1> QED
    BY <1>1, <1>2, <1>3, <1>4, <1>5 DEF Next

\* Consent comes first: whatever connections, messages, losses, restarts and
\* lost key stores there are, the node with the higher id holds a key for the
\* other only if its user approved the other since the last revocation
\* (ApprovePeer, and the already-keyed arm of KeyExchangePropose).
THEOREM ConsentFirstHolds == Spec => []ConsentFirst
  <1>1. ConsentInv => ConsentFirst
    BY DEF ConsentInv, KeysApproved, ConsentFirst
  <1> QED
    BY ConsentInit, ConsentNext, <1>1, PTL DEF Spec

-----------------------------------------------------------------------------
(* Types.                                                                   *)

(***************************************************************************)
(* The type invariant is not inductive: that the two halves of a key are   *)
(* different pairs is so because a pair that is answered is never the pair *)
(* of the answer, and every pair but that of an announcement was made.     *)
(***************************************************************************)
KeyType(n) == {k \in {{i, j} : i, j \in 1 .. n} : Cardinality(k) = 2} \cup {None}
PairType(n) == (1 .. n) \cup {None}
WaitingType(n, to) == [type : {"Accept"}, to : {to}, conn : {None}, pub : 1 .. n]
MessageType(n) ==
    [type : {"Announcement"}, to : Node, conn : Conn, pub : {None}]
      \cup [type : {"Propose", "Accept", "Reply"}, to : Node, conn : Conn, pub : 1 .. n]

KeysTyped == /\ key \in [Node -> KeyType(made)]
             /\ store \in [Node -> KeyType(made)]
             /\ secret \in [Node -> PairType(made)]
             /\ proposal \in [Node -> PairType(made)]
             /\ made \in Nat

MessagesTyped == /\ DOMAIN outbox = Node
                 /\ \A n \in Node : outbox[n] \subseteq WaitingType(made, Other(n))
                 /\ net \subseteq MessageType(made)

OthersTyped == /\ up \subseteq Conn
               /\ asked \subseteq Node
               /\ trust \in [Node -> {"new", "approved", "revoked"}]
               /\ muddled \in BOOLEAN
               /\ spent \in [Kind -> Nat]

\* An answer never carries the pair whose secret waits for it.
Answers(n) == {m \in net \cup outbox[Other(n)] : m.to = n /\ m.type \in {"Accept", "Reply"}}
PairsDiffer == \A n \in Node : \A m \in Answers(n) : m.pub # secret[n]

TypeInv == KeysTyped /\ MessagesTyped /\ OthersTyped /\ PairsDiffer

LEMMA TypeInvTypes == TypeInv => TypeOK
  <1>1. SUFFICES ASSUME TypeInv PROVE TypeOK
    OBVIOUS
  <1>2. \A k \in {key, store} :
           /\ k \in [Node -> SharedKey \cup {None}]
           /\ \A n \in Node : k[n] # None => Cardinality(k[n]) = 2
    BY <1>1 DEF TypeInv, KeysTyped, KeyType, SharedKey
  <1>3. \A s \in {secret, proposal} : s \in [Node -> (1 .. made) \cup {None}]
    BY <1>1 DEF TypeInv, KeysTyped, PairType
  <1>4. net \subseteq [type : {"Propose", "Accept", "Reply", "Announcement"},
                       to : Node, conn : Conn, pub : (1 .. made) \cup {None}]
    BY <1>1 DEF TypeInv, MessagesTyped, MessageType
  <1> QED
    BY <1>1, <1>2, <1>3, <1>4
    DEF TypeInv, KeysTyped, MessagesTyped, OthersTyped, WaitingType, TypeOK

\* What had its type keeps it when pairs are generated.
LEMMA PairsGrow ==
    ASSUME NEW n \in Nat, NEW k \in Nat, n <= k
    PROVE  /\ KeyType(n) \subseteq KeyType(k)
           /\ PairType(n) \subseteq PairType(k)
           /\ MessageType(n) \subseteq MessageType(k)
           /\ \A to : WaitingType(n, to) \subseteq WaitingType(k, to)
  <1>1. 1 .. n \subseteq 1 .. k
    OBVIOUS
  <1> QED
    BY <1>1 DEF KeyType, PairType, MessageType, WaitingType

\* A key is derived from two different pairs.
LEMMA DeriveType ==
    ASSUME NEW n \in Nat, NEW s \in 1 .. n, NEW p \in 1 .. n, s # p
    PROVE  Derive(s, p) \in KeyType(n)
  <1>1. IsFiniteSet({s}) /\ Cardinality({s}) = 1
    BY FS_Singleton
  <1>2. Cardinality({s} \cup {p}) = Cardinality({s}) + 1
    BY <1>1, FS_AddElement
  <1>3. {s} \cup {p} = {s, p}
    OBVIOUS
  <1> QED
    BY <1>1, <1>2, <1>3 DEF Derive, KeyType

LEMMA OtherNode == \A n \in Node : Other(n) \in Node /\ Other(Other(n)) = n
  BY NodesAssumption DEF Other, Node

LEMMA TypeInit == Init => TypeInv
  <1>1. SUFFICES ASSUME Init PROVE TypeInv
    OBVIOUS
  <1>2. {1, 2} \in KeyType(2)
    BY DeriveType DEF Derive
  <1>3. KeysTyped
    BY <1>1, <1>2 DEF Init, KeysTyped, KeyType, PairType
  <1>4. MessagesTyped
    BY <1>1 DEF Init, MessagesTyped
  <1>5. OthersTyped
    BY <1>1 DEF Init, OthersTyped
  <1>6. PairsDiffer
    BY <1>1, OtherNode DEF Init, PairsDiffer, Answers
  <1> QED
    BY <1>3, <1>4, <1>5, <1>6 DEF TypeInv

LEMMA SpendType == ASSUME OthersTyped, NEW k \in Kind, Spend(k)
                   PROVE  spent' \in [Kind -> Nat]
  BY DEF OthersTyped, Spend

LEMMA LoadedType == ASSUME KeysTyped, NEW n \in Node
                    PROVE  Loaded(n) \in KeyType(made)
  BY DEF KeysTyped, Loaded

\* A new connection: the pair the lower node makes is in nobody's answer yet.
LEMMA TypeOpen ==
    ASSUME TypeInv, NEW c \in Conn, Open(c)
    PROVE  TypeInv'
  <1> DEFINE begin == {n \in Node : Initiates(n)}
             new == made + 1
             waiting == UNION {outbox[n] : n \in Node}
  <1>1. KeysTyped /\ MessagesTyped /\ OthersTyped /\ PairsDiffer
    BY DEF TypeInv
  <1>2. /\ begin \subseteq {Lower} /\ Lower \in Node
        /\ \A n \in begin : made + (IF n = Higher /\ Lower \in begin THEN 2 ELSE 1) = new
    BY NodesAssumption DEF Initiates, Node
  <1>3. made' \in Nat /\ made <= made' /\ (begin # {} => made' = new)
    <2>1. Cardinality({}) = 0 /\ Cardinality({Lower}) = 1
      BY FS_EmptySet, FS_Singleton
    <2>2. begin = {} \/ begin = {Lower}
      BY <1>2
    <2>3. made' = made + Cardinality(begin)
      BY DEF Open
    <2> HIDE DEF begin
    <2> QED
      BY <1>1, <2>1, <2>2, <2>3 DEF KeysTyped
  <1>4. /\ secret' = [n \in Node |-> IF n \in begin THEN new ELSE secret[n]]
        /\ net' = net \cup {Announcement(n, c) : n \in Node}
                      \cup {Propose(Other(n), c, new) : n \in begin}
                      \cup {[m EXCEPT !.conn = c] : m \in waiting}
    BY <1>2 DEF Open
  <1> HIDE DEF begin
  <1>5. /\ KeyType(made) \subseteq KeyType(made') /\ PairType(made) \subseteq PairType(made')
        /\ MessageType(made) \subseteq MessageType(made')
        /\ \A to : WaitingType(made, to) \subseteq WaitingType(made', to)
    BY <1>1, <1>3, PairsGrow DEF KeysTyped
  <1>6. KeysTyped'
    <2>1. key' \in [Node -> KeyType(made')]
      BY <1>1, <1>5, LoadedType DEF Open
    <2>2. store' \in [Node -> KeyType(made')] /\ proposal' \in [Node -> PairType(made')]
      BY <1>1, <1>5 DEF Open, KeysTyped
    <2>3. begin # {} => new \in PairType(made')
      BY <1>1, <1>3 DEF KeysTyped, PairType
    <2>4. secret' \in [Node -> PairType(made')]
      <3>1. \A n \in Node : secret[n] \in PairType(made')
        BY <1>1, <1>5 DEF KeysTyped
      <3>2. \A n \in Node : (IF n \in begin THEN new ELSE secret[n]) \in PairType(made')
        BY <2>3, <3>1
      <3> QED
        BY <1>4, <3>2
    <2> QED
      BY <1>3, <2>1, <2>2, <2>4 DEF KeysTyped
  <1>7. \A m \in waiting : /\ [m EXCEPT !.conn = c] \in MessageType(made)
                           /\ m.pub \in 1 .. made
    <2>1. \A n \in Node : outbox[n] \subseteq WaitingType(made, Other(n)) /\ Other(n) \in Node
      BY <1>1, OtherNode DEF MessagesTyped
    <2> QED
      BY <2>1 DEF WaitingType, MessageType
  <1>8. MessagesTyped'
    <2>1. \A n \in Node : Announcement(n, c) \in MessageType(made')
      BY DEF Announcement, MessageType
    <2>2. \A n \in begin : Propose(Other(n), c, new) \in MessageType(made')
      BY <1>1, <1>2, <1>3, OtherNode DEF Propose, MessageType, KeysTyped
    <2>3. net' \subseteq MessageType(made')
      BY <1>1, <1>4, <1>5, <1>7, <2>1, <2>2 DEF MessagesTyped
    <2> QED
      BY <2>3 DEF Open, MessagesTyped
  <1>9. OthersTyped'
    BY <1>1, SpendType DEF Open, OthersTyped, Kind
  <1>10. PairsDiffer'
    <2>1. ASSUME NEW n \in Node, NEW m \in net', m.to = n, m.type \in {"Accept", "Reply"}
          PROVE  m.pub \in 1 .. made /\ m.pub # secret[n]
      <3>1. m \in net \/ \E w \in waiting : m = [w EXCEPT !.conn = c]
        BY <1>4, <2>1 DEF Announcement, Propose
      <3>2. CASE m \in net
        <4>1. m \in Answers(n)
          BY <2>1, <3>2 DEF Answers
        <4> QED
          BY <1>1, <2>1, <3>2, <4>1 DEF PairsDiffer, MessagesTyped, MessageType
      <3>3. ASSUME NEW w \in waiting, m = [w EXCEPT !.conn = c]
            PROVE  m.pub \in 1 .. made /\ m.pub # secret[n]
        <4>1. PICK o \in Node : w \in outbox[o]
          OBVIOUS
        <4>2. w \in WaitingType(made, Other(o))
          BY <1>1, <4>1 DEF MessagesTyped
        <4>3. m.to = w.to /\ m.pub = w.pub /\ w.to = Other(o) /\ w.type = "Accept"
              /\ w.pub \in 1 .. made
          BY <3>3, <4>2 DEF WaitingType
        <4>4. o = Other(n)
          BY <2>1, <4>3, OtherNode
        <4>5. w \in Answers(n)
          BY <2>1, <4>1, <4>3, <4>4 DEF Answers
        <4> QED
          BY <1>1, <4>3, <4>5 DEF PairsDiffer
      <3> QED
        BY <3>1, <3>2, <3>3
    <2>2. \A n \in Node : outbox'[n] = {}
      BY DEF Open
    <2>3. \A n \in Node : secret'[n] \in {secret[n], new}
      BY <1>4
    <2>4. \A n \in Node : \A m \in net' :
             m.to = n /\ m.type \in {"Accept", "Reply"} => m.pub # secret'[n]
      BY <1>1, <2>1, <2>3 DEF KeysTyped
    <2> QED
      BY <2>2, <2>4, OtherNode DEF PairsDiffer, Answers
  <1> QED
    BY <1>6, <1>8, <1>9, <1>10 DEF TypeInv

\* No new pair, no new message: what is left keeps its type.
LEMMA TypeFewer ==
    ASSUME TypeInv, made' = made, KeysTyped', OthersTyped',
           net' \subseteq net, DOMAIN outbox' = Node,
           \A n \in Node : outbox'[n] \subseteq outbox[n],
           \A n \in Node : secret'[n] \in {secret[n], None}
    PROVE  TypeInv'
  <1>1. MessagesTyped'
    BY DEF TypeInv, MessagesTyped
  <1>2. \A n \in Node : Answers(n)' \subseteq Answers(n)
    BY OtherNode DEF Answers
  <1>3. \A n \in Node : \A m \in Answers(n) : m.pub # None
    <2>1. \A n \in Node : \A m \in outbox[n] : m.pub \in Nat
      BY DEF TypeInv, MessagesTyped, WaitingType, KeysTyped
    <2>2. \A m \in net : m.type \in {"Accept", "Reply"} => m.pub \in Nat
      BY DEF TypeInv, MessagesTyped, MessageType, KeysTyped
    <2> QED
      BY <2>1, <2>2, OtherNode, NoneAssumption DEF Answers
  <1>4. PairsDiffer'
    BY <1>2, <1>3 DEF TypeInv, PairsDiffer
  <1> QED
    BY <1>1, <1>4 DEF TypeInv

LEMMA TypeLinks ==
    ASSUME TypeInv,
           \/ \E c \in Conn : Close(c)
           \/ Lose
           \/ \E n \in Node : DialFails(n) \/ (\E lost \in BOOLEAN : Restart(n, lost))
    PROVE  TypeInv'
  <1>1. KeysTyped /\ MessagesTyped /\ OthersTyped
    BY DEF TypeInv
  <1>2. CASE Lose \/ \E c \in Conn : Close(c)
    <2>1. spent' \in [Kind -> Nat]
      BY <1>1, <1>2, SpendType DEF Close, Lose, Kind
    <2>2. OthersTyped'
      BY <1>1, <1>2, <2>1 DEF Close, Lose, OthersTyped
    <2>3. KeysTyped' /\ made' = made /\ UNCHANGED <<secret, outbox>>
      BY <1>1, <1>2 DEF Close, Lose, keyVars, KeysTyped
    <2>4. net' \subseteq net
      BY <1>2 DEF Close, Lose
    <2> QED
      BY <1>1, <2>2, <2>3, <2>4, TypeFewer DEF MessagesTyped
  <1>3. ASSUME NEW n \in Node, DialFails(n)
        PROVE  TypeInv'
    <2>1. OthersTyped' /\ KeysTyped' /\ made' = made /\ UNCHANGED <<secret, net>>
      BY <1>1, <1>3 DEF DialFails, keyVars, OthersTyped, KeysTyped
    <2>2. DOMAIN outbox' = Node /\ \A q \in Node : outbox'[q] \subseteq outbox[q]
      BY <1>1, <1>3 DEF DialFails, MessagesTyped
    <2> QED
      BY <2>1, <2>2, TypeFewer
  <1>4. ASSUME NEW n \in Node, NEW lost \in BOOLEAN, Restart(n, lost)
        PROVE  TypeInv'
    <2>1. None \in KeyType(made) /\ None \in PairType(made)
      BY DEF KeyType, PairType
    <2>2. KeysTyped'
      BY <1>1, <1>4, <2>1 DEF Restart, KeysTyped
    <2>3. OthersTyped'
      BY <1>1, <1>4, SpendType DEF Restart, OthersTyped, Kind
    <2>4. /\ net' \subseteq net /\ made' = made
          /\ DOMAIN outbox' = Node /\ \A q \in Node : outbox'[q] \subseteq outbox[q]
          /\ \A q \in Node : secret'[q] \in {secret[q], None}
      BY <1>1, <1>4 DEF Restart, MessagesTyped, KeysTyped
    <2> QED
      BY <2>2, <2>3, <2>4, TypeFewer
  <1> QED
    BY <1>2, <1>3, <1>4

\* A new pair goes out as the public half of one answer: nobody's secret is it.
LEMMA TypeAnswers ==
    ASSUME TypeInv, made' = NewPair, KeysTyped', OthersTyped', secret' = secret,
           DOMAIN outbox' = Node,
           net' \subseteq net \cup (MessageType(NewPair) \cap {m \in net' : m.pub = NewPair}),
           \A n \in Node : outbox'[n] \subseteq outbox[n]
               \cup (WaitingType(NewPair, Other(n)) \cap {m \in outbox'[n] : m.pub = NewPair})
    PROVE  TypeInv'
  <1>1. made \in Nat /\ NewPair \in Nat /\ made <= NewPair
    BY DEF TypeInv, KeysTyped, NewPair
  <1>2. MessagesTyped'
    <2>1. /\ MessageType(made) \subseteq MessageType(NewPair)
          /\ \A to : WaitingType(made, to) \subseteq WaitingType(NewPair, to)
      BY <1>1, PairsGrow
    <2> HIDE DEF NewPair
    <2> QED
      BY <2>1 DEF TypeInv, MessagesTyped
  <1>3. \A n \in Node : secret[n] # NewPair
    BY <1>1, NoneAssumption DEF TypeInv, KeysTyped, PairType, NewPair
  <1>4. PairsDiffer'
    <2>1. \A n \in Node : \A m \in Answers(n)' : m \in Answers(n) \/ m.pub = NewPair
      BY OtherNode DEF Answers
    <2> QED
      BY <1>3, <2>1 DEF TypeInv, PairsDiffer
  <1> QED
    BY <1>2, <1>4 DEF TypeInv

LEMMA TypeMessages ==
    ASSUME TypeInv, NEW n \in Node, OnMessage(n)
    PROVE  TypeInv'
  <1>1. KeysTyped /\ MessagesTyped /\ OthersTyped /\ PairsDiffer
    BY DEF TypeInv
  <1>2. PICK m \in net : OnPropose(n, m) \/ OnAccept(n, m) \/ OnAnnouncement(n, m)
    BY DEF OnMessage
  <1>3. m \in MessageType(made) /\ made \in Nat
    BY <1>1, <1>2 DEF MessagesTyped, KeysTyped
  <1>4. CASE OnPropose(n, m)
    <2>1. m.pub \in 1 .. made /\ m.conn \in Conn
      BY <1>3, <1>4 DEF OnPropose, MessageType
    <2>2. OthersTyped' /\ secret' = secret /\ outbox' = outbox /\ DOMAIN outbox = Node
      BY <1>1, <1>4 DEF OnPropose, OthersTyped, MessagesTyped
    <2>3. CASE KnownPeer(n)
      <3>1. /\ key' = [key EXCEPT ![n] = Derive(NewPair, m.pub)]
            /\ store' = [store EXCEPT ![n] = Derive(NewPair, m.pub)]
            /\ made' = NewPair /\ UNCHANGED <<secret, proposal>>
            /\ net' = (net \ {m}) \cup {Reply(Other(n), m.conn, NewPair)}
        BY <1>4, <2>3 DEF OnPropose, SetPeerKey
      <3>2. NewPair \in Nat /\ made <= NewPair /\ NewPair \in 1 .. NewPair
            /\ m.pub \in 1 .. NewPair /\ NewPair # m.pub
        BY <1>3, <2>1 DEF NewPair
      <3>3. Derive(NewPair, m.pub) \in KeyType(NewPair)
        BY <3>2, DeriveType
      <3>4. KeyType(made) \subseteq KeyType(NewPair) /\ PairType(made) \subseteq PairType(NewPair)
        BY <1>3, <3>2, PairsGrow
      <3>5. KeysTyped'
        BY <1>1, <3>1, <3>2, <3>3, <3>4 DEF KeysTyped
      <3>6. Reply(Other(n), m.conn, NewPair) \in MessageType(NewPair)
            /\ Reply(Other(n), m.conn, NewPair).pub = NewPair
        BY <2>1, <3>2, OtherNode DEF Reply, MessageType
      <3> QED
        BY <2>2, <3>1, <3>5, <3>6, TypeAnswers
    <2>4. CASE ~ KnownPeer(n)
      <3>1. /\ proposal' = [proposal EXCEPT ![n] = m.pub]
            /\ net' = net \ {m} /\ UNCHANGED <<key, store, made, secret>>
        BY <1>4, <2>4 DEF OnPropose
      <3>2. KeysTyped'
        BY <1>1, <2>1, <3>1 DEF KeysTyped, PairType
      <3> QED
        BY <2>2, <3>1, <3>2, TypeFewer
    <2> QED
      BY <2>3, <2>4
  <1>5. CASE OnAccept(n, m)
    <2>1. m.pub \in 1 .. made /\ m \in Answers(n)
      BY <1>3, <1>5 DEF OnAccept, MessageType, Answers
    <2>2. OthersTyped' /\ net' = net \ {m} /\ UNCHANGED <<outbox, made, proposal>>
      BY <1>1, <1>5 DEF OnAccept, OthersTyped
    <2>3. secret' = [secret EXCEPT ![n] = None] /\ None \in PairType(made)
      BY <1>5 DEF OnAccept, SecretTaken, PairType
    <2>4. secret' \in [Node -> PairType(made)]
          /\ \A q \in Node : secret'[q] \in {secret[q], None}
      BY <1>1, <2>3 DEF KeysTyped
    <2>5. CASE Completes(n, m)
      <3>1. secret[n] \in 1 .. made /\ secret[n] # m.pub
        BY <1>1, <2>1, <2>5 DEF Completes, KeysTyped, PairType, PairsDiffer
      <3>2. Derive(secret[n], m.pub) \in KeyType(made)
        BY <1>3, <2>1, <3>1, DeriveType
      <3> DEFINE k == Derive(secret[n], m.pub)
      <3>3. key' = [key EXCEPT ![n] = k] /\ store' = [store EXCEPT ![n] = k]
        BY <1>5, <2>5 DEF OnAccept, SetPeerKey
      <3> HIDE DEF k
      <3>4. KeysTyped'
        BY <1>1, <2>2, <2>4, <3>2, <3>3 DEF KeysTyped, k
      <3> QED
        BY <1>1, <2>2, <2>4, <3>4, TypeFewer DEF MessagesTyped
    <2>6. CASE ~ Completes(n, m)
      <3>1. KeysTyped'
        BY <1>1, <1>5, <2>2, <2>4, <2>6, LoadedType DEF OnAccept, KeysTyped
      <3> QED
        BY <1>1, <2>2, <2>4, <3>1, TypeFewer DEF MessagesTyped
    <2> QED
      BY <2>5, <2>6
  <1>6. CASE OnAnnouncement(n, m)
    <2>1. OthersTyped' /\ net' = net \ {m} /\ UNCHANGED <<outbox, made, secret>>
      BY <1>1, <1>6 DEF OnAnnouncement, OthersTyped
    <2>2. KeysTyped'
      BY <1>1, <1>6, LoadedType DEF OnAnnouncement, KeysTyped
    <2> QED
      BY <1>1, <2>1, <2>2, TypeFewer DEF MessagesTyped
  <1> QED
    BY <1>2, <1>4, <1>5, <1>6

LEMMA TypeUsers ==
    ASSUME TypeInv, NEW n \in Node, Approve(n) \/ Deny(n) \/ Revoke(n)
    PROVE  TypeInv'
  <1>1. KeysTyped /\ MessagesTyped /\ OthersTyped
    BY DEF TypeInv
  <1>2. CASE Approve(n)
    <2>1. /\ key' = [key EXCEPT ![n] = Derive(NewPair, proposal[n])]
          /\ store' = [store EXCEPT ![n] = Derive(NewPair, proposal[n])]
          /\ proposal' = [proposal EXCEPT ![n] = None]
          /\ made' = NewPair /\ secret' = secret
      BY <1>2 DEF Approve, SetPeerKey
    <2>2. proposal[n] \in 1 .. made /\ made \in Nat
      BY <1>1, <1>2 DEF Approve, KeysTyped, PairType
    <2>3. NewPair \in Nat /\ made <= NewPair /\ NewPair \in 1 .. NewPair
          /\ proposal[n] \in 1 .. NewPair /\ NewPair # proposal[n]
      BY <2>2 DEF NewPair
    <2>4. Derive(NewPair, proposal[n]) \in KeyType(NewPair)
      BY <2>3, DeriveType
    <2>5. /\ KeyType(made) \subseteq KeyType(NewPair)
          /\ PairType(made) \subseteq PairType(NewPair) /\ None \in PairType(NewPair)
      BY <2>2, <2>3, PairsGrow DEF PairType
    <2>6. KeysTyped'
      BY <1>1, <2>1, <2>3, <2>4, <2>5 DEF KeysTyped
    <2>7. OthersTyped'
      BY <1>1, <1>2 DEF Approve, OthersTyped
    <2>8. CASE up # {}
      <3>1. PICK c \in up : net' = net \cup {Accept(Other(n), c, NewPair)}
        BY <1>2, <2>8 DEF Approve
      <3>2. Accept(Other(n), c, NewPair) \in MessageType(NewPair)
            /\ Accept(Other(n), c, NewPair).pub = NewPair
        BY <1>1, <2>3, OtherNode DEF Accept, MessageType, OthersTyped
      <3>3. outbox' = outbox /\ DOMAIN outbox = Node
        BY <1>1, <1>2, <2>8 DEF Approve, MessagesTyped
      <3> QED
        BY <2>1, <2>6, <2>7, <3>1, <3>2, <3>3, TypeAnswers
    <2>9. CASE up = {}
      <3> DEFINE w == Accept(Other(n), None, NewPair)
      <3>1. net' = net /\ outbox' = [outbox EXCEPT ![n] = outbox[n] \cup {w}]
        BY <1>2, <2>9 DEF Approve
      <3>2. w \in WaitingType(NewPair, Other(n)) /\ w.pub = NewPair
        BY <2>3 DEF Accept, WaitingType
      <3> HIDE DEF w
      <3>3. DOMAIN outbox' = Node
            /\ \A q \in Node : outbox'[q] = IF q = n THEN outbox[n] \cup {w} ELSE outbox[q]
        BY <1>1, <3>1 DEF MessagesTyped
      <3> QED
        BY <2>1, <2>6, <2>7, <3>1, <3>2, <3>3, TypeAnswers
    <2> QED
      BY <2>8, <2>9
  <1>3. CASE Deny(n)
    <2>1. KeysTyped' /\ made' = made /\ UNCHANGED <<secret, outbox>> /\ net' \subseteq net
      BY <1>1, <1>3 DEF Deny, KeysTyped, PairType
    <2>2. OthersTyped'
      BY <1>1, <1>3, SpendType DEF Deny, OthersTyped, Kind
    <2> QED
      BY <1>1, <2>1, <2>2, TypeFewer DEF MessagesTyped
  <1>4. CASE Revoke(n)
    <2>1. KeysTyped' /\ made' = made /\ UNCHANGED <<secret, outbox, net>>
      BY <1>1, <1>4 DEF Revoke, KeysTyped, KeyType
    <2>2. OthersTyped'
      BY <1>1, <1>4, SpendType DEF Revoke, OthersTyped, Kind
    <2> QED
      BY <1>1, <2>1, <2>2, TypeFewer DEF MessagesTyped
  <1> QED
    BY <1>2, <1>3, <1>4

LEMMA TypeNext == TypeInv /\ [Next]_vars => TypeInv'
  <1>1. SUFFICES ASSUME TypeInv, [Next]_vars PROVE TypeInv'
    OBVIOUS
  <1>2. CASE UNCHANGED vars
    BY <1>1, <1>2 DEF vars, keyVars, TypeInv, KeysTyped, MessagesTyped, OthersTyped,
       PairsDiffer, Answers
  <1>3. CASE \/ \E c \in Conn : Open(c) \/ Close(c)
             \/ Lose
             \/ \E n \in Node : DialFails(n) \/ (\E lost \in BOOLEAN : Restart(n, lost))
    BY <1>1, <1>3, TypeOpen, TypeLinks
  <1>4. CASE \E n \in Node : OnMessage(n)
    BY <1>1, <1>4, TypeMessages
  <1>5. CASE \E n \in Node : Approve(n) \/ Deny(n) \/ Revoke(n)
    BY <1>1, <1>5, TypeUsers
  <1> QED
    BY <1>1, <1>2, <1>3, <1>4, <1>5 DEF Next

\* Every reachable state is well typed, and whatever messages are lost, late or
\* left from an earlier exchange, a key is derived from the pairs of two sides,
\* never from one pair twice (derive_shared_key: the secret of one, the public
\* half of the other).
THEOREM TypeOKHolds == Spec => []TypeOK
  BY TypeInit, TypeNext, TypeInvTypes, PTL DEF Spec

-----------------------------------------------------------------------------
(* Agreement.                                                               *)

(***************************************************************************)
(* Until the exchange is muddled it is in one place at a time: a proposal  *)
(* on its way, a prompt, or an answer on its way.  A key at the lower node *)
(* means that the exchange is over.  A second connection, a message lost   *)
(* while its connection stays, or an outdated prompt that is approved ends *)
(* this, and there are behaviours then that end in two keys.               *)
(***************************************************************************)
Exchange == {m \in net : m.type # "Announcement"}

\* What is in memory is what is in the store.
StoreFirst == \A n \in Node : key[n] # None => key[n] = store[n]

\* The lower node proposes, the higher one answers, over what is connected.
OneSided == /\ secret[Higher] = None /\ proposal[Lower] = None
            /\ \A n \in Node : outbox[n] = {}
            /\ \A c, d \in up : c = d
            /\ \A m \in net : m.conn \in up
            /\ \A m \in Exchange : m.to = IF m.type = "Propose" THEN Higher ELSE Lower
OnePlace == \A m, k \in Exchange : m = k

LowerDone == store[Lower] # None => proposal[Higher] = None /\ Exchange = {}
HigherDone == store[Higher] # None => proposal[Higher] = None

\* Proposals, prompts and answers are those of the secret that waits.
Proposed == \A m \in Exchange : m.type = "Propose" => secret[Lower] = m.pub
Prompted == up # {} /\ proposal[Higher] # None /\ Exchange = {}
              => proposal[Higher] = secret[Lower]
Answered ==
    \A m \in Exchange : m.type # "Propose" =>
        /\ proposal[Higher] = None /\ secret[Lower] # None
        /\ store[Higher] \in {None, Derive(m.pub, secret[Lower])}

StoresAgree == store[Lower] # None /\ store[Higher] # None => store[Lower] = store[Higher]

AgreeInv == /\ TypeInv /\ StoreFirst /\ OneSided /\ OnePlace /\ LowerDone /\ HigherDone
            /\ Proposed /\ Prompted /\ Answered /\ StoresAgree

LEMMA AgreeInit == Init => AgreeInv
  <1>1. SUFFICES ASSUME Init PROVE AgreeInv
    OBVIOUS
  <1>2. TypeInv
    BY <1>1, TypeInit
  <1>3. Lower \in Node /\ Higher \in Node
    BY DEF Node
  <1>4. Exchange = {}
    BY <1>1 DEF Init, Exchange
  <1> QED
    BY <1>1, <1>2, <1>3, <1>4
    DEF Init, AgreeInv, StoreFirst, OneSided, OnePlace, LowerDone, HigherDone,
        Proposed, Prompted, Answered, StoresAgree

\* The nodes and their maps.
LEMMA TwoNodes ==
    ASSUME TypeInv
    PROVE  /\ Lower \in Node /\ Higher \in Node /\ Lower # Higher
           /\ Other(Lower) = Higher /\ Other(Higher) = Lower
           /\ \A n \in Node : n = Lower \/ n = Higher
           /\ DOMAIN key = Node /\ DOMAIN store = Node
           /\ DOMAIN secret = Node /\ DOMAIN proposal = Node
  BY NodesAssumption DEF TypeInv, KeysTyped, Node, Other

\* A new connection finds nothing on its way.
LEMMA AgreeOpen ==
    ASSUME ~ muddled', AgreeInv, NEW c \in Conn, Open(c), TypeInv'
    PROVE  AgreeInv'
  <1>1. TypeInv
    BY DEF AgreeInv
  <1> USE TwoNodes, <1>1
  <1>2. up = {} /\ net = {}
    <2>1. muddled' = (muddled \/ up # {})
      BY DEF Open
    <2>2. up = {}
      BY <2>1
    <2> QED
      BY <2>2 DEF AgreeInv, OneSided
  <1> DEFINE begin == {n \in Node : Initiates(n)}
             pair(n) == made + (IF n = Higher /\ Lower \in begin THEN 2 ELSE 1)
  <1>3. /\ begin = IF Loaded(Lower) = None THEN {Lower} ELSE {}
        /\ pair(Lower) = made + 1
    BY DEF Initiates
  <1>4. /\ net' = {Announcement(n, c) : n \in Node}
                    \cup {Propose(Other(n), c, pair(n)) : n \in begin}
        /\ secret' = [n \in Node |-> IF n \in begin THEN pair(n) ELSE secret[n]]
        /\ outbox' = [n \in Node |-> {}] /\ key' = [n \in Node |-> Loaded(n)]
        /\ up' = {c} /\ UNCHANGED <<store, proposal>>
    <2>1. UNION {outbox[n] : n \in Node} = {}
      BY DEF AgreeInv, OneSided
    <2>2. {[m EXCEPT !.conn = c] : m \in UNION {outbox[n] : n \in Node}} = {}
      BY <2>1
    <2> QED
      BY <1>2, <2>2 DEF Open
  <1> HIDE DEF begin, pair
  <1>5. \A n \in Node : Loaded(n) = store[n]
    BY DEF AgreeInv, StoreFirst, Loaded
  <1>6. /\ Exchange' = IF store[Lower] = None THEN {Propose(Higher, c, made + 1)} ELSE {}
        /\ store[Lower] = None => secret'[Lower] = made + 1
        /\ secret'[Higher] = None
    BY <1>3, <1>4, <1>5 DEF Exchange, Announcement, Propose, AgreeInv, OneSided
  <1>7. StoreFirst'
    BY <1>4, <1>5 DEF StoreFirst
  <1>8. OneSided'
    BY <1>4, <1>6 DEF OneSided, Announcement, Propose, AgreeInv
  <1>9. OnePlace' /\ LowerDone' /\ HigherDone' /\ Proposed' /\ Answered' /\ StoresAgree'
    BY <1>4, <1>6
    DEF OnePlace, LowerDone, HigherDone, Proposed, Answered, StoresAgree, Propose, AgreeInv
  <1>10. Prompted'
    BY <1>4, <1>6 DEF Prompted, LowerDone, AgreeInv
  <1> QED
    BY <1>7, <1>8, <1>9, <1>10 DEF AgreeInv

\* Where connections end, nothing stays on its way.
LEMMA AgreeLinks ==
    ASSUME ~ muddled', AgreeInv, TypeInv',
           \/ \E c \in Conn : Close(c)
           \/ Lose
           \/ \E n \in Node : DialFails(n) \/ (\E lost \in BOOLEAN : Restart(n, lost))
    PROVE  AgreeInv'
  <1>1. TypeInv
    BY DEF AgreeInv
  <1> USE TwoNodes, <1>1
  <1>2. ~ Lose
    BY DEF Lose
  <1>3. \A n \in Node : ~ DialFails(n)
    BY DEF DialFails, AgreeInv, OneSided
  <1>4. ASSUME NEW c \in Conn, Close(c)
        PROVE  AgreeInv'
    <2>1. up = {c} /\ up' = {}
      BY <1>4 DEF Close, AgreeInv, OneSided
    <2>2. net' = {}
      BY <1>4, <2>1 DEF Close, AgreeInv, OneSided
    <2>3. Exchange' = {}
      BY <2>2 DEF Exchange
    <2> QED
      BY <1>4, <2>1, <2>2, <2>3
      DEF Close, keyVars, AgreeInv, StoreFirst, OneSided, OnePlace, LowerDone, HigherDone,
          Proposed, Prompted, Answered, StoresAgree
  <1>5. ASSUME NEW n \in Node, NEW lost \in BOOLEAN, Restart(n, lost)
        PROVE  AgreeInv'
    <2>1. /\ store' \in {store, [store EXCEPT ![n] = None]}
          /\ key' = [key EXCEPT ![n] = None]
          /\ secret' = [secret EXCEPT ![n] = None]
          /\ proposal' = [proposal EXCEPT ![n] = None]
          /\ outbox' = [outbox EXCEPT ![n] = {}]
          /\ up' = {} /\ net' = {} /\ DOMAIN outbox = Node
      BY <1>5 DEF Restart, TypeInv, MessagesTyped
    <2>2. /\ \A q \in Node : /\ store'[q] \in {store[q], None}
                             /\ secret'[q] \in {secret[q], None}
                             /\ proposal'[q] \in {proposal[q], None}
                             /\ outbox'[q] \in {outbox[q], {}}
                             /\ key'[q] = IF q = n THEN None ELSE key[q]
                             /\ q # n => store'[q] = store[q]
      BY <2>1
    <2>3. Exchange' = {}
      BY <2>1 DEF Exchange
    <2>5. StoreFirst'
      BY <2>2 DEF AgreeInv, StoreFirst
    <2>6. OneSided' /\ OnePlace' /\ Proposed' /\ Answered' /\ Prompted'
      BY <2>1, <2>2, <2>3
      DEF AgreeInv, OneSided, OnePlace, Proposed, Answered, Prompted
    <2>7. LowerDone' /\ HigherDone' /\ StoresAgree'
      BY <2>2, <2>3 DEF AgreeInv, LowerDone, HigherDone, StoresAgree
    <2> QED
      BY <2>5, <2>6, <2>7 DEF AgreeInv
  <1> QED
    BY <1>2, <1>3, <1>4, <1>5

\* A proposal is the exchange: it is answered, or waits for the user.
LEMMA AgreePropose ==
    ASSUME AgreeInv, TypeInv', NEW n \in Node, NEW m \in net, OnPropose(n, m)
    PROVE  AgreeInv'
  <1>1. TypeInv
    BY DEF AgreeInv
  <1> USE TwoNodes, <1>1
  <1>2. /\ m \in Exchange /\ m.to = n /\ m.type = "Propose"
        /\ n = Higher /\ Exchange = {m} /\ m.conn \in up /\ m.pub = secret[Lower]
        /\ store[Lower] = None
    BY DEF OnPropose, Exchange, AgreeInv, OneSided, OnePlace, LowerDone, Proposed
  <1>3. Loaded(Higher) = store[Higher] /\ m.pub \in 1 .. made /\ m.pub # None
    BY <1>2, NoneAssumption
    DEF AgreeInv, StoreFirst, Loaded, TypeInv, MessagesTyped, KeysTyped, MessageType
  <1>4. CASE KnownPeer(n)
    <2> DEFINE k == Derive(NewPair, m.pub)
               r == Reply(Lower, m.conn, NewPair)
    <2>1. /\ key' = [key EXCEPT ![Higher] = k] /\ store' = [store EXCEPT ![Higher] = k]
          /\ net' = (net \ {m}) \cup {r}
          /\ UNCHANGED <<up, secret, proposal, outbox, spent>>
      BY <1>2, <1>4 DEF OnPropose, SetPeerKey
    <2>2. /\ r.to = Lower /\ r.type = "Reply" /\ r.conn = m.conn /\ r.pub = NewPair
          /\ k = Derive(NewPair, secret[Lower])
      BY <1>2 DEF Reply
    <2>3. proposal[Higher] = None /\ secret[Lower] # None
      BY <1>2, <1>3, <1>4 DEF KnownPeer, AgreeInv, HigherDone
    <2> HIDE DEF k, r
    <2>4. Exchange' = {r}
      BY <1>2, <2>1, <2>2 DEF Exchange
    <2>5. StoreFirst' /\ StoresAgree' /\ LowerDone' /\ HigherDone'
      BY <1>2, <2>1, <2>3 DEF AgreeInv, StoreFirst, StoresAgree, LowerDone, HigherDone
    <2>6. OneSided'
      BY <1>2, <2>1, <2>2, <2>4 DEF AgreeInv, OneSided
    <2>7. OnePlace' /\ Proposed' /\ Prompted' /\ Answered'
      BY <2>1, <2>2, <2>3, <2>4 DEF OnePlace, Proposed, Prompted, Answered
    <2> QED
      BY <2>1, <2>5, <2>6, <2>7 DEF AgreeInv
  <1>5. CASE ~ KnownPeer(n)
    <2>1. /\ proposal' = [proposal EXCEPT ![Higher] = m.pub] /\ net' = net \ {m}
          /\ UNCHANGED <<up, key, store, secret, outbox, spent>>
      BY <1>2, <1>5 DEF OnPropose
    <2>2. Exchange' = {} /\ store[Higher] = None
      BY <1>2, <1>3, <1>5, <2>1 DEF Exchange, KnownPeer
    <2> QED
      BY <1>2, <2>1, <2>2
      DEF AgreeInv, StoreFirst, OneSided, OnePlace, LowerDone, HigherDone, Proposed,
          Prompted, Answered, StoresAgree
  <1> QED
    BY <1>4, <1>5

\* An answer ends the exchange, with the key the higher node derived.
LEMMA AgreeAccept ==
    ASSUME AgreeInv, TypeInv', NEW n \in Node, NEW m \in net, OnAccept(n, m)
    PROVE  AgreeInv'
  <1>1. TypeInv
    BY DEF AgreeInv
  <1> USE TwoNodes, <1>1
  <1>2. /\ m \in Exchange /\ m.to = n /\ m.type # "Propose"
        /\ n = Lower /\ Exchange = {m}
        /\ proposal[Higher] = None /\ secret[Lower] # None
        /\ store[Higher] \in {None, Derive(m.pub, secret[Lower])}
    BY DEF OnAccept, Exchange, AgreeInv, OneSided, OnePlace, Answered
  <1> DEFINE k == Derive(secret[Lower], m.pub)
  <1>3. /\ key' = [key EXCEPT ![Lower] = k] /\ store' = [store EXCEPT ![Lower] = k]
        /\ secret' = [secret EXCEPT ![Lower] = None] /\ net' = net \ {m}
        /\ UNCHANGED <<up, proposal, outbox, spent>>
    BY <1>2 DEF OnAccept, Completes, SecretTaken, SetPeerKey
  <1>4. Exchange' = {} /\ store[Higher] \in {None, k}
    BY <1>2, <1>3 DEF Exchange, Derive
  <1> HIDE DEF k
  <1>5. StoreFirst' /\ StoresAgree'
    BY <1>3, <1>4 DEF AgreeInv, StoreFirst, StoresAgree
  <1>6. OneSided' /\ OnePlace' /\ LowerDone' /\ HigherDone' /\ Proposed' /\ Prompted' /\ Answered'
    BY <1>2, <1>3, <1>4
    DEF AgreeInv, OneSided, OnePlace, LowerDone, HigherDone, Proposed, Prompted, Answered
  <1> QED
    BY <1>3, <1>5, <1>6 DEF AgreeInv

LEMMA AgreeAnnouncement ==
    ASSUME AgreeInv, TypeInv', NEW n \in Node, NEW m \in net, OnAnnouncement(n, m)
    PROVE  AgreeInv'
  <1>1. TypeInv
    BY DEF AgreeInv
  <1> USE TwoNodes, <1>1
  <1>2. /\ key' = [key EXCEPT ![n] = Loaded(n)] /\ net' = net \ {m}
        /\ m.type = "Announcement"
        /\ UNCHANGED <<up, store, secret, proposal, outbox, spent>>
    BY DEF OnAnnouncement
  <1>3. Exchange' = Exchange
    BY <1>2 DEF Exchange
  <1>4. StoreFirst'
    BY <1>2 DEF AgreeInv, StoreFirst, Loaded
  <1> QED
    BY <1>2, <1>3, <1>4
    DEF AgreeInv, OneSided, OnePlace, LowerDone, HigherDone, Proposed, Prompted, Answered,
        StoresAgree

\* A prompt that is up to date is the exchange of the secret that waits.
LEMMA AgreeUsers ==
    ASSUME ~ muddled', AgreeInv, TypeInv', NEW n \in Node, Approve(n) \/ Deny(n) \/ Revoke(n)
    PROVE  AgreeInv'
  <1>1. TypeInv
    BY DEF AgreeInv
  <1> USE TwoNodes, <1>1
  <1>2. CASE Approve(n)
    <2>1. /\ n = Higher /\ proposal[Higher] # None /\ up # {}
          /\ \A m \in net : ~ (m.type = "Propose" /\ m.to = Higher)
      <3>1. n = Higher /\ proposal[Higher] # None
        BY <1>2 DEF Approve, AgreeInv, OneSided
      <3>2. muddled' = (muddled \/ ~ UpToDate(n))
        BY <1>2 DEF Approve
      <3>3. UpToDate(n)
        BY <3>2
      <3> QED
        BY <3>1, <3>3 DEF UpToDate
    <2>2. Exchange = {}
      BY <2>1 DEF AgreeInv, OneSided, Answered, Exchange
    <2>3. proposal[Higher] = secret[Lower] /\ store[Lower] = None
      BY <2>1, <2>2 DEF AgreeInv, Prompted, LowerDone
    <2> DEFINE k == Derive(NewPair, proposal[Higher])
    <2>4. PICK c \in up : net' = net \cup {Accept(Lower, c, NewPair)}
      BY <1>2, <2>1 DEF Approve
    <2> DEFINE a == Accept(Lower, c, NewPair)
    <2>5. /\ key' = [key EXCEPT ![Higher] = k] /\ store' = [store EXCEPT ![Higher] = k]
          /\ proposal' = [proposal EXCEPT ![Higher] = None]
          /\ UNCHANGED <<up, secret, outbox, spent>>
      BY <1>2, <2>1 DEF Approve, SetPeerKey
    <2>6. /\ a.to = Lower /\ a.type = "Accept" /\ a.conn = c /\ a.pub = NewPair
          /\ k = Derive(NewPair, secret[Lower]) /\ secret[Lower] # None
      BY <2>1, <2>3 DEF Accept
    <2> HIDE DEF k, a
    <2>7. Exchange' = {a}
      BY <2>2, <2>4, <2>6 DEF Exchange, a
    <2>8. StoreFirst' /\ StoresAgree' /\ LowerDone' /\ HigherDone'
      BY <2>3, <2>5 DEF AgreeInv, StoreFirst, StoresAgree, LowerDone, HigherDone
    <2>9. OneSided'
      BY <2>4, <2>5, <2>6, <2>7 DEF AgreeInv, OneSided, a
    <2>10. OnePlace' /\ Proposed' /\ Prompted' /\ Answered'
      BY <2>5, <2>6, <2>7 DEF OnePlace, Proposed, Prompted, Answered
    <2> QED
      BY <2>5, <2>8, <2>9, <2>10 DEF AgreeInv
  <1>3. CASE Deny(n)
    <2>1. Exchange' = {}
      BY <1>3 DEF Deny, Exchange
    <2>2. /\ UNCHANGED <<key, store, secret, outbox>> /\ net' = {} /\ up' = {}
          /\ \A q \in Node : proposal'[q] \in {proposal[q], None}
      BY <1>3 DEF Deny
    <2> QED
      BY <2>1, <2>2
      DEF AgreeInv, StoreFirst, OneSided, OnePlace, LowerDone, HigherDone, Proposed, Prompted,
          Answered, StoresAgree
  <1>4. CASE Revoke(n)
    <2>1. Exchange' = Exchange
      BY <1>4 DEF Revoke, Exchange
    <2>2. /\ \A q \in Node : /\ store'[q] = IF q = n THEN None ELSE store[q]
                             /\ key'[q] = IF q = n THEN None ELSE key[q]
          /\ UNCHANGED <<up, secret, proposal, outbox, net>>
      BY <1>4 DEF Revoke
    <2> QED
      BY <2>1, <2>2
      DEF AgreeInv, StoreFirst, OneSided, OnePlace, LowerDone, HigherDone, Proposed, Prompted,
          Answered, StoresAgree
  <1> QED
    BY <1>2, <1>3, <1>4

\* What is muddled stays so.
LEMMA MuddledStays ==
    ASSUME [Next]_vars, ~ muddled'
    PROVE  ~ muddled
  <1>1. \/ UNCHANGED muddled
        \/ \E b : muddled' = (muddled \/ b)
        \/ muddled' = TRUE
    <2>1. CASE UNCHANGED vars
      BY <2>1 DEF vars
    <2>2. CASE \E c \in Conn : Open(c) \/ Close(c)
      BY <2>2 DEF Open, Close
    <2>3. CASE Lose
      BY <2>3 DEF Lose
    <2>4. ASSUME NEW n \in Node, \/ DialFails(n) \/ OnMessage(n) \/ Deny(n) \/ Revoke(n)
                                 \/ \E lost \in BOOLEAN : Restart(n, lost)
          PROVE  UNCHANGED muddled
      BY <2>4 DEF DialFails, OnMessage, OnPropose, OnAccept, OnAnnouncement, Deny, Revoke,
         Restart
    <2>5. ASSUME NEW n \in Node, Approve(n)
          PROVE  \E b : muddled' = (muddled \/ b)
      BY <2>5 DEF Approve
    <2> QED
      BY <2>1, <2>2, <2>3, <2>4, <2>5 DEF Next
  <1> QED
    BY <1>1

LEMMA AgreeNext == AgreeInv /\ [Next]_vars /\ ~ muddled' => AgreeInv'
  <1>1. SUFFICES ASSUME ~ muddled', AgreeInv, [Next]_vars PROVE AgreeInv'
    OBVIOUS
  <1>2. TypeInv'
    BY <1>1, TypeNext DEF AgreeInv
  <1>3. CASE UNCHANGED vars
    BY <1>1, <1>2, <1>3
    DEF vars, keyVars, AgreeInv, StoreFirst, OneSided, OnePlace, LowerDone, HigherDone,
        Proposed, Prompted, Answered, StoresAgree, Exchange
  <1>4. CASE \/ \E c \in Conn : Open(c) \/ Close(c)
             \/ Lose
             \/ \E n \in Node : DialFails(n) \/ (\E lost \in BOOLEAN : Restart(n, lost))
    BY <1>1, <1>2, <1>4, AgreeOpen, AgreeLinks
  <1>5. ASSUME NEW n \in Node, OnMessage(n)
        PROVE  AgreeInv'
    BY <1>1, <1>2, <1>5, AgreePropose, AgreeAccept, AgreeAnnouncement DEF OnMessage
  <1>6. CASE \E n \in Node : Approve(n) \/ Deny(n) \/ Revoke(n)
    BY <1>1, <1>2, <1>6, AgreeUsers
  <1> QED
    BY <1>1, <1>3, <1>4, <1>5, <1>6 DEF Next

\* An exchange never ends in two keys, through any connections, restarts, lost
\* key stores, denials and revocations, until a connection comes up beside
\* another one, a message is lost on a connection that stays, or an outdated
\* prompt is approved: the invariant KeyAgreement.
THEOREM KeyAgreementHolds == Spec => []KeyAgreement
  <1> DEFINE Inv == muddled \/ AgreeInv
  <1>1. Inv => KeyAgreement
    <2>1. SUFFICES ASSUME AgreeInv, key[Lower] # None, key[Higher] # None
                   PROVE  key[Lower] = key[Higher]
      BY DEF KeyAgreement, Node
    <2> QED
      BY <2>1 DEF AgreeInv, StoreFirst, StoresAgree, Node
  <1>2. Init => Inv
    BY AgreeInit
  <1>3. Inv /\ [Next]_vars => Inv'
    BY MuddledStays, AgreeNext
  <1> QED
    BY <1>1, <1>2, <1>3, PTL DEF Spec

=============================================================================
