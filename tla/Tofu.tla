-------------------------------- MODULE Tofu --------------------------------
(***************************************************************************)
(* The TOFU key exchange between two Vitruvius nodes (tofu.rs, state.rs    *)
(* and the key-exchange arms of sync/handler.rs), with the users who       *)
(* approve, deny and revoke, and the connections it runs over.             *)
(*                                                                         *)
(* The node with the lower peer id proposes on every new connection while  *)
(* it has no key; the other one asks its user, and answers with a public   *)
(* key of its own.  Both derive the shared key from their secret and the   *)
(* other's public key, and store it.                                       *)
(*                                                                         *)
(* Abstractions.  A key pair is a number, its public half the same number, *)
(* and the key derived from secret s and public p is the set {s, p}: the   *)
(* two sides of an exchange derive the same one.  A connection comes up    *)
(* and goes down at both ends in one step.  Both nodes have a folder, and  *)
(* neither was given a shared key on the command line.                     *)
(***************************************************************************)
EXTENDS Integers, FiniteSets

CONSTANTS
    Lower, Higher,  \* the two nodes, in the order of their peer ids
    Conn,           \* the connections there may be between them at a time
    None,           \* no key, no secret, no proposal
    Patient,        \* BOOLEAN: users answer only a prompt that is up to date
    Budget          \* Budget[k]: how many times the environment does k

Node == {Lower, Higher}
Other(n) == IF n = Lower THEN Higher ELSE Lower

(***************************************************************************)
(* What happens a bounded number of times: a connection is dialled or      *)
(* closed, a message is lost, a user denies or revokes, a node restarts,   *)
(* or restarts without its key store ("wipe").                             *)
(***************************************************************************)
Kind == {"open", "close", "lose", "deny", "revoke", "restart", "wipe"}

ASSUME NodesAssumption == Lower # Higher

ASSUME NoneAssumption == None \notin Nat

ASSUME BoundsAssumption ==
    /\ Patient \in BOOLEAN
    /\ Budget \in [Kind -> Nat]

VARIABLES
    up,         \* the connections open between the two
    key,        \* key[n]: the entry for the other in peer_keys
    store,      \* store[n]: the entry for the other in vitruvius_tofu.json
    secret,     \* secret[n]: pending_exchanges
    proposal,   \* proposal[n]: pending_approvals
    outbox,     \* outbox[n]: requests waiting for a connection
    net,        \* requests and answers in flight
    made,       \* how many key pairs were generated
    asked,      \* history: nodes that asked for the manifest holding a key
    trust,      \* history: what the user of n last said about the other
    muddled,    \* history: a connection came up beside another, a message was
                \* lost on a connection that stays, or an old prompt approved
    spent       \* how often the environment did each kind of thing

keyVars == <<key, store, secret, proposal, made>>
vars == <<up, keyVars, outbox, net, asked, trust, muddled, spent>>

-----------------------------------------------------------------------------
Propose(n, c, p)  == [type |-> "Propose", to |-> n, conn |-> c, pub |-> p]
Accept(n, c, p)   == [type |-> "Accept", to |-> n, conn |-> c, pub |-> p]
\* An Accept that answers a Propose, over the connection that brought it.
Reply(n, c, p)    == [type |-> "Reply", to |-> n, conn |-> c, pub |-> p]
Announcement(n, c) == [type |-> "Announcement", to |-> n, conn |-> c, pub |-> None]

\* A new pair, and the key that secret s and the other's public half p give.
NewPair == made + 1
Derive(s, p) == {s, p}

\* The key n has once it has looked into its store.
Loaded(n) == IF key[n] # None THEN key[n] ELSE store[n]

\* Mutant: both sides propose.
InitiatesBoth(n) == Loaded(n) = None

\* Only the lower of the two ids proposes, and only without a key.
Initiates(n) == n = Lower /\ Loaded(n) = None

\* Mutant: everybody is a known peer.
KnownEverybody(n) == TRUE

KnownPeer(n) == Loaded(n) # None

\* set_peer_key: the store first, then the memory.
SetPeerKey(n, k) == /\ store' = [store EXCEPT ![n] = k]
                    /\ key' = [key EXCEPT ![n] = k]

Spend(k) == /\ spent[k] < Budget[k]
            /\ spent' = [spent EXCEPT ![k] = @ + 1]

Init ==
    /\ up = {}
    /\ key = [n \in Node |-> None]
    /\ \/ store = [n \in Node |-> None] /\ made = 0
       \/ store = [n \in Node |-> {1, 2}] /\ made = 2
    /\ secret = [n \in Node |-> None]
    /\ proposal = [n \in Node |-> None]
    /\ outbox = [n \in Node |-> {}]
    /\ net = {}
    /\ asked = {}
    /\ trust = [n \in Node |-> IF store[n] = None THEN "new" ELSE "approved"]
    /\ muddled = FALSE
    /\ spent = [k \in Kind |-> 0]

-----------------------------------------------------------------------------
(* Connections.                                                             *)

\* ConnectionEstablished at both ends: the stored keys are loaded, the folders
\* announced, the manifest requested by who has a key, and the exchange begun
\* by who has to.  What waited for a connection goes out on it.
Open(c) ==
    /\ Spend("open")
    /\ c \notin up
    /\ up' = up \cup {c}
    /\ key' = [n \in Node |-> Loaded(n)]
    /\ asked' = asked \cup {n \in Node : Loaded(n) # None}
    /\ LET begin == {n \in Node : Initiates(n)}
           pair(n) == made + (IF n = Higher /\ Lower \in begin THEN 2 ELSE 1)
           waiting == UNION {outbox[n] : n \in Node}
       IN /\ secret' = [n \in Node |-> IF n \in begin THEN pair(n) ELSE secret[n]]
          /\ made' = made + Cardinality(begin)
          /\ net' = net \cup {Announcement(n, c) : n \in Node}
                        \cup {Propose(Other(n), c, pair(n)) : n \in begin}
                        \cup {[m EXCEPT !.conn = c] : m \in waiting}
    /\ outbox' = [n \in Node |-> {}]
    /\ muddled' = (muddled \/ up # {})
    /\ UNCHANGED <<store, proposal, trust>>

\* ConnectionClosed at both ends, for whatever reason: a GuiCommand too.
Close(c) ==
    /\ Spend("close")
    /\ c \in up
    /\ up' = up \ {c}
    /\ net' = {m \in net : m.conn # c}
    /\ asked' = IF up = {c} THEN {} ELSE asked
    /\ UNCHANGED <<keyVars, outbox, trust, muddled>>

\* A request that waited for a connection fails: OutboundFailure.
DialFails(n) ==
    /\ up = {}
    /\ outbox[n] # {}
    /\ outbox' = [outbox EXCEPT ![n] = {}]
    /\ UNCHANGED <<up, keyVars, net, asked, trust, muddled, spent>>

\* A message is lost although its connection stays.
Lose ==
    /\ Spend("lose")
    /\ \E m \in net : net' = net \ {m}
    /\ muddled' = TRUE
    /\ UNCHANGED <<up, keyVars, outbox, asked, trust>>

\* The process of n dies and starts again, with its key store or without.
Restart(n, lost) ==
    /\ Spend(IF lost THEN "wipe" ELSE "restart")
    /\ store' = IF lost THEN [store EXCEPT ![n] = None] ELSE store
    /\ key' = [key EXCEPT ![n] = None]
    /\ secret' = [secret EXCEPT ![n] = None]
    /\ proposal' = [proposal EXCEPT ![n] = None]
    /\ outbox' = [outbox EXCEPT ![n] = {}]
    /\ up' = {}
    /\ net' = {}
    /\ asked' = {}
    /\ UNCHANGED <<made, trust, muddled>>

-----------------------------------------------------------------------------
(* Messages.                                                                *)

\* A proposal of a known peer is answered at once with a new key; that of
\* another one waits for the user, in the place of an earlier proposal.
OnPropose(n, m) ==
    /\ m \in net /\ m.to = n /\ m.type = "Propose"
    /\ IF KnownPeer(n)
       THEN /\ SetPeerKey(n, Derive(NewPair, m.pub))
            /\ made' = NewPair
            /\ net' = (net \ {m}) \cup {Reply(Other(n), m.conn, NewPair)}
            /\ UNCHANGED proposal
       ELSE /\ proposal' = [proposal EXCEPT ![n] = m.pub]
            /\ net' = net \ {m}
            /\ UNCHANGED <<key, store, made>>
    /\ UNCHANGED <<up, secret, outbox, asked, trust, muddled, spent>>

\* The pending secret is taken out of pending_exchanges.
SecretTaken(n) == [secret EXCEPT ![n] = None]

\* Mutants: an Accept that comes as a request finds no exchange; one that
\* nobody waits for is taken too.
CompletesReply(n, m) == secret[n] # None /\ m.type = "Reply"
CompletesAlways(n, m) == TRUE

\* An exchange is pending: without one an Accept is ignored.
Completes(n, m) == secret[n] # None

\* The other side's public key.  Only a reply is followed by a request for
\* the manifest.
OnAccept(n, m) ==
    /\ m \in net /\ m.to = n /\ m.type \in {"Accept", "Reply"}
    /\ secret' = SecretTaken(n)
    /\ IF Completes(n, m)
       THEN /\ SetPeerKey(n, Derive(secret[n], m.pub))
            /\ asked' = IF m.type = "Reply" THEN asked \cup {n} ELSE asked
       ELSE /\ key' = [key EXCEPT ![n] = Loaded(n)]
            /\ UNCHANGED <<store, asked>>
    /\ net' = net \ {m}
    /\ UNCHANGED <<up, proposal, made, outbox, trust, muddled, spent>>

\* An announcement is answered with a request for the manifest.
OnAnnouncement(n, m) ==
    /\ m \in net /\ m.to = n /\ m.type = "Announcement"
    /\ key' = [key EXCEPT ![n] = Loaded(n)]
    /\ asked' = IF Loaded(n) # None THEN asked \cup {n} ELSE asked
    /\ net' = net \ {m}
    /\ UNCHANGED <<up, store, secret, proposal, made, outbox, trust, muddled, spent>>

-----------------------------------------------------------------------------
(* Users.                                                                   *)

\* A prompt is up to date if the peer is there and no other proposal is on
\* its way.
UpToDate(n) == up # {} /\ \A m \in net : ~ (m.type = "Propose" /\ m.to = n)

\* ApprovePeer: the key is derived and stored, and the public half sent over
\* some connection, or kept for the next one.
Approve(n) ==
    /\ proposal[n] # None
    /\ Patient => UpToDate(n)
    /\ proposal' = [proposal EXCEPT ![n] = None]
    /\ SetPeerKey(n, Derive(NewPair, proposal[n]))
    /\ made' = NewPair
    /\ trust' = [trust EXCEPT ![n] = "approved"]
    /\ muddled' = (muddled \/ ~ UpToDate(n))
    /\ IF up # {}
       THEN /\ \E c \in up : net' = net \cup {Accept(Other(n), c, NewPair)}
            /\ UNCHANGED outbox
       ELSE /\ outbox' = [outbox EXCEPT ![n] = @ \cup {Accept(Other(n), None, NewPair)}]
            /\ UNCHANGED net
    /\ UNCHANGED <<up, secret, asked, spent>>

\* DenyPeer: the proposal is dropped and every connection closed.
Deny(n) ==
    /\ proposal[n] # None
    /\ Spend("deny")
    /\ proposal' = [proposal EXCEPT ![n] = None]
    /\ up' = {}
    /\ net' = {}
    /\ asked' = {}
    /\ UNCHANGED <<key, store, secret, made, outbox, trust, muddled>>

\* RevokeKey: the key is removed from the store and from memory; the
\* connection stays.
Revoke(n) ==
    /\ Spend("revoke")
    /\ Loaded(n) # None
    /\ store' = [store EXCEPT ![n] = None]
    /\ key' = [key EXCEPT ![n] = None]
    /\ trust' = [trust EXCEPT ![n] = "revoked"]
    /\ asked' = asked \ {n}
    /\ UNCHANGED <<up, secret, proposal, made, outbox, net, muddled>>

-----------------------------------------------------------------------------
OnMessage(n) ==
    \E m \in net : OnPropose(n, m) \/ OnAccept(n, m) \/ OnAnnouncement(n, m)

Next ==
    \/ \E c \in Conn : Open(c) \/ Close(c)
    \/ Lose
    \/ \E n \in Node : \/ DialFails(n)
                       \/ \E lost \in BOOLEAN : Restart(n, lost)
                       \/ OnMessage(n)
                       \/ Approve(n)
                       \/ Deny(n)
                       \/ Revoke(n)

Spec == Init /\ [][Next]_vars

(***************************************************************************)
(* Fairness.  A message in flight is delivered and handled (its connection *)
(* would have to close otherwise), and a user who is asked and does not    *)
(* deny approves.  Nobody has to dial, close, revoke or restart.           *)
(***************************************************************************)
Fairness == \A n \in Node : WF_vars(OnMessage(n)) /\ WF_vars(Approve(n))

FairSpec == Spec /\ Fairness

-----------------------------------------------------------------------------
(* Properties.                                                              *)

SharedKey == {{i, j} : i, j \in 1 .. made}

\* Every variable has its type (AppState); keys come from pairs that were
\* generated, and a derived key always has two different halves.
TypeOK ==
    /\ up \subseteq Conn
    /\ made \in Nat
    /\ \A k \in {key, store} :
          /\ k \in [Node -> SharedKey \cup {None}]
          /\ \A n \in Node : k[n] # None => Cardinality(k[n]) = 2
    /\ \A s \in {secret, proposal} : s \in [Node -> (1 .. made) \cup {None}]
    /\ DOMAIN outbox = Node
    /\ \A n \in Node : outbox[n] \subseteq [type : {"Accept"}, to : {Other(n)},
                                            conn : {None}, pub : 1 .. made]
    /\ net \subseteq [type : {"Propose", "Accept", "Reply", "Announcement"},
                      to : Node, conn : Conn, pub : (1 .. made) \cup {None}]
    /\ asked \subseteq Node
    /\ trust \in [Node -> {"new", "approved", "revoked"}]
    /\ muddled \in BOOLEAN
    /\ spent \in [Kind -> Nat]

\* No key is being exchanged, and no Accept waits for a connection.
Settled == /\ \A n \in Node : outbox[n] = {}
           /\ \A m \in net : m.type = "Announcement"

\* Once no exchange is going on, two nodes that both hold a key hold the same
\* one, through any connections, restarts, lost key stores, denials and
\* revocations (the comment on the lower peer id in the ConnectionEstablished
\* arm speaks of "mismatched final keys"); as long as no connection came up
\* beside another one, no message was lost on a connection that stays, and no
\* prompt was approved that a later proposal or connection has overtaken.
KeyAgreement ==
    ~ muddled /\ Settled /\ (\A n \in Node : key[n] # None) => key[Lower] = key[Higher]

\* A node whose user is asked never holds a key that this user has not
\* approved since the last revocation, whatever arrives, is lost or restarts.
ConsentFirst == key[Higher] # None => trust[Higher] = "approved"

Paired == key[Lower] # None /\ key[Higher] = key[Lower]

\* A connection that stays up ends in a shared key, if no user refuses and no
\* store was lost, as long as only one exchange goes on at a time.
PairsUp ==
    (up # {}) ~> \/ Paired
                 \/ up = {}
                 \/ muddled \/ spent["revoke"] + spent["wipe"] > 0

\* A node that holds a key on a connection that stays up asks for the manifest.
ManifestFollows ==
    \A n \in Node : (key[n] # None /\ up # {})
                      ~> (n \in asked \/ key[n] = None \/ up = {})

=============================================================================
