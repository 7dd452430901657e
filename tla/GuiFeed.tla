------------------------------ MODULE GuiFeed ------------------------------
(***************************************************************************)
(* What the browser tabs of a node show (gui/ws.rs, gui/types.rs; main.rs, *)
(* the event channel, the broadcast and the accept task; sync/handler.rs,  *)
(* where events are sent; the handlers of the page, for what a tab does).  *)
(*                                                                         *)
(* Handlers put events into an unbounded channel; a task moves them, in    *)
(* order, to a broadcast channel, of which every attached tab has a        *)
(* receiver of limited capacity.  A tab subscribes, then gets a snapshot   *)
(* of some of the state, then the events.  Its task, the main loop and the *)
(* forwarding task interleave freely; sockets close and pages are loaded   *)
(* anew at any time.                                                       *)
(*                                                                         *)
(* Abstractions.  The subjects are those a user acts upon: who is there,   *)
(* who waits for an approval, who is trusted, and vault mode.  Keys are in *)
(* module Tofu: here a peer without one may propose or be keyed, once      *)
(* connected, as it pleases.  The browser takes what the socket brings at  *)
(* once.                                                                   *)
(***************************************************************************)
EXTENDS Integers, Sequences, FiniteSets, SequencesExt

CONSTANTS
    Peer,
    Tab,        \* the tabs, each with what its page remembers
    Capacity,   \* of a receiver of the broadcast channel
    Budget      \* Budget[k]: how many times k may happen

Kind == {"discover", "expire", "connect", "close", "propose", "key", "command", "attach",
         "reload"}

ASSUME CapacityAssumption == Capacity \in Nat \ {0}
ASSUME BudgetAssumption == Budget \in [Kind -> Nat]

VARIABLES
    known,      \* known_addrs
    connected,  \* connected_peers
    pending,    \* pending_approvals
    trusted,    \* the key store
    vaultMode,  \* vault_mode
    events,     \* the channel of the handlers (event_tx)
    commands,   \* the channel of the tabs (cmd_tx)
    phase,      \* phase[t]: "closed", then "subscribed" and "greeted" while the
                \* snapshot is sent, then "open"
    ring,       \* ring[t]: what the receiver of t holds
    view,       \* view[t]: what the page shows
    spent,      \* how often each kind of thing happened
    stale       \* history: subjects whose last event t could not hear

node == <<known, connected, pending, trusted, vaultMode>>
tabs == <<phase, ring, view, stale>>
vars == <<node, events, commands, tabs, spent>>

PeerDiscovered(p) == [type |-> "PeerDiscovered", peer |-> p]
PeerConnected(p) == [type |-> "PeerConnected", peer |-> p]
PeerDisconnected(p) == [type |-> "PeerDisconnected", peer |-> p]
PeerApprovalRequired(p) == [type |-> "PeerApprovalRequired", peer |-> p]
PeerKeyRevoked(p) == [type |-> "PeerKeyRevoked", peer |-> p]
TrustedPeers(S) == [type |-> "TrustedPeers", peers |-> S]
VaultModeChanged(on) == [type |-> "VaultModeChanged", on |-> on]

ApprovePeer(p) == [type |-> "ApprovePeer", peer |-> p]
DenyPeer(p) == [type |-> "DenyPeer", peer |-> p]
RevokeKey(p) == [type |-> "RevokeKey", peer |-> p]
SetVaultMode(on) == [type |-> "SetVaultMode", on |-> on]

\* What an event is about.
There(p) == <<"there", p>>
Prompt(p) == <<"prompt", p>>
Trust(p) == <<"trust", p>>
Mode == <<"mode">>

Subjects(e) ==
    CASE e.type \in {"PeerDiscovered", "PeerConnected"} -> {There(e.peer)}
      [] e.type = "PeerDisconnected" -> {There(e.peer), Prompt(e.peer)}
      [] e.type = "PeerApprovalRequired" -> {Prompt(e.peer)}
      [] e.type = "PeerKeyRevoked" -> {Trust(e.peer)}
      [] e.type = "TrustedPeers" -> {Trust(p) : p \in Peer}
      [] e.type = "VaultModeChanged" -> {Mode}

AllSubjects(es) == UNION {Subjects(es[i]) : i \in DOMAIN es}

NewPage == [peers |-> {}, pending |-> {}, trusted |-> {}, vaultMode |-> FALSE]

Spend(k) == /\ spent[k] < Budget[k]
            /\ spent' = [spent EXCEPT ![k] = @ + 1]

Emit(es) == events' = events \o es

-----------------------------------------------------------------------------
\* The node may be started with --vault, which no page knows.
Init ==
    /\ known = {}
    /\ connected = {}
    /\ pending = {}
    /\ trusted \in {{}, Peer}
    /\ vaultMode \in BOOLEAN
    /\ events = <<>>
    /\ commands = <<>>
    /\ phase = [t \in Tab |-> "closed"]
    /\ ring = [t \in Tab |-> <<>>]
    /\ view = [t \in Tab |-> NewPage]
    /\ spent = [k \in Kind |-> 0]
    /\ stale = [t \in Tab |-> IF vaultMode THEN {Mode} ELSE {}]

-----------------------------------------------------------------------------
(* The network.                                                             *)

Discovered(p) ==
    /\ Spend("discover")
    /\ known' = known \cup {p}
    /\ Emit(<<PeerDiscovered(p)>>)
    /\ UNCHANGED <<connected, pending, trusted, vaultMode, commands, tabs>>

\* No event tells that a peer expired.
Expired(p) ==
    /\ Spend("expire")
    /\ p \in known
    /\ known' = known \ {p}
    /\ UNCHANGED <<connected, pending, trusted, vaultMode, events, commands, tabs>>

ConnectionEstablished(p) ==
    /\ Spend("connect")
    /\ p \notin connected
    /\ connected' = connected \cup {p}
    /\ Emit(<<PeerConnected(p)>>)
    /\ UNCHANGED <<known, pending, trusted, vaultMode, commands, tabs>>

\* A prompt that was not answered stays in pending_approvals.
ConnectionClosed(p) ==
    /\ Spend("close")
    /\ p \in connected
    /\ connected' = connected \ {p}
    /\ Emit(<<PeerDisconnected(p)>>)
    /\ UNCHANGED <<known, pending, trusted, vaultMode, commands, tabs>>

\* A peer without a key proposes: the user is asked.
KeyExchangePropose(p) ==
    /\ Spend("propose")
    /\ p \in connected \ trusted
    /\ pending' = pending \cup {p}
    /\ Emit(<<PeerApprovalRequired(p)>>)
    /\ UNCHANGED <<known, connected, trusted, vaultMode, commands, tabs>>

\* An exchange this node began ends in a key: no event lists the peer.
KeyEstablished(p) ==
    /\ Spend("key")
    /\ p \in connected \ trusted
    /\ trusted' = trusted \cup {p}
    /\ UNCHANGED <<known, connected, pending, vaultMode, events, commands, tabs>>

-----------------------------------------------------------------------------
(* Commands.                                                                *)

\* The main loop takes a command.  An answer to a prompt that is gone has no
\* effect; one to deny also closes the connection, later.
Execute ==
    /\ commands # <<>>
    /\ commands' = Tail(commands)
    /\ LET c == Head(commands) IN
       \/ /\ c.type = "ApprovePeer"
          /\ trusted' = IF c.peer \in pending THEN trusted \cup {c.peer} ELSE trusted
          /\ pending' = pending \ {c.peer}
          /\ UNCHANGED <<vaultMode, events>>
       \/ /\ c.type = "DenyPeer"
          /\ pending' = pending \ {c.peer}
          /\ UNCHANGED <<trusted, vaultMode, events>>
       \/ /\ c.type = "RevokeKey"
          /\ trusted' = trusted \ {c.peer}
          /\ Emit(<<PeerKeyRevoked(c.peer), TrustedPeers(trusted \ {c.peer})>>)
          /\ UNCHANGED <<pending, vaultMode>>
       \/ /\ c.type = "SetVaultMode"
          /\ vaultMode' = c.on
          /\ Emit(<<VaultModeChanged(c.on)>>)
          /\ UNCHANGED <<pending, trusted>>
    /\ UNCHANGED <<known, connected, tabs, spent>>

\* The user of an open tab answers a prompt, which the page then drops,
Answer(t, p) ==
    /\ phase[t] = "open"
    /\ p \in view[t].pending
    /\ Spend("command")
    /\ \E c \in {ApprovePeer(p), DenyPeer(p)} : commands' = Append(commands, c)
    /\ view' = [view EXCEPT ![t].pending = @ \ {p}]
    /\ UNCHANGED <<node, events, phase, ring, stale>>

\* or revokes a key, or switches vault mode.
Command(t) ==
    /\ phase[t] = "open"
    /\ Spend("command")
    /\ \/ \E p \in view[t].trusted : commands' = Append(commands, RevokeKey(p))
       \/ commands' = Append(commands, SetVaultMode(~ view[t].vaultMode))
    /\ UNCHANGED <<node, events, tabs>>

-----------------------------------------------------------------------------
(* The feed.                                                                *)

\* Mutant: the receiver is made when the snapshot was sent.
ListensLate(t) == phase[t] = "open"

\* The receiver is made when the socket is accepted, before the snapshot.
Listens(t) == phase[t] # "closed"

Overflows(t) == Len(ring[t]) = Capacity

\* The oldest event goes when the receiver is full.
Received(t, e) ==
    IF ~ Listens(t) THEN ring[t]
    ELSE IF Overflows(t) THEN Append(Tail(ring[t]), e) ELSE Append(ring[t], e)

Unheard(t, e) ==
    IF phase[t] = "closed" THEN Subjects(e)
    ELSE IF Overflows(t) THEN Subjects(Head(ring[t])) ELSE {}

Forward ==
    /\ events # <<>>
    /\ events' = Tail(events)
    /\ ring' = [t \in Tab |-> Received(t, Head(events))]
    /\ stale' = [t \in Tab |-> stale[t] \cup Unheard(t, Head(events))]
    /\ UNCHANGED <<node, commands, phase, view, spent>>

Attach(t) ==
    /\ phase[t] = "closed"
    /\ Spend("attach")
    /\ phase' = [phase EXCEPT ![t] = "subscribed"]
    /\ UNCHANGED <<node, events, commands, ring, view, stale>>

\* The snapshot: trusted peers, if there are any,
SendTrusted(t) ==
    /\ phase[t] = "subscribed"
    /\ phase' = [phase EXCEPT ![t] = "greeted"]
    /\ view' = [view EXCEPT ![t].trusted = IF trusted = {} THEN @ ELSE trusted]
    /\ stale' = [stale EXCEPT ![t] = IF trusted = {} THEN @
                                    ELSE @ \ {Trust(p) : p \in Peer}]
    /\ UNCHANGED <<node, events, commands, ring, spent>>

\* then the peers known by mDNS; neither connections, prompts nor vault mode.
SendKnown(t) ==
    /\ phase[t] = "greeted"
    /\ phase' = [phase EXCEPT ![t] = "open"]
    /\ view' = [view EXCEPT ![t].peers = @ \cup known]
    /\ stale' = [stale EXCEPT ![t] = @ \ {There(p) : p \in known}]
    /\ UNCHANGED <<node, events, commands, ring, spent>>

\* What the page makes of an event.
Shown(v, e) ==
    CASE e.type \in {"PeerDiscovered", "PeerConnected"} ->
           [v EXCEPT !.peers = @ \cup {e.peer}]
      [] e.type = "PeerDisconnected" ->
           [v EXCEPT !.peers = @ \ {e.peer}, !.pending = @ \ {e.peer}]
      [] e.type = "PeerApprovalRequired" -> [v EXCEPT !.pending = @ \cup {e.peer}]
      [] e.type = "PeerKeyRevoked" -> [v EXCEPT !.trusted = @ \ {e.peer}]
      [] e.type = "TrustedPeers" -> [v EXCEPT !.trusted = e.peers]
      [] e.type = "VaultModeChanged" -> [v EXCEPT !.vaultMode = e.on]

\* After a disconnection the page shows no prompt, although one may be pending.
Deliver(t) ==
    /\ phase[t] = "open"
    /\ ring[t] # <<>>
    /\ LET e == Head(ring[t]) IN
       /\ view' = [view EXCEPT ![t] = Shown(@, e)]
       /\ stale' = [stale EXCEPT ![t] =
                      IF e.type = "PeerDisconnected"
                      THEN (@ \ {There(e.peer)}) \cup {Prompt(e.peer)}
                      ELSE @ \ Subjects(e)]
    /\ ring' = [ring EXCEPT ![t] = Tail(@)]
    /\ UNCHANGED <<node, events, commands, phase, spent>>

\* The socket closes; the page stays as it is and tries again.
Detach(t) ==
    /\ phase[t] # "closed"
    /\ phase' = [phase EXCEPT ![t] = "closed"]
    /\ ring' = [ring EXCEPT ![t] = <<>>]
    /\ stale' = [stale EXCEPT ![t] = @ \cup AllSubjects(ring[t])]
    /\ UNCHANGED <<node, events, commands, view, spent>>

\* What a page that is loaded anew cannot know before it is told.
Unknown ==
    {There(p) : p \in Peer} \cup {Prompt(p) : p \in Peer} \cup {Mode}

Reload(t) ==
    /\ phase[t] = "closed"
    /\ Spend("reload")
    /\ view' = [view EXCEPT ![t] = NewPage]
    /\ stale' = [stale EXCEPT ![t] = Unknown]
    /\ UNCHANGED <<node, events, commands, phase, ring>>

-----------------------------------------------------------------------------
Network(p) ==
    \/ Discovered(p)
    \/ Expired(p)
    \/ ConnectionEstablished(p)
    \/ ConnectionClosed(p)
    \/ KeyExchangePropose(p)
    \/ KeyEstablished(p)

Page(t) ==
    \/ Attach(t)
    \/ SendTrusted(t)
    \/ SendKnown(t)
    \/ Deliver(t)
    \/ Detach(t)
    \/ Reload(t)
    \/ Command(t)
    \/ \E p \in Peer : Answer(t, p)

Next ==
    \/ Execute
    \/ Forward
    \/ \E p \in Peer : Network(p)
    \/ \E t \in Tab : Page(t)

Spec == Init /\ [][Next]_vars

-----------------------------------------------------------------------------
(* Properties.                                                              *)

\* Everything the node has to say to t, and t to the node, was said.
Drained(t) ==
    /\ phase[t] = "open"
    /\ events = <<>>
    /\ commands = <<>>
    /\ ring[t] = <<>>

\* t shows the node's state, the subjects in S excepted: every peer that is
\* connected is there, every prompt that can be answered is shown, no revoked
\* peer is listed as trusted, and vault mode is as it is.
Shows(t, S) ==
    /\ \A p \in connected : There(p) \notin S => p \in view[t].peers
    /\ \A p \in pending \cap connected : Prompt(p) \notin S => p \in view[t].pending
    /\ \A p \in view[t].trusted : Trust(p) \notin S => p \in trusted
    /\ Mode \notin S => view[t].vaultMode = vaultMode

\* A tab that has caught up shows the node's state, of every subject whose last
\* event reached its receiver or was overtaken by its snapshot: nothing falls
\* between the snapshot and the events, whichever handler runs in between.
TabFollows == \A t \in Tab : Drained(t) => Shows(t, stale[t])

\* The same of every subject, also for a page that was just loaded and a tab
\* that was away: "sends a full state snapshot so a freshly opened or
\* reconnecting GUI tab never misses current state" (gui/ws.rs).
NeverMisses == \A t \in Tab : Drained(t) => Shows(t, {})

=============================================================================
