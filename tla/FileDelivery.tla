---------------------------- MODULE FileDelivery ----------------------------
(***************************************************************************)
(* What the download of files promises, without queues, slots, windows,    *)
(* chunks, keys or messages: peers offer versions of files, a version that *)
(* was offered is under way until it is delivered or given up, and the     *)
(* folder changes in no other way than by the delivery of a whole version  *)
(* that is under way, by the notice of a peer that changed or removed the  *)
(* file, by the user of the folder, and by a write that fails, which may   *)
(* leave a part of a version that was under way.  A save of the user may   *)
(* make the files under way doubtful: other blocks may then be delivered   *)
(* in the place of theirs.  Module DeliveryMapping maps module Download to *)
(* it.                                                                     *)
(***************************************************************************)
EXTENDS Sequences, Naturals

CONSTANTS
    Peer,
    File,
    Data,       \* contents of a block
    Version,    \* Version[f]: what users save under the name f
    Absent      \* no file

VARIABLES
    offered,    \* offered[p][f]: what p has under the name f, or Absent
    underway,   \* underway[p][f]: versions of f that may be delivered from p
    notices,    \* the pairs of a peer and a file it gave notice of
    folder,     \* folder[f]: what there is under the name f, or Absent
    broken,     \* the files of which the last write failed or was doubtful
    doubtful    \* pairs of a peer and a file a user's save made doubtful

vars == <<offered, underway, notices, folder, broken, doubtful>>

\* Something that was under way may be given up in any step of its peer.
Shrinks(old, new) == \A f \in File : new[f] \subseteq old[f]

\* What may be written as f from p: a version under way, or, when that is
\* doubtful, any blocks in the place of its blocks.
Written(p, f) ==
    underway[p][f] \cup (IF <<p, f>> \in doubtful
                        THEN UNION {[DOMAIN c -> Data] : c \in underway[p][f]}
                        ELSE {})

Content == UNION {Version[f] : f \in File}

Init ==
    /\ offered \in [Peer -> {r \in [File -> Content \cup {Absent}] :
                               \A f \in File : r[f] \in Version[f] \cup {Absent}}]
    /\ underway = [p \in Peer |-> [f \in File |-> {}]]
    /\ notices = {}
    /\ folder \in {d \in [File -> Content \cup {Absent}] :
                     \A f \in File : d[f] \in Version[f] \cup {Absent}}
    /\ broken = {}
    /\ doubtful = {}

\* A user of p saves or removes f, of which p may give notice.
PeerEdits(p, f) ==
    /\ \E c \in Version[f] \cup {Absent} : offered' = [offered EXCEPT ![p][f] = c]
    /\ notices' \in {notices, notices \cup {<<p, f>>}}
    /\ UNCHANGED <<underway, folder, broken, doubtful>>

\* What p has now is under way.
Publish(p) ==
    /\ underway' = [underway EXCEPT ![p] =
                      [f \in File |-> underway[p][f] \cup ({offered[p][f]} \ {Absent})]]
    /\ UNCHANGED <<offered, notices, folder, broken, doubtful>>

\* Versions and notices are lost, superseded or not wanted.
GiveUp ==
    /\ \A p \in Peer : Shrinks(underway[p], underway'[p])
    /\ notices' \subseteq notices
    /\ doubtful' \subseteq doubtful
    /\ UNCHANGED <<offered, folder, broken>>

\* A version that is under way is there, whole unless it is doubtful.
Deliver(p, f) ==
    /\ \E c \in Written(p, f) : folder' = [folder EXCEPT ![f] = c]
    /\ broken' = IF <<p, f>> \in doubtful THEN broken \cup {f} ELSE broken \ {f}
    /\ \A q \in Peer : Shrinks(underway[q], underway'[q])
    /\ doubtful' \subseteq doubtful
    /\ UNCHANGED <<offered, notices>>

\* The write of one fails.
Break(p, f) ==
    /\ \E c \in Written(p, f) :
         \E left \in {folder[f], Absent} \cup {SubSeq(c, 1, n) : n \in 0 .. Len(c)} :
            folder' = [folder EXCEPT ![f] = left]
    /\ broken' = broken \cup {f}
    /\ \A q \in Peer : Shrinks(underway[q], underway'[q])
    /\ doubtful' \subseteq doubtful
    /\ UNCHANGED <<offered, notices>>

\* A notice of p takes f away.
TakeAway(p, f) ==
    /\ <<p, f>> \in notices
    /\ folder' = [folder EXCEPT ![f] = Absent]
    /\ broken' = broken \ {f}
    /\ notices' \in {notices, notices \ {<<p, f>>}}
    /\ UNCHANGED <<offered, underway, doubtful>>

\* A user saves or removes f, out of which something under way was being made.
UserEdits(f) ==
    /\ \E c \in Version[f] \cup {Absent} : folder' = [folder EXCEPT ![f] = c]
    /\ \A x \in doubtful' \ doubtful : underway[x[1]][x[2]] # {}
    /\ broken' = broken \ {f}
    /\ UNCHANGED <<offered, underway, notices>>

Next ==
    \/ GiveUp
    \/ \E p \in Peer : Publish(p)
    \/ \E p \in Peer, f \in File :
          PeerEdits(p, f) \/ Deliver(p, f) \/ Break(p, f) \/ TakeAway(p, f)
    \/ \E f \in File : UserEdits(f)

Spec == Init /\ [][Next]_vars

=============================================================================
