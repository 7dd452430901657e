--------------------------- MODULE GuiFeedProofs ---------------------------
(***************************************************************************)
(* Proofs about the feed of module GuiFeed: what a tab shows once it has   *)
(* caught up, for every set of peers and of tabs, every capacity of their  *)
(* receivers and any number of events.                                     *)
(***************************************************************************)
EXTENDS GuiFeed, SequenceTheorems, TLAPS

-----------------------------------------------------------------------------
(* The inductive invariant.                                                 *)

Event ==
    {PeerDiscovered(p) : p \in Peer} \cup {PeerConnected(p) : p \in Peer}
      \cup {PeerDisconnected(p) : p \in Peer}
      \cup {PeerApprovalRequired(p) : p \in Peer}
      \cup {PeerKeyRevoked(p) : p \in Peer}
      \cup {TrustedPeers(S) : S \in SUBSET Peer}
      \cup {VaultModeChanged(on) : on \in BOOLEAN}

UserCommand ==
    {ApprovePeer(p) : p \in Peer} \cup {DenyPeer(p) : p \in Peer}
      \cup {RevokeKey(p) : p \in Peer} \cup {SetVaultMode(on) : on \in BOOLEAN}

Shape ==
    [peers : SUBSET Peer, pending : SUBSET Peer, trusted : SUBSET Peer,
     vaultMode : BOOLEAN]

Types ==
    /\ connected \subseteq Peer
    /\ pending \subseteq Peer
    /\ trusted \subseteq Peer
    /\ known \subseteq Peer
    /\ vaultMode \in BOOLEAN
    /\ events \in Seq(Event)
    /\ commands \in Seq(UserCommand)
    /\ DOMAIN phase = Tab
    /\ ring \in [Tab -> Seq(Event)]
    /\ view \in [Tab -> Shape]
    /\ DOMAIN stale = Tab
    /\ \A t \in Tab : phase[t] = "closed" => ring[t] = <<>>

\* What is still on its way to a tab, oldest first.
Pipe(t) == ring[t] \o events

\* Whatever of the things in Wrong s says, it later says one of Right.
LastWord(s, Wrong, Right) ==
    \A i \in DOMAIN s : s[i] \in Wrong => \E j \in DOMAIN s : i < j /\ s[j] \in Right

Silent(s, x) == \A i \in DOMAIN s : x \notin Subjects(s[i])

\* The tab heard the last of subject x, and nothing about x is on its way.
Hears(t, x) == x \notin stale[t] /\ Silent(Pipe(t), x)

ThereInv(t, p) ==
    p \in connected =>
      /\ LastWord(Pipe(t), {PeerDisconnected(p)}, {PeerDiscovered(p), PeerConnected(p)})
      /\ Hears(t, There(p)) => p \in view[t].peers

Answered(p) ==
    \E i \in DOMAIN commands : commands[i] \in {ApprovePeer(p), DenyPeer(p)}

PromptInv(t, p) ==
    p \in pending /\ Hears(t, Prompt(p)) /\ ~ Answered(p) => p \in view[t].pending

Lists(p) == {TrustedPeers(S) : S \in {T \in SUBSET Peer : p \in T}}
Omits(p) == {PeerKeyRevoked(p)} \cup {TrustedPeers(S) : S \in SUBSET (Peer \ {p})}

TrustInv(t, p) ==
    p \notin trusted =>
      /\ LastWord(Pipe(t), Lists(p), Omits(p))
      /\ Hears(t, Trust(p)) => p \notin view[t].trusted

ModeInv(t) ==
    /\ LastWord(Pipe(t), {VaultModeChanged(~ vaultMode)}, {VaultModeChanged(vaultMode)})
    /\ Hears(t, Mode) => view[t].vaultMode = vaultMode

TabInv(t) ==
    /\ \A p \in Peer : ThereInv(t, p) /\ PromptInv(t, p) /\ TrustInv(t, p)
    /\ ModeInv(t)

FeedInv == Types /\ \A t \in Tab : TabInv(t)

-----------------------------------------------------------------------------
(* Events and what they are about.                                          *)

\* Subjects of different kinds, or about different peers, differ.
LEMMA SubjectsDiffer ==
  /\ \A p, q : /\ There(p) # Prompt(q)
               /\ There(p) # Trust(q)
               /\ Prompt(p) # Trust(q)
               /\ There(p) = There(q) => p = q
               /\ Prompt(p) = Prompt(q) => p = q
               /\ Trust(p) = Trust(q) => p = q
  /\ \A p : There(p) # Mode /\ Prompt(p) # Mode /\ Trust(p) # Mode
<1>1. ASSUME NEW p
      PROVE  /\ There(p)[1] = "there" /\ Prompt(p)[1] = "prompt" /\ Trust(p)[1] = "trust"
             /\ There(p)[2] = p /\ Prompt(p)[2] = p /\ Trust(p)[2] = p
  BY DEF There, Prompt, Trust
<1>2. Mode[1] = "mode"
  BY DEF Mode
<1> QED
  <2>1. /\ "there" # "prompt" /\ "there" # "trust" /\ "prompt" # "trust"
        /\ "there" # "mode" /\ "prompt" # "mode" /\ "trust" # "mode"
    OBVIOUS
  <2> QED
    BY <1>1, <1>2, <2>1

\* Every kind of event, and what it is about.
LEMMA SubjectsOf ==
  /\ \A p : /\ Subjects(PeerDiscovered(p)) = {There(p)}
            /\ Subjects(PeerConnected(p)) = {There(p)}
            /\ Subjects(PeerDisconnected(p)) = {There(p), Prompt(p)}
            /\ Subjects(PeerApprovalRequired(p)) = {Prompt(p)}
            /\ Subjects(PeerKeyRevoked(p)) = {Trust(p)}
  /\ \A S : Subjects(TrustedPeers(S)) = {Trust(p) : p \in Peer}
  /\ \A on : Subjects(VaultModeChanged(on)) = {Mode}
BY DEF Subjects, PeerDiscovered, PeerConnected, PeerDisconnected, PeerApprovalRequired,
       PeerKeyRevoked, TrustedPeers, VaultModeChanged

\* Events of different kinds differ.
LEMMA EventsDiffer ==
  /\ \A p : /\ PeerDiscovered(p).type = "PeerDiscovered"
            /\ PeerConnected(p).type = "PeerConnected"
            /\ PeerDisconnected(p).type = "PeerDisconnected"
            /\ PeerApprovalRequired(p).type = "PeerApprovalRequired"
            /\ PeerKeyRevoked(p).type = "PeerKeyRevoked"
            /\ PeerDiscovered(p).peer = p
            /\ PeerConnected(p).peer = p
            /\ PeerDisconnected(p).peer = p
            /\ PeerApprovalRequired(p).peer = p
            /\ PeerKeyRevoked(p).peer = p
  /\ \A S : TrustedPeers(S).type = "TrustedPeers" /\ TrustedPeers(S).peers = S
  /\ \A on : VaultModeChanged(on).type = "VaultModeChanged" /\ VaultModeChanged(on).on = on
BY DEF PeerDiscovered, PeerConnected, PeerDisconnected, PeerApprovalRequired,
       PeerKeyRevoked, TrustedPeers, VaultModeChanged

-----------------------------------------------------------------------------
(* Sequences of events.                                                     *)

\* One more thing is said: if it is not wrong, the last word stands.
LEMMA LastWordAppend ==
  ASSUME NEW D, NEW s \in Seq(D), NEW e, e \in D, NEW W, NEW R,
         e \notin W, LastWord(s, W, R) \/ e \in R
  PROVE  LastWord(Append(s, e), W, R)
<1>1. /\ Len(s) \in Nat /\ DOMAIN s = 1 .. Len(s)
      /\ DOMAIN Append(s, e) = 1 .. Len(s) + 1
      /\ \A i \in 1 .. Len(s) : Append(s, e)[i] = s[i]
      /\ Append(s, e)[Len(s) + 1] = e
  BY LenProperties, AppendProperties
<1> QED
  BY <1>1 DEF LastWord

LEMMA LastWordTail ==
  ASSUME NEW D, NEW s \in Seq(D), s # <<>>, NEW W, NEW R, LastWord(s, W, R)
  PROVE  LastWord(Tail(s), W, R)
<1>1. /\ Len(s) \in Nat \ {0} /\ DOMAIN s = 1 .. Len(s)
      /\ DOMAIN Tail(s) = 1 .. Len(s) - 1
      /\ \A i \in 1 .. Len(s) - 1 : Tail(s)[i] = s[i + 1]
  BY LenProperties, EmptySeq, HeadTailProperties
<1> SUFFICES ASSUME NEW i \in DOMAIN Tail(s), Tail(s)[i] \in W
             PROVE  \E j \in DOMAIN Tail(s) : i < j /\ Tail(s)[j] \in R
  BY DEF LastWord
<1>2. i + 1 \in DOMAIN s /\ s[i + 1] \in W
  BY <1>1
<1>3. PICK j \in DOMAIN s : i + 1 < j /\ s[j] \in R
  BY <1>2 DEF LastWord
<1>4. j - 1 \in DOMAIN Tail(s) /\ i < j - 1 /\ Tail(s)[j - 1] = s[j]
  BY <1>1, <1>3
<1> QED
  BY <1>3, <1>4

\* The later part of a sequence has its last word.
LEMMA LastWordSuffix ==
  ASSUME NEW D, NEW a \in Seq(D), NEW b \in Seq(D), NEW W, NEW R,
         LastWord(a \o b, W, R)
  PROVE  LastWord(b, W, R)
<1>1. /\ Len(a) \in Nat /\ Len(b) \in Nat /\ DOMAIN b = 1 .. Len(b)
      /\ DOMAIN (a \o b) = 1 .. Len(a) + Len(b)
      /\ \A i \in 1 .. Len(b) : (a \o b)[Len(a) + i] = b[i]
  <2>1. a \o b \in Seq(D) /\ Len(a \o b) = Len(a) + Len(b)
    BY ConcatProperties
  <2>2. \A i \in 1 .. Len(b) : (a \o b)[Len(a) + i] = b[i]
    BY LenProperties, ConcatProperties
  <2> QED
    BY <2>1, <2>2, LenProperties
<1> SUFFICES ASSUME NEW i \in DOMAIN b, b[i] \in W
             PROVE  \E j \in DOMAIN b : i < j /\ b[j] \in R
  BY DEF LastWord
<1>2. PICK j \in DOMAIN (a \o b) : Len(a) + i < j /\ (a \o b)[j] \in R
  <2>1. Len(a) + i \in DOMAIN (a \o b) /\ (a \o b)[Len(a) + i] \in W
    BY <1>1
  <2> QED
    BY <2>1 DEF LastWord
<1>3. j - Len(a) \in DOMAIN b /\ i < j - Len(a) /\ (a \o b)[j] = b[j - Len(a)]
  BY <1>1, <1>2
<1> QED
  BY <1>2, <1>3

\* A sequence is silent about x when each of its parts is.
LEMMA SilentParts ==
  ASSUME NEW D, NEW a \in Seq(D), NEW b \in Seq(D), NEW x
  PROVE  Silent(a \o b, x) <=> Silent(a, x) /\ Silent(b, x)
<1>1. /\ Len(a) \in Nat /\ Len(b) \in Nat /\ DOMAIN b = 1 .. Len(b) /\ DOMAIN a = 1 .. Len(a)
      /\ DOMAIN (a \o b) = 1 .. Len(a) + Len(b)
      /\ \A i \in 1 .. Len(a) : (a \o b)[i] = a[i]
      /\ \A i \in 1 .. Len(b) : (a \o b)[Len(a) + i] = b[i]
  <2>1. a \o b \in Seq(D) /\ Len(a \o b) = Len(a) + Len(b)
    BY ConcatProperties
  <2>2. \A i \in 1 .. Len(b) : (a \o b)[Len(a) + i] = b[i]
    BY LenProperties, ConcatProperties
  <2>3. \A i \in 1 .. Len(a) : (a \o b)[i] = a[i]
    BY LenProperties, ConcatProperties
  <2> QED
    BY <2>1, <2>2, <2>3, LenProperties
<1>2. ASSUME Silent(a \o b, x) PROVE Silent(a, x) /\ Silent(b, x)
  <2>1. ASSUME NEW i \in DOMAIN a PROVE x \notin Subjects(a[i])
    BY <1>1, <1>2 DEF Silent
  <2>2. ASSUME NEW i \in DOMAIN b PROVE x \notin Subjects(b[i])
    <3>1. Len(a) + i \in DOMAIN (a \o b)
      BY <1>1
    <3> QED
      BY <1>1, <1>2, <3>1 DEF Silent
  <2> QED
    BY <2>1, <2>2 DEF Silent
<1>3. ASSUME Silent(a, x), Silent(b, x), NEW i \in DOMAIN (a \o b)
      PROVE  x \notin Subjects((a \o b)[i])
  <2>1. CASE i \in 1 .. Len(a)
    BY <1>1, <1>3, <2>1 DEF Silent
  <2>2. CASE i - Len(a) \in 1 .. Len(b)
    <3>1. (a \o b)[i] = b[i - Len(a)]
      BY <1>1, <2>2
    <3> QED
      BY <1>1, <1>3, <2>2, <3>1 DEF Silent
  <2> QED
    BY <1>1, <2>1, <2>2
<1> QED
  BY <1>2, <1>3 DEF Silent

LEMMA SilentAppend ==
  ASSUME NEW D, NEW s \in Seq(D), NEW e, e \in D, NEW x, Silent(Append(s, e), x)
  PROVE  Silent(s, x) /\ x \notin Subjects(e)
<1>1. /\ Len(s) \in Nat /\ DOMAIN s = 1 .. Len(s)
      /\ DOMAIN Append(s, e) = 1 .. Len(s) + 1
      /\ \A i \in 1 .. Len(s) : Append(s, e)[i] = s[i]
      /\ Append(s, e)[Len(s) + 1] = e
  BY LenProperties, AppendProperties
<1>2. Len(s) + 1 \in DOMAIN Append(s, e)
  BY <1>1
<1>3. ASSUME NEW i \in DOMAIN s PROVE x \notin Subjects(s[i])
  <2>1. i \in DOMAIN Append(s, e) /\ Append(s, e)[i] = s[i]
    BY <1>1
  <2> QED
    BY <2>1 DEF Silent
<1>4. x \notin Subjects(e)
  BY <1>1, <1>2 DEF Silent
<1> QED
  BY <1>3, <1>4 DEF Silent

LEMMA SilentTail ==
  ASSUME NEW D, NEW s \in Seq(D), s # <<>>, NEW x, Silent(Tail(s), x),
         x \notin Subjects(Head(s))
  PROVE  Silent(s, x)
<1>1. /\ Len(s) \in Nat \ {0} /\ DOMAIN s = 1 .. Len(s)
      /\ DOMAIN Tail(s) = 1 .. Len(s) - 1 /\ Head(s) = s[1]
      /\ \A i \in 1 .. Len(s) - 1 : Tail(s)[i] = s[i + 1]
  BY LenProperties, EmptySeq, HeadTailProperties
<1> SUFFICES ASSUME NEW i \in DOMAIN s PROVE x \notin Subjects(s[i])
  BY DEF Silent
<1>2. CASE i = 1
  BY <1>1, <1>2
<1>3. CASE i # 1
  <2>1. i - 1 \in DOMAIN Tail(s) /\ Tail(s)[i - 1] = s[i]
    BY <1>1, <1>3
  <2> QED
    BY <2>1 DEF Silent
<1> QED
  BY <1>2, <1>3

\* An event that is wrong is not the last word: something about x follows it.
LEMMA WrongHead ==
  ASSUME NEW D, NEW s \in Seq(D), s # <<>>, NEW x, NEW W, NEW R,
         LastWord(s, W, R), Head(s) \in W, \A e \in R : x \in Subjects(e)
  PROVE  ~ Silent(Tail(s), x)
<1>1. /\ Len(s) \in Nat \ {0} /\ DOMAIN s = 1 .. Len(s)
      /\ DOMAIN Tail(s) = 1 .. Len(s) - 1 /\ Head(s) = s[1]
      /\ \A i \in 1 .. Len(s) - 1 : Tail(s)[i] = s[i + 1]
  BY LenProperties, EmptySeq, HeadTailProperties
<1>2. PICK j \in DOMAIN s : 1 < j /\ s[j] \in R
  BY <1>1 DEF LastWord
<1>3. j - 1 \in DOMAIN Tail(s) /\ Tail(s)[j - 1] = s[j]
  BY <1>1, <1>2
<1> QED
  BY <1>2, <1>3 DEF Silent

\* Concatenation and its parts.
LEMMA TailConcat ==
  ASSUME NEW D, NEW a \in Seq(D), NEW b \in Seq(D), a # <<>>
  PROVE  /\ Tail(a \o b) = Tail(a) \o b
         /\ Head(a \o b) = Head(a)
         /\ a \o b # <<>>
<1>1. /\ a \o b \in Seq(D) /\ Len(a \o b) = Len(a) + Len(b)
      /\ \A i \in 1 .. Len(a) + Len(b) :
           (a \o b)[i] = IF i <= Len(a) THEN a[i] ELSE b[i - Len(a)]
      /\ Len(a) \in Nat \ {0} /\ Len(b) \in Nat
  BY ConcatProperties, EmptySeq, LenProperties
<1>2. a \o b # <<>>
  BY <1>1, EmptySeq
<1>3. Tail(a) \in Seq(D) /\ Len(Tail(a)) = Len(a) - 1
      /\ \A i \in 1 .. Len(a) - 1 : Tail(a)[i] = a[i + 1]
  BY HeadTailProperties
<1>4. /\ Tail(a \o b) \in Seq(D) /\ Len(Tail(a \o b)) = Len(a) + Len(b) - 1
      /\ \A i \in 1 .. Len(a) + Len(b) - 1 : Tail(a \o b)[i] = (a \o b)[i + 1]
  BY <1>1, <1>2, HeadTailProperties
<1>5. /\ Tail(a) \o b \in Seq(D) /\ Len(Tail(a) \o b) = Len(a) + Len(b) - 1
      /\ \A i \in 1 .. Len(a) + Len(b) - 1 :
           (Tail(a) \o b)[i] = IF i <= Len(a) - 1 THEN Tail(a)[i] ELSE b[i - (Len(a) - 1)]
  <2>1. Len(Tail(a)) + Len(b) = Len(a) + Len(b) - 1
    BY <1>1, <1>3
  <2> QED
    BY <1>3, <2>1, ConcatProperties
<1>6. ASSUME NEW i \in 1 .. Len(a) + Len(b) - 1
      PROVE  Tail(a \o b)[i] = (Tail(a) \o b)[i]
  <2>1. CASE i <= Len(a) - 1
    BY <1>1, <1>3, <1>4, <1>5, <2>1
  <2>2. CASE ~ (i <= Len(a) - 1)
    <3>1. i + 1 \in 1 .. Len(a) + Len(b) /\ ~ (i + 1 <= Len(a))
          /\ i + 1 - Len(a) = i - (Len(a) - 1)
      BY <1>1, <2>2
    <3> QED
      BY <1>1, <1>4, <1>5, <2>2, <3>1
  <2> QED
    BY <2>1, <2>2
<1>7. Tail(a \o b) = Tail(a) \o b
  BY <1>4, <1>5, <1>6, SeqEqual
<1>8. Head(a \o b) = Head(a)
  BY <1>1, <1>2
<1> QED
  BY <1>2, <1>7, <1>8

LEMMA ConcatAppend ==
  ASSUME NEW D, NEW a \in Seq(D), NEW b \in Seq(D), NEW e \in D
  PROVE  a \o Append(b, e) = Append(a \o b, e)
<1>1. <<e>> \in Seq(D) /\ a \o b \in Seq(D)
  BY ConcatProperties
<1>2. Append(b, e) = b \o <<e>>
  BY AppendIsConcat
<1>3. Append(a \o b, e) = (a \o b) \o <<e>>
  BY <1>1, AppendIsConcat
<1>4. (a \o b) \o <<e>> = a \o (b \o <<e>>)
  BY <1>1, ConcatAssociative
<1> QED
  BY <1>2, <1>3, <1>4

\* The first of b goes to the end of a.
LEMMA HeadMoves ==
  ASSUME NEW D, NEW a \in Seq(D), NEW b \in Seq(D), b # <<>>
  PROVE  Append(a, Head(b)) \o Tail(b) = a \o b
<1>1. Head(b) \in D /\ Tail(b) \in Seq(D) /\ <<Head(b)>> \in Seq(D)
  BY HeadTailProperties
<1>2. Append(a, Head(b)) = a \o <<Head(b)>>
  BY <1>1, AppendIsConcat
<1>3. <<Head(b)>> \o Tail(b) = b
  <2>1. Len(b) \in Nat \ {0} /\ Head(b) = b[1]
    BY EmptySeq
  <2>2. Len(b) \in 1 .. Len(b) /\ 1 \in 1 .. Len(b)
    BY <2>1
  <2>3. SubSeq(b, 1, Len(b)) = <<b[1]>> \o SubSeq(b, 1 + 1, Len(b))
    BY <2>2, SubSeqRecursiveFirst
  <2>4. SubSeq(b, 1, Len(b)) = b /\ Tail(b) = SubSeq(b, 2, Len(b)) /\ 1 + 1 = 2
    BY SubSeqFull, TailIsSubSeq
  <2> QED
    BY <2>1, <2>3, <2>4
<1> QED
  BY <1>1, <1>2, <1>3, ConcatAssociative

-----------------------------------------------------------------------------
(* The way to a tab, one step at a time.                                    *)

LEMMA PipeType ==
  ASSUME Types, NEW t \in Tab
  PROVE  Pipe(t) \in Seq(Event)
<1>1. ring[t] \in Seq(Event) /\ events \in Seq(Event)
  BY DEF Types
<1> QED
  BY <1>1, ConcatProperties DEF Pipe

\* An event a handler sends is the last on its way to every tab.
LEMMA PipeEmit ==
  ASSUME Types, NEW t \in Tab, NEW e \in Event, events' = Append(events, e),
         ring' = ring
  PROVE  Pipe(t)' = Append(Pipe(t), e)
<1>1. ring[t] \in Seq(Event) /\ events \in Seq(Event)
  BY DEF Types
<1>2. ring[t] \o Append(events, e) = Append(ring[t] \o events, e)
  <2>1. ASSUME NEW a \in Seq(Event), NEW b \in Seq(Event)
        PROVE  a \o Append(b, e) = Append(a \o b, e)
    BY ConcatAppend
  <2> QED
    BY <1>1, <2>1
<1>3. Pipe(t)' = ring[t] \o Append(events, e)
  BY DEF Pipe
<1> QED
  BY <1>2, <1>3 DEF Pipe

\* A step that tells t nothing: t hears no more than before, and every last
\* word stays the last.
Fades(t) ==
    /\ \A x : Hears(t, x)' => Hears(t, x)
    /\ \A W, R : LastWord(Pipe(t), W, R) => LastWord(Pipe(t)', W, R)

LEMMA FadesStutter ==
  ASSUME NEW t \in Tab, events' = events, ring'[t] = ring[t], stale[t] \subseteq stale'[t]
  PROVE  Fades(t)
<1>1. Pipe(t)' = Pipe(t)
  BY DEF Pipe
<1> QED
  BY <1>1 DEF Fades, Hears

\* An event that is lost, or leaves with its subjects stale.
LEMMA FadesTail ==
  ASSUME Types, NEW t \in Tab, Pipe(t) # <<>>, Pipe(t)' = Tail(Pipe(t)),
         stale'[t] = stale[t] \cup Subjects(Head(Pipe(t)))
  PROVE  Fades(t)
<1>1. Pipe(t) \in Seq(Event)
  BY PipeType
<1>2. ASSUME NEW x, Hears(t, x)' PROVE Hears(t, x)
  <2>1. Silent(Tail(Pipe(t)), x) /\ x \notin Subjects(Head(Pipe(t))) /\ x \notin stale[t]
    <3>1. x \notin stale'[t] /\ Silent(Pipe(t)', x)
      BY <1>2 DEF Hears
    <3> QED
      BY <3>1
  <2> QED
    BY <1>1, <2>1, SilentTail DEF Hears
<1>3. ASSUME NEW W, NEW R, LastWord(Pipe(t), W, R) PROVE LastWord(Pipe(t)', W, R)
  BY <1>1, <1>3, LastWordTail
<1> QED
  BY <1>2, <1>3 DEF Fades

\* The task that moves events to the receivers.
LEMMA FadesForward ==
  ASSUME Types, NEW t \in Tab, Forward
  PROVE  Fades(t)
<1>1. /\ ring[t] \in Seq(Event) /\ events \in Seq(Event) /\ events # <<>>
      /\ events' = Tail(events)
      /\ ring'[t] = Received(t, Head(events))
      /\ stale'[t] = stale[t] \cup Unheard(t, Head(events))
  BY DEF Types, Forward
<1>2. Head(events) \in Event /\ Tail(events) \in Seq(Event)
  BY <1>1, HeadTailProperties
<1>3. CASE phase[t] = "closed"
  <2>1. ring[t] = <<>> /\ ring'[t] = <<>>
        /\ Unheard(t, Head(events)) = Subjects(Head(events))
    BY <1>1, <1>3 DEF Types, Received, Listens, Unheard
  <2>2. Pipe(t) = events /\ Pipe(t)' = Tail(events)
    BY <1>1, <1>2, <2>1, ConcatEmptySeq DEF Pipe
  <2> QED
    BY <1>1, <2>1, <2>2, FadesTail
<1>4. CASE phase[t] # "closed" /\ Overflows(t)
  <2>1. /\ ring[t] # <<>>
        /\ ring'[t] = Append(Tail(ring[t]), Head(events))
        /\ Unheard(t, Head(events)) = Subjects(Head(ring[t]))
    <3>1. Len(ring[t]) # 0
      BY <1>4, CapacityAssumption DEF Overflows
    <3> QED
      BY <1>1, <1>4, <3>1, EmptySeq DEF Received, Listens, Unheard
  <2>2. Tail(ring[t]) \in Seq(Event)
    BY <1>1, <2>1, HeadTailProperties
  <2>3. Pipe(t)' = Tail(ring[t]) \o events
    BY <1>1, <2>1, <2>2, HeadMoves DEF Pipe
  <2>4. Pipe(t) # <<>> /\ Tail(Pipe(t)) = Tail(ring[t]) \o events
        /\ Head(Pipe(t)) = Head(ring[t])
    BY <1>1, <2>1, TailConcat DEF Pipe
  <2> QED
    BY <1>1, <2>1, <2>3, <2>4, FadesTail
<1>5. CASE phase[t] # "closed" /\ ~ Overflows(t)
  <2>1. ring'[t] = Append(ring[t], Head(events)) /\ Unheard(t, Head(events)) = {}
    BY <1>1, <1>5 DEF Received, Listens, Unheard
  <2>2. Pipe(t)' = Pipe(t)
    BY <1>1, <2>1, HeadMoves DEF Pipe
  <2> QED
    BY <1>1, <2>1, <2>2 DEF Fades, Hears
<1> QED
  BY <1>3, <1>4, <1>5

\* A socket that closes.
LEMMA FadesDetach ==
  ASSUME Types, NEW t \in Tab, Detach(t)
  PROVE  Fades(t)
<1>1. /\ ring[t] \in Seq(Event) /\ events \in Seq(Event) /\ events' = events
      /\ ring'[t] = <<>>
      /\ stale'[t] = stale[t] \cup AllSubjects(ring[t])
  BY DEF Types, Detach
<1>2. Pipe(t)' = events
  BY <1>1, ConcatEmptySeq DEF Pipe
<1>3. ASSUME NEW x, Hears(t, x)' PROVE Hears(t, x)
  <2>1. x \notin stale[t] /\ x \notin AllSubjects(ring[t]) /\ Silent(events, x)
    <3>1. x \notin stale'[t] /\ Silent(Pipe(t)', x)
      BY <1>3 DEF Hears
    <3> QED
      BY <1>1, <1>2, <3>1
  <2>2. Silent(ring[t], x)
    BY <2>1 DEF Silent, AllSubjects
  <2> QED
    BY <1>1, <2>1, <2>2, SilentParts DEF Hears, Pipe
<1>4. ASSUME NEW W, NEW R, LastWord(Pipe(t), W, R) PROVE LastWord(Pipe(t)', W, R)
  BY <1>1, <1>2, <1>4, LastWordSuffix DEF Pipe
<1> QED
  BY <1>3, <1>4 DEF Fades

-----------------------------------------------------------------------------
(* The invariant at a tab, one step at a time.                              *)

LEMMA FadesKeeps ==
  ASSUME NEW t \in Tab, TabInv(t), Fades(t),
         connected' = connected, trusted \subseteq trusted', vaultMode' = vaultMode,
         view'[t].peers = view[t].peers, view'[t].trusted = view[t].trusted,
         view'[t].vaultMode = view[t].vaultMode,
         \A p \in pending' : ~ Answered(p)' =>
           /\ p \in pending /\ ~ Answered(p)
           /\ p \in view[t].pending => p \in view'[t].pending
  PROVE  TabInv(t)'
<1>1. ASSUME NEW p \in Peer PROVE ThereInv(t, p)'
  BY DEF TabInv, ThereInv, Fades
<1>2. ASSUME NEW p \in Peer PROVE PromptInv(t, p)'
  BY DEF TabInv, PromptInv, Fades
<1>3. ASSUME NEW p \in Peer PROVE TrustInv(t, p)'
  <2>1. SUFFICES ASSUME p \notin trusted' PROVE TrustInv(t, p)'
    BY DEF TrustInv
  <2>2. /\ LastWord(Pipe(t), Lists(p), Omits(p))
        /\ Hears(t, Trust(p)) => p \notin view[t].trusted
    BY <2>1 DEF TabInv, TrustInv
  <2>3. Lists(p)' = Lists(p) /\ Omits(p)' = Omits(p)
    BY DEF Lists, Omits, TrustedPeers, PeerKeyRevoked
  <2>4. LastWord(Pipe(t)', Lists(p), Omits(p))
    BY <2>2 DEF Fades
  <2>5. Hears(t, Trust(p))' => p \notin view'[t].trusted
    BY <2>2 DEF Fades, Trust
  <2> QED
    BY <2>3, <2>4, <2>5 DEF TrustInv
<1>4. ModeInv(t)'
  BY DEF TabInv, ModeInv, Fades
<1> QED
  BY <1>1, <1>2, <1>3, <1>4 DEF TabInv

\* One event more.
LEMMA HearsEmit ==
  ASSUME Types, NEW t \in Tab, NEW e \in Event, Pipe(t)' = Append(Pipe(t), e),
         stale'[t] = stale[t], NEW x, Hears(t, x)'
  PROVE  Hears(t, x) /\ x \notin Subjects(e)
<1>1. Pipe(t) \in Seq(Event)
  BY PipeType
<1>2. x \notin stale[t] /\ Silent(Append(Pipe(t), e), x)
  <2>1. x \notin stale'[t] /\ Silent(Pipe(t)', x)
    BY DEF Hears
  <2> QED
    BY <2>1
<1> QED
  BY <1>1, <1>2, SilentAppend DEF Hears

LEMMA EmitKeeps ==
  ASSUME Types, NEW t \in Tab, TabInv(t), NEW e \in Event,
         Pipe(t)' = Append(Pipe(t), e), stale'[t] = stale[t], view'[t] = view[t],
         \A p \in connected' :
           /\ e # PeerDisconnected(p)
           /\ p \in connected \/ e \in {PeerDiscovered(p), PeerConnected(p)},
         \A p \in pending' : ~ Answered(p)' =>
           Prompt(p) \in Subjects(e) \/ (p \in pending /\ ~ Answered(p)),
         trusted' = trusted,
         \A p \in Peer \ trusted : e \notin Lists(p),
         \/ vaultMode' = vaultMode /\ \A on \in BOOLEAN : e # VaultModeChanged(on)
         \/ vaultMode' \in BOOLEAN /\ e = VaultModeChanged(vaultMode')
  PROVE  TabInv(t)'
<1>1. Pipe(t) \in Seq(Event)
  BY PipeType
<1>2. ASSUME NEW p \in Peer PROVE ThereInv(t, p)'
  <2>1. SUFFICES ASSUME p \in connected'
                 PROVE  /\ LastWord(Pipe(t)', {PeerDisconnected(p)},
                                    {PeerDiscovered(p), PeerConnected(p)})
                        /\ Hears(t, There(p))' => p \in view'[t].peers
    BY DEF ThereInv, PeerDisconnected, PeerDiscovered, PeerConnected, There
  <2>2. /\ e # PeerDisconnected(p)
        /\ p \in connected \/ e \in {PeerDiscovered(p), PeerConnected(p)}
    BY <2>1
  <2>3. \/ LastWord(Pipe(t), {PeerDisconnected(p)}, {PeerDiscovered(p), PeerConnected(p)})
        \/ e \in {PeerDiscovered(p), PeerConnected(p)}
    BY <2>2 DEF TabInv, ThereInv
  <2>4. LastWord(Pipe(t)', {PeerDisconnected(p)}, {PeerDiscovered(p), PeerConnected(p)})
    BY <1>1, <2>2, <2>3, LastWordAppend
  <2>5. ASSUME Hears(t, There(p))' PROVE p \in view'[t].peers
    <3>1. Hears(t, There(p)) /\ There(p) \notin Subjects(e)
      BY <2>5, HearsEmit DEF There
    <3>2. p \in connected
      BY <2>2, <3>1, SubjectsOf
    <3> QED
      BY <3>1, <3>2 DEF TabInv, ThereInv
  <2> QED
    BY <2>4, <2>5
<1>3. ASSUME NEW p \in Peer PROVE PromptInv(t, p)'
  <2>1. SUFFICES ASSUME p \in pending', Hears(t, Prompt(p))', ~ Answered(p)'
                 PROVE  p \in view'[t].pending
    BY DEF PromptInv, Prompt
  <2>2. Hears(t, Prompt(p)) /\ Prompt(p) \notin Subjects(e)
    BY <2>1, HearsEmit DEF Prompt
  <2>3. p \in pending /\ ~ Answered(p)
    BY <2>1, <2>2
  <2> QED
    BY <2>2, <2>3 DEF TabInv, PromptInv
<1>4. ASSUME NEW p \in Peer PROVE TrustInv(t, p)'
  <2>1. SUFFICES ASSUME p \notin trusted
                 PROVE  /\ LastWord(Pipe(t)', Lists(p), Omits(p))
                        /\ Hears(t, Trust(p))' => p \notin view'[t].trusted
    BY DEF TrustInv, Lists, Omits, TrustedPeers, PeerKeyRevoked, Trust
  <2>2. e \notin Lists(p) /\ LastWord(Pipe(t), Lists(p), Omits(p))
    BY <2>1 DEF TabInv, TrustInv
  <2>3. LastWord(Pipe(t)', Lists(p), Omits(p))
    BY <1>1, <2>2, LastWordAppend
  <2>4. ASSUME Hears(t, Trust(p))' PROVE p \notin view'[t].trusted
    <3>1. Hears(t, Trust(p))
      BY <2>4, HearsEmit DEF Trust
    <3> QED
      BY <2>1, <3>1 DEF TabInv, TrustInv
  <2> QED
    BY <2>3, <2>4
<1>5. ModeInv(t)'
  <2>1. ASSUME vaultMode' = vaultMode, \A on \in BOOLEAN : e # VaultModeChanged(on)
        PROVE  ModeInv(t)'
    <3>1. e \notin {VaultModeChanged(~ vaultMode)}
      BY <2>1 DEF Types
    <3>2. LastWord(Pipe(t)', {VaultModeChanged(~ vaultMode)}, {VaultModeChanged(vaultMode)})
      BY <1>1, <3>1, LastWordAppend DEF TabInv, ModeInv
    <3>3. ASSUME Hears(t, Mode)' PROVE view'[t].vaultMode = vaultMode
      <4>1. Hears(t, Mode)
        BY <3>3, HearsEmit DEF Mode
      <4> QED
        BY <4>1 DEF TabInv, ModeInv
    <3> QED
      BY <2>1, <3>2, <3>3 DEF ModeInv, VaultModeChanged, Mode
  <2>2. ASSUME vaultMode' \in BOOLEAN, e = VaultModeChanged(vaultMode')
        PROVE  ModeInv(t)'
    <3>1. e \notin {VaultModeChanged(~ vaultMode')}
      <4>1. VaultModeChanged(~ vaultMode').on # VaultModeChanged(vaultMode').on
        BY <2>2, EventsDiffer
      <4> QED
        BY <2>2, <4>1
    <3>2. LastWord(Pipe(t)', {VaultModeChanged(~ vaultMode')}, {VaultModeChanged(vaultMode')})
      BY <1>1, <2>2, <3>1, LastWordAppend
    <3>3. ~ Hears(t, Mode)'
      BY <2>2, HearsEmit, SubjectsOf DEF Mode
    <3> QED
      BY <3>2, <3>3 DEF ModeInv, VaultModeChanged, Mode
  <2> QED
    BY <2>1, <2>2
<1> QED
  BY <1>2, <1>3, <1>4, <1>5 DEF TabInv

\* A key revoked: the peer, then the list without it.
LEMMA RevokeKeeps ==
  ASSUME Types, NEW t \in Tab, TabInv(t), NEW p0 \in Peer,
         Pipe(t)' = Append(Append(Pipe(t), PeerKeyRevoked(p0)), TrustedPeers(trusted \ {p0})),
         stale'[t] = stale[t], view'[t] = view[t],
         connected' = connected, pending' = pending, trusted' = trusted \ {p0},
         vaultMode' = vaultMode,
         \A p \in pending : Answered(p) => Answered(p)'
  PROVE  TabInv(t)'
<1> DEFINE e1 == PeerKeyRevoked(p0)
           e2 == TrustedPeers(trusted \ {p0})
           s1 == Append(Pipe(t), e1)
<1>1. Pipe(t) \in Seq(Event) /\ e1 \in Event /\ e2 \in Event
  <2>1. trusted \ {p0} \in SUBSET Peer
    BY DEF Types
  <2> QED
    BY <2>1, PipeType DEF Event
<1>2. s1 \in Seq(Event) /\ Pipe(t)' = Append(s1, e2)
  BY <1>1, AppendProperties
<1>3. ASSUME NEW x, Hears(t, x)'
      PROVE  Hears(t, x) /\ x \notin Subjects(e1) /\ x \notin Subjects(e2)
  <2>1. x \notin stale[t] /\ Silent(Append(s1, e2), x)
    <3>1. x \notin stale'[t] /\ Silent(Pipe(t)', x)
      BY <1>3 DEF Hears
    <3> QED
      BY <1>2, <3>1
  <2>2. Silent(s1, x) /\ x \notin Subjects(e2)
    BY <1>1, <1>2, <2>1, SilentAppend
  <2>3. Silent(Pipe(t), x) /\ x \notin Subjects(e1)
    BY <1>1, <2>2, SilentAppend
  <2> QED
    BY <2>1, <2>2, <2>3 DEF Hears
<1> HIDE DEF e1, e2, s1
<1>4. ASSUME NEW W, NEW R, LastWord(Pipe(t), W, R), e1 \notin W, e2 \notin W
      PROVE  LastWord(Pipe(t)', W, R)
  <2>1. LastWord(s1, W, R)
    BY <1>1, <1>4, LastWordAppend DEF s1
  <2>2. LastWord(Append(s1, e2), W, R)
    BY <1>1, <1>2, <1>4, <2>1, LastWordAppend
  <2> QED
    BY <1>2, <2>2
<1>5. e1.type = "PeerKeyRevoked" /\ e2.type = "TrustedPeers" /\ e2.peers = trusted \ {p0}
  BY EventsDiffer DEF e1, e2
<1>6. ASSUME NEW p \in Peer PROVE ThereInv(t, p)'
  <2>1. e1 # PeerDisconnected(p) /\ e2 # PeerDisconnected(p)
    BY <1>5, EventsDiffer
  <2>2. SUFFICES ASSUME p \in connected
                 PROVE  /\ LastWord(Pipe(t)', {PeerDisconnected(p)},
                                    {PeerDiscovered(p), PeerConnected(p)})
                        /\ Hears(t, There(p))' => p \in view'[t].peers
    BY DEF ThereInv, PeerDisconnected, PeerDiscovered, PeerConnected, There
  <2>3. Hears(t, There(p))' => p \in view'[t].peers
    BY <1>3, <2>2 DEF TabInv, ThereInv, There
  <2> QED
    BY <1>4, <2>1, <2>2, <2>3 DEF TabInv, ThereInv
<1>7. ASSUME NEW p \in Peer PROVE PromptInv(t, p)'
  BY <1>3 DEF TabInv, PromptInv, Prompt
<1>8. ASSUME NEW p \in Peer PROVE TrustInv(t, p)'
  <2>1. SUFFICES ASSUME p \notin trusted \ {p0}
                 PROVE  /\ LastWord(Pipe(t)', Lists(p), Omits(p))
                        /\ ~ Hears(t, Trust(p))'
    BY DEF TrustInv, Lists, Omits, TrustedPeers, PeerKeyRevoked, Trust
  <2>2. e2 \notin Lists(p) /\ e2 \in Omits(p)
    <3>1. trusted \ {p0} \in SUBSET (Peer \ {p})
      BY <2>1 DEF Types
    <3>2. \A S : e2 = TrustedPeers(S) => S = trusted \ {p0}
      BY <1>5, EventsDiffer
    <3> QED
      BY <2>1, <3>1, <3>2 DEF Lists, Omits, e2
  <2>3. LastWord(Pipe(t)', Lists(p), Omits(p))
    BY <1>1, <1>2, <2>2, LastWordAppend
  <2>4. Trust(p) \in Subjects(e2)
    BY SubjectsOf DEF e2
  <2> QED
    BY <1>3, <2>3, <2>4 DEF Trust
<1>9. ModeInv(t)'
  <2>1. e1 # VaultModeChanged(~ vaultMode) /\ e2 # VaultModeChanged(~ vaultMode)
    BY <1>5, EventsDiffer
  <2>2. LastWord(Pipe(t)', {VaultModeChanged(~ vaultMode)}, {VaultModeChanged(vaultMode)})
    BY <1>4, <2>1 DEF TabInv, ModeInv
  <2>3. Hears(t, Mode)' => view'[t].vaultMode = vaultMode
    BY <1>3 DEF TabInv, ModeInv, Mode
  <2> QED
    BY <2>2, <2>3 DEF ModeInv, VaultModeChanged, Mode
<1> QED
  BY <1>6, <1>7, <1>8, <1>9 DEF TabInv

\* The snapshot of the trusted peers is the state: it says no more than that.
LEMMA SendTrustedKeeps ==
  ASSUME Types, NEW t \in Tab, TabInv(t), SendTrusted(t)
  PROVE  TabInv(t)'
<1>1. Pipe(t)' = Pipe(t) /\ UNCHANGED <<connected, pending, trusted, vaultMode, commands>>
  BY DEF SendTrusted, Pipe, node
<1>2. /\ view'[t].peers = view[t].peers /\ view'[t].pending = view[t].pending
      /\ view'[t].vaultMode = view[t].vaultMode
      /\ view'[t].trusted = IF trusted = {} THEN view[t].trusted ELSE trusted
      /\ stale'[t] = IF trusted = {} THEN stale[t]
                     ELSE stale[t] \ {Trust(p) : p \in Peer}
  BY DEF SendTrusted, Types, Shape
<1>3. ASSUME NEW x, Hears(t, x)', \A p \in Peer : x # Trust(p)
      PROVE  Hears(t, x)
  BY <1>1, <1>2, <1>3 DEF Hears
<1>4. ASSUME NEW p \in Peer PROVE ThereInv(t, p)'
  <2>1. Hears(t, There(p))' => Hears(t, There(p))
    BY <1>3, SubjectsDiffer
  <2> QED
    BY <1>1, <1>2, <2>1 DEF TabInv, ThereInv, There, PeerDisconnected, PeerDiscovered,
                            PeerConnected
<1>5. ASSUME NEW p \in Peer PROVE PromptInv(t, p)'
  <2>1. Hears(t, Prompt(p))' => Hears(t, Prompt(p))
    BY <1>3, SubjectsDiffer
  <2>2. Answered(p)' <=> Answered(p)
    BY <1>1 DEF Answered, ApprovePeer, DenyPeer
  <2> QED
    BY <1>1, <1>2, <2>1, <2>2 DEF TabInv, PromptInv, Prompt
<1>6. ASSUME NEW p \in Peer PROVE TrustInv(t, p)'
  <2>1. SUFFICES ASSUME p \notin trusted
                 PROVE  /\ LastWord(Pipe(t)', Lists(p), Omits(p))
                        /\ Hears(t, Trust(p))' => p \notin view'[t].trusted
    BY <1>1 DEF TrustInv, Lists, Omits, TrustedPeers, PeerKeyRevoked, Trust
  <2>2. LastWord(Pipe(t)', Lists(p), Omits(p))
    BY <1>1, <2>1 DEF TabInv, TrustInv
  <2>3. CASE trusted = {}
    BY <1>1, <1>2, <2>1, <2>2, <2>3 DEF TabInv, TrustInv, Hears, Trust
  <2>4. CASE trusted # {}
    BY <1>2, <2>1, <2>2, <2>4
  <2> QED
    BY <2>3, <2>4
<1>7. ModeInv(t)'
  <2>1. Hears(t, Mode)' => Hears(t, Mode)
    BY <1>3, SubjectsDiffer
  <2>2. /\ LastWord(Pipe(t), {VaultModeChanged(~ vaultMode)}, {VaultModeChanged(vaultMode)})
        /\ Hears(t, Mode) => view[t].vaultMode = vaultMode
    BY DEF TabInv, ModeInv
  <2> QED
    BY <1>1, <1>2, <2>1, <2>2 DEF ModeInv, Mode, VaultModeChanged
<1> QED
  BY <1>4, <1>5, <1>6, <1>7 DEF TabInv

\* The snapshot of the known peers only adds peers.
LEMMA SendKnownKeeps ==
  ASSUME Types, NEW t \in Tab, TabInv(t), SendKnown(t)
  PROVE  TabInv(t)'
<1>1. Pipe(t)' = Pipe(t) /\ UNCHANGED <<connected, pending, trusted, vaultMode, commands>>
  BY DEF SendKnown, Pipe, node
<1>2. /\ view'[t].peers = view[t].peers \cup known /\ view'[t].pending = view[t].pending
      /\ view'[t].vaultMode = view[t].vaultMode
      /\ view'[t].trusted = view[t].trusted
      /\ stale'[t] = stale[t] \ {There(p) : p \in known}
  BY DEF SendKnown, Types, Shape
<1>3. ASSUME NEW x, Hears(t, x)', \A p \in known : x # There(p)
      PROVE  Hears(t, x)
  BY <1>1, <1>2, <1>3 DEF Hears
<1>4. ASSUME NEW p \in Peer PROVE ThereInv(t, p)'
  <2>1. Hears(t, There(p))' => Hears(t, There(p)) \/ p \in known
    BY <1>3, SubjectsDiffer
  <2> QED
    BY <1>1, <1>2, <2>1 DEF TabInv, ThereInv, There, PeerDisconnected, PeerDiscovered,
                            PeerConnected
<1>5. ASSUME NEW p \in Peer PROVE PromptInv(t, p)'
  <2>1. Hears(t, Prompt(p))' => Hears(t, Prompt(p))
    BY <1>3, SubjectsDiffer
  <2>2. Answered(p)' <=> Answered(p)
    BY <1>1 DEF Answered, ApprovePeer, DenyPeer
  <2> QED
    BY <1>1, <1>2, <2>1, <2>2 DEF TabInv, PromptInv, Prompt
<1>6. ASSUME NEW p \in Peer PROVE TrustInv(t, p)'
  <2>1. SUFFICES ASSUME p \notin trusted
                 PROVE  /\ LastWord(Pipe(t)', Lists(p), Omits(p))
                        /\ Hears(t, Trust(p))' => p \notin view'[t].trusted
    BY <1>1 DEF TrustInv, Lists, Omits, TrustedPeers, PeerKeyRevoked, Trust
  <2>2. Hears(t, Trust(p))' => Hears(t, Trust(p))
    BY <1>3, SubjectsDiffer
  <2> QED
    BY <1>1, <1>2, <2>1, <2>2 DEF TabInv, TrustInv
<1>7. ModeInv(t)'
  <2>1. Hears(t, Mode)' => Hears(t, Mode)
    BY <1>3, SubjectsDiffer
  <2>2. /\ LastWord(Pipe(t), {VaultModeChanged(~ vaultMode)}, {VaultModeChanged(vaultMode)})
        /\ Hears(t, Mode) => view[t].vaultMode = vaultMode
    BY DEF TabInv, ModeInv
  <2> QED
    BY <1>1, <1>2, <2>1, <2>2 DEF ModeInv, Mode, VaultModeChanged
<1> QED
  BY <1>4, <1>5, <1>6, <1>7 DEF TabInv

\* What the page makes of each kind of event, field by field.
PageWith(peers, prompts, keys, on) ==
    [peers |-> peers, pending |-> prompts, trusted |-> keys, vaultMode |-> on]

LEMMA ShownOf ==
  ASSUME NEW v \in Shape
  PROVE  /\ \A p \in Peer :
              Shown(v, PeerDiscovered(p)) =
                PageWith(v.peers \cup {p}, v.pending, v.trusted, v.vaultMode)
         /\ \A p \in Peer :
              Shown(v, PeerConnected(p)) =
                PageWith(v.peers \cup {p}, v.pending, v.trusted, v.vaultMode)
         /\ \A p \in Peer :
              Shown(v, PeerDisconnected(p)) =
                PageWith(v.peers \ {p}, v.pending \ {p}, v.trusted, v.vaultMode)
         /\ \A p \in Peer :
              Shown(v, PeerApprovalRequired(p)) =
                PageWith(v.peers, v.pending \cup {p}, v.trusted, v.vaultMode)
         /\ \A p \in Peer :
              Shown(v, PeerKeyRevoked(p)) =
                PageWith(v.peers, v.pending, v.trusted \ {p}, v.vaultMode)
         /\ \A S \in SUBSET Peer :
              Shown(v, TrustedPeers(S)) =
                PageWith(v.peers, v.pending, S, v.vaultMode)
         /\ \A on \in BOOLEAN :
              Shown(v, VaultModeChanged(on)) =
                PageWith(v.peers, v.pending, v.trusted, on)
BY DEF Shown, Shape, PageWith, PeerDiscovered, PeerConnected, PeerDisconnected,
       PeerApprovalRequired, PeerKeyRevoked, TrustedPeers, VaultModeChanged

LEMMA ShownType ==
  ASSUME NEW v \in Shape, NEW e \in Event
  PROVE  Shown(v, e) \in Shape
<1>1. CASE e \in {PeerDiscovered(p) : p \in Peer} \cup {PeerConnected(p) : p \in Peer}
  BY <1>1, ShownOf DEF Shape, PageWith
<1>2. CASE e \in {PeerDisconnected(p) : p \in Peer}
  BY <1>2, ShownOf DEF Shape, PageWith
<1>3. CASE e \in {PeerApprovalRequired(p) : p \in Peer}
  BY <1>3, ShownOf DEF Shape, PageWith
<1>4. CASE e \in {PeerKeyRevoked(p) : p \in Peer}
  BY <1>4, ShownOf DEF Shape, PageWith
<1>5. CASE e \in {TrustedPeers(S) : S \in SUBSET Peer}
  BY <1>5, ShownOf DEF Shape, PageWith
<1>6. CASE e \in {VaultModeChanged(on) : on \in BOOLEAN}
  BY <1>6, ShownOf DEF Shape, PageWith
<1> QED
  BY <1>1, <1>2, <1>3, <1>4, <1>5, <1>6 DEF Event

\* An event changes what is shown of its own subjects, and nothing else.
LEMMA ShownElsewhere ==
  ASSUME NEW v \in Shape, NEW e \in Event
  PROVE  /\ \A p \in Peer : There(p) \notin Subjects(e)
                              => (p \in Shown(v, e).peers <=> p \in v.peers)
         /\ \A p \in Peer : Prompt(p) \notin Subjects(e)
                              => (p \in Shown(v, e).pending <=> p \in v.pending)
         /\ \A p \in Peer : Trust(p) \notin Subjects(e)
                              => (p \in Shown(v, e).trusted <=> p \in v.trusted)
         /\ Mode \notin Subjects(e) => Shown(v, e).vaultMode = v.vaultMode
<1>1. CASE e \in {PeerDiscovered(p) : p \in Peer} \cup {PeerConnected(p) : p \in Peer}
  BY <1>1, ShownOf, SubjectsOf, SubjectsDiffer DEF Shape, PageWith
<1>2. CASE e \in {PeerDisconnected(p) : p \in Peer}
  BY <1>2, ShownOf, SubjectsOf, SubjectsDiffer DEF Shape, PageWith
<1>3. CASE e \in {PeerApprovalRequired(p) : p \in Peer}
  BY <1>3, ShownOf, SubjectsOf, SubjectsDiffer DEF Shape, PageWith
<1>4. CASE e \in {PeerKeyRevoked(p) : p \in Peer}
  BY <1>4, ShownOf, SubjectsOf, SubjectsDiffer DEF Shape, PageWith
<1>5. CASE e \in {TrustedPeers(S) : S \in SUBSET Peer}
  BY <1>5, ShownOf, SubjectsOf, SubjectsDiffer DEF Shape, PageWith
<1>6. CASE e \in {VaultModeChanged(on) : on \in BOOLEAN}
  BY <1>6, ShownOf, SubjectsOf, SubjectsDiffer DEF Shape, PageWith
<1> QED
  BY <1>1, <1>2, <1>3, <1>4, <1>5, <1>6 DEF Event

\* The page takes an event.  What it is about is on show afterwards, unless
\* more about that is on its way: the last word on a subject is right.
LEMMA DeliverKeeps ==
  ASSUME Types, NEW t \in Tab, TabInv(t), Deliver(t)
  PROVE  TabInv(t)'
<1> DEFINE e == Head(ring[t])
           s == Pipe(t)
<1>1. /\ ring[t] \in Seq(Event) /\ events \in Seq(Event) /\ ring[t] # <<>>
      /\ e \in Event /\ Tail(ring[t]) \in Seq(Event)
      /\ view[t] \in Shape
  BY HeadTailProperties DEF Types, Deliver
<1>2. /\ s \in Seq(Event) /\ s # <<>> /\ Head(s) = e
      /\ Pipe(t)' = Tail(s)
  <2>1. ring'[t] = Tail(ring[t]) /\ events' = events
    BY DEF Deliver, Types
  <2>2. Pipe(t)' = Tail(ring[t]) \o events
    BY <2>1 DEF Pipe
  <2> QED
    BY <1>1, <2>2, TailConcat, ConcatProperties DEF Pipe
<1>3. /\ UNCHANGED <<connected, pending, trusted, vaultMode, commands>>
      /\ view'[t] = Shown(view[t], e)
      /\ stale'[t] = IF e.type = "PeerDisconnected"
                     THEN (stale[t] \ {There(e.peer)}) \cup {Prompt(e.peer)}
                     ELSE stale[t] \ Subjects(e)
  BY DEF Deliver, Types, node
<1> HIDE DEF e, s
<1>4. ASSUME NEW x, Hears(t, x)' PROVE Silent(Tail(s), x) /\ x \notin stale'[t]
  <2>1. x \notin stale'[t] /\ Silent(Pipe(t)', x)
    BY <1>4 DEF Hears
  <2> QED
    BY <1>2, <2>1
<1>5. ASSUME NEW x, Hears(t, x)', x \notin Subjects(e) PROVE Hears(t, x)
  <2>1. Silent(s, x)
    BY <1>2, <1>4, <1>5, SilentTail
  <2>2. CASE e.type = "PeerDisconnected"
    <3>1. x # There(e.peer)
      BY <1>5, <2>2 DEF Subjects
    <3> QED
      BY <1>3, <1>4, <1>5, <2>1, <2>2, <3>1 DEF Hears, s
  <2>3. CASE e.type # "PeerDisconnected"
    BY <1>3, <1>4, <1>5, <2>1, <2>3 DEF Hears, s
  <2> QED
    BY <2>2, <2>3
<1>6. ASSUME NEW W, NEW R, LastWord(s, W, R) PROVE LastWord(Pipe(t)', W, R)
  BY <1>2, <1>6, LastWordTail
<1>7. ASSUME NEW x, Hears(t, x)', NEW W, NEW R, LastWord(s, W, R),
             \A r \in R : x \in Subjects(r)
      PROVE  e \notin W
  BY <1>2, <1>4, <1>7, WrongHead
<1>8. ASSUME NEW p \in Peer PROVE ThereInv(t, p)'
  <2>1. SUFFICES ASSUME p \in connected
                 PROVE  /\ LastWord(Pipe(t)', {PeerDisconnected(p)},
                                    {PeerDiscovered(p), PeerConnected(p)})
                        /\ Hears(t, There(p))' => p \in view'[t].peers
    BY <1>3 DEF ThereInv, PeerDisconnected, PeerDiscovered, PeerConnected, There
  <2>2. /\ LastWord(s, {PeerDisconnected(p)}, {PeerDiscovered(p), PeerConnected(p)})
        /\ Hears(t, There(p)) => p \in view[t].peers
    BY <2>1 DEF TabInv, ThereInv, s
  <2>3. ASSUME Hears(t, There(p))', There(p) \in Subjects(e)
        PROVE  p \in view'[t].peers
    <3>1. e # PeerDisconnected(p)
      <4>1. \A r \in {PeerDiscovered(p), PeerConnected(p)} : There(p) \in Subjects(r)
        BY SubjectsOf
      <4>2. e \notin {PeerDisconnected(p)}
        BY <1>7, <2>2, <2>3, <4>1 DEF There
      <4> QED
        BY <4>2
    <3>2. e \in {PeerDiscovered(p), PeerConnected(p)}
      BY <1>1, <2>3, <3>1, SubjectsOf, SubjectsDiffer DEF Event
    <3> QED
      BY <1>1, <1>3, <3>2, ShownOf DEF Shape, PageWith
  <2>4. ASSUME Hears(t, There(p))', There(p) \notin Subjects(e)
        PROVE  p \in view'[t].peers
    <3>1. p \in view[t].peers
      BY <1>5, <2>2, <2>4 DEF There
    <3> QED
      BY <1>1, <1>3, <2>4, <3>1, ShownElsewhere
  <2> QED
    BY <1>6, <2>2, <2>3, <2>4
<1>9. ASSUME NEW p \in Peer PROVE PromptInv(t, p)'
  <2>1. SUFFICES ASSUME p \in pending, Hears(t, Prompt(p))', ~ Answered(p)
                 PROVE  p \in view'[t].pending
    BY <1>3 DEF PromptInv, Prompt, Answered, ApprovePeer, DenyPeer
  <2>2. CASE Prompt(p) \in Subjects(e)
    <3>1. e # PeerDisconnected(p)
      <4>1. ASSUME e = PeerDisconnected(p) PROVE FALSE
        <5>1. Prompt(p) \in stale'[t]
          BY <1>3, <4>1, EventsDiffer
        <5> QED
          BY <1>4, <2>1, <5>1 DEF Prompt
      <4> QED
        BY <4>1
    <3>2. e = PeerApprovalRequired(p)
      BY <1>1, <2>2, <3>1, SubjectsOf, SubjectsDiffer DEF Event
    <3> QED
      BY <1>1, <1>3, <3>2, ShownOf DEF Shape, PageWith
  <2>3. CASE Prompt(p) \notin Subjects(e)
    <3>1. p \in view[t].pending
      BY <1>5, <2>1, <2>3 DEF TabInv, PromptInv, Prompt
    <3> QED
      BY <1>1, <1>3, <2>3, <3>1, ShownElsewhere
  <2> QED
    BY <2>2, <2>3
<1>10. ASSUME NEW p \in Peer PROVE TrustInv(t, p)'
  <2>1. SUFFICES ASSUME p \notin trusted
                 PROVE  /\ LastWord(Pipe(t)', Lists(p), Omits(p))
                        /\ Hears(t, Trust(p))' => p \notin view'[t].trusted
    BY <1>3 DEF TrustInv, Lists, Omits, TrustedPeers, PeerKeyRevoked, Trust
  <2>2. /\ LastWord(s, Lists(p), Omits(p))
        /\ Hears(t, Trust(p)) => p \notin view[t].trusted
    BY <2>1 DEF TabInv, TrustInv, s
  <2>3. ASSUME Hears(t, Trust(p))', Trust(p) \in Subjects(e)
        PROVE  p \notin view'[t].trusted
    <3>1. e \notin Lists(p)
      <4>1. \A r \in Omits(p) : Trust(p) \in Subjects(r)
        BY SubjectsOf DEF Omits
      <4> QED
        BY <1>7, <2>2, <2>3, <4>1 DEF Trust
    <3>2. CASE e \in {TrustedPeers(S) : S \in SUBSET Peer}
      <4>1. PICK S \in SUBSET Peer : e = TrustedPeers(S)
        BY <3>2
      <4>2. p \notin S
        BY <3>1, <4>1 DEF Lists
      <4> QED
        BY <1>1, <1>3, <4>1, <4>2, ShownOf DEF Shape, PageWith
    <3>3. CASE e \in {PeerKeyRevoked(q) : q \in Peer}
      <4>1. e = PeerKeyRevoked(p)
        BY <2>3, <3>3, SubjectsOf, SubjectsDiffer
      <4> QED
        BY <1>1, <1>3, <4>1, ShownOf DEF Shape, PageWith
    <3> QED
      BY <1>1, <2>3, <3>2, <3>3, SubjectsOf, SubjectsDiffer DEF Event
  <2>4. ASSUME Hears(t, Trust(p))', Trust(p) \notin Subjects(e)
        PROVE  p \notin view'[t].trusted
    <3>1. p \notin view[t].trusted
      BY <1>5, <2>2, <2>4 DEF Trust
    <3> QED
      BY <1>1, <1>3, <2>4, <3>1, ShownElsewhere
  <2> QED
    BY <1>6, <2>2, <2>3, <2>4
<1>11. ModeInv(t)'
  <2>1. /\ LastWord(s, {VaultModeChanged(~ vaultMode)}, {VaultModeChanged(vaultMode)})
        /\ Hears(t, Mode) => view[t].vaultMode = vaultMode
    BY DEF TabInv, ModeInv, s
  <2>2. ASSUME Hears(t, Mode)', Mode \in Subjects(e)
        PROVE  view'[t].vaultMode = vaultMode
    <3>1. \A r \in {VaultModeChanged(vaultMode)} : Mode \in Subjects(r)
      BY SubjectsOf
    <3>2. e \notin {VaultModeChanged(~ vaultMode)}
      BY <1>7, <2>1, <2>2, <3>1 DEF Mode
    <3>3. e \in {VaultModeChanged(on) : on \in BOOLEAN}
      BY <1>1, <2>2, SubjectsOf, SubjectsDiffer DEF Event
    <3>4. e = VaultModeChanged(vaultMode)
      BY <3>2, <3>3 DEF Types
    <3>5. Shown(view[t], VaultModeChanged(vaultMode)).vaultMode = vaultMode
      BY <1>1, ShownOf DEF Types, PageWith
    <3> QED
      BY <1>3, <3>4, <3>5
  <2>3. ASSUME Hears(t, Mode)', Mode \notin Subjects(e)
        PROVE  view'[t].vaultMode = vaultMode
    <3>1. view[t].vaultMode = vaultMode
      BY <1>5, <2>1, <2>3 DEF Mode
    <3> QED
      BY <1>1, <1>3, <2>3, <3>1, ShownElsewhere
  <2> QED
    BY <1>3, <1>6, <2>1, <2>2, <2>3 DEF ModeInv, VaultModeChanged, Mode
<1> QED
  BY <1>8, <1>9, <1>10, <1>11 DEF TabInv

-----------------------------------------------------------------------------
(* Types.                                                                   *)

LEMMA TypesInit == Init => Types
BY EmptySeq, CapacityAssumption DEF Init, Types, Shape, NewPage

LEMMA TypesNetwork ==
  ASSUME Types, NEW p \in Peer, Network(p)
  PROVE  Types'
<1>1. PeerDiscovered(p) \in Event /\ PeerConnected(p) \in Event
      /\ PeerDisconnected(p) \in Event /\ PeerApprovalRequired(p) \in Event
  BY DEF Event
<1>2. ASSUME NEW e \in Event
      PROVE  events \o <<e>> \in Seq(Event)
  BY <1>2, ConcatProperties DEF Types
<1> QED
  BY <1>1, <1>2 DEF Types, Network, Discovered, Expired, ConnectionEstablished, ConnectionClosed,
     KeyExchangePropose, KeyEstablished, Emit, tabs

\* A command, and what it does.
LEMMA ExecuteCases ==
  ASSUME Types, Execute
  PROVE  /\ commands # <<>> /\ commands' = Tail(commands)
         /\ UNCHANGED <<known, connected, tabs>>
         /\ \/ \E p \in Peer :
                 /\ Head(commands) \in {ApprovePeer(p), DenyPeer(p)}
                 /\ pending' = pending \ {p}
                 /\ trusted' \in {trusted, trusted \cup {p}}
                 /\ UNCHANGED <<vaultMode, events>>
            \/ \E p \in Peer :
                 /\ Head(commands) = RevokeKey(p)
                 /\ trusted' = trusted \ {p}
                 /\ events' = events \o <<PeerKeyRevoked(p), TrustedPeers(trusted \ {p})>>
                 /\ UNCHANGED <<pending, vaultMode>>
            \/ \E on \in BOOLEAN :
                 /\ Head(commands) = SetVaultMode(on)
                 /\ vaultMode' = on
                 /\ events' = events \o <<VaultModeChanged(on)>>
                 /\ UNCHANGED <<pending, trusted>>
<1>1. /\ commands # <<>> /\ commands' = Tail(commands)
      /\ UNCHANGED <<known, connected, tabs>>
  BY DEF Execute
<1>2. Head(commands) \in UserCommand
  BY <1>1, HeadTailProperties DEF Types
<1>3. CASE \E on \in BOOLEAN : Head(commands) = SetVaultMode(on)
  <2>1. PICK on \in BOOLEAN : Head(commands) = SetVaultMode(on)
    BY <1>3
  <2>2. Head(commands).type = "SetVaultMode" /\ Head(commands).on = on
    BY <2>1 DEF SetVaultMode
  <2>3. /\ vaultMode' = on /\ events' = events \o <<VaultModeChanged(on)>>
        /\ UNCHANGED <<pending, trusted>>
    BY <2>2 DEF Execute, Emit
  <2> QED
    BY <1>1, <2>1, <2>3
<1>4. CASE \E p \in Peer : Head(commands) = RevokeKey(p)
  <2>1. PICK p \in Peer : Head(commands) = RevokeKey(p)
    BY <1>4
  <2>2. Head(commands).type = "RevokeKey" /\ Head(commands).peer = p
    BY <2>1 DEF RevokeKey
  <2>3. /\ trusted' = trusted \ {p} /\ UNCHANGED <<pending, vaultMode>>
        /\ events' = events \o <<PeerKeyRevoked(p), TrustedPeers(trusted \ {p})>>
    BY <2>2 DEF Execute, Emit
  <2> QED
    BY <1>1, <2>1, <2>3
<1>5. CASE \E p \in Peer : Head(commands) \in {ApprovePeer(p), DenyPeer(p)}
  <2>1. PICK p \in Peer : Head(commands) \in {ApprovePeer(p), DenyPeer(p)}
    BY <1>5
  <2>2. Head(commands).type \in {"ApprovePeer", "DenyPeer"} /\ Head(commands).peer = p
    BY <2>1 DEF ApprovePeer, DenyPeer
  <2>3. /\ pending' = pending \ {p} /\ trusted' \in {trusted, trusted \cup {p}}
        /\ UNCHANGED <<vaultMode, events>>
    BY <2>2 DEF Execute, Emit
  <2> QED
    BY <1>1, <2>1, <2>3
<1> QED
  BY <1>2, <1>3, <1>4, <1>5 DEF UserCommand

LEMMA TypesExecute ==
  ASSUME Types, Execute
  PROVE  Types'
<1>1. /\ commands' \in Seq(UserCommand)
      /\ UNCHANGED <<known, connected, phase, ring, view, stale>>
  BY ExecuteCases, HeadTailProperties DEF Types, tabs
<1>2. trusted' \subseteq Peer /\ pending' \subseteq Peer /\ vaultMode' \in BOOLEAN
  BY ExecuteCases DEF Types
<1>3. events' \in Seq(Event)
  <2>1. \A p \in Peer :
          <<PeerKeyRevoked(p), TrustedPeers(trusted \ {p})>> \in Seq(Event)
    <3>1. ASSUME NEW p \in Peer
          PROVE  PeerKeyRevoked(p) \in Event /\ TrustedPeers(trusted \ {p}) \in Event
      <4>1. trusted \ {p} \in SUBSET Peer
        BY DEF Types
      <4> QED
        BY <4>1 DEF Event
    <3> QED
      BY <3>1
  <2>2. \A on \in BOOLEAN : <<VaultModeChanged(on)>> \in Seq(Event)
    BY DEF Event
  <2>3. events \in Seq(Event)
    BY DEF Types
  <2> QED
    BY ExecuteCases, <2>1, <2>2, <2>3, ConcatProperties
<1> QED
  BY <1>1, <1>2, <1>3 DEF Types

LEMMA TypesForward ==
  ASSUME Types, Forward
  PROVE  Types'
<1>1. Head(events) \in Event /\ Tail(events) \in Seq(Event)
  BY HeadTailProperties DEF Types, Forward
<1>2. ASSUME NEW t \in Tab
      PROVE  /\ Received(t, Head(events)) \in Seq(Event)
             /\ phase[t] = "closed" => Received(t, Head(events)) = <<>>
  <2>1. ring[t] \in Seq(Event)
    BY DEF Types
  <2>2. CASE ~ Listens(t)
    BY <2>1, <2>2 DEF Received, Listens, Types
  <2>3. CASE Listens(t) /\ Overflows(t)
    <3>1. ring[t] # <<>>
      BY <2>3, CapacityAssumption DEF Overflows
    <3>2. Tail(ring[t]) \in Seq(Event)
      BY <2>1, <3>1, HeadTailProperties
    <3> QED
      BY <1>1, <2>3, <3>2, AppendProperties DEF Received, Listens
  <2>4. CASE Listens(t) /\ ~ Overflows(t)
    BY <1>1, <2>1, <2>4, AppendProperties DEF Received, Listens
  <2> QED
    BY <2>2, <2>3, <2>4
<1>3. ring' = [t \in Tab |-> Received(t, Head(events))]
  BY DEF Forward
<1> QED
  BY <1>1, <1>2, <1>3 DEF Types, Forward, node

LEMMA TypesPage ==
  ASSUME Types, NEW t \in Tab, Page(t)
  PROVE  Types'
<1>1. CASE Attach(t)
  BY <1>1 DEF Attach, Types, node
<1>2. CASE SendTrusted(t)
  BY <1>2 DEF SendTrusted, Types, node, Shape
<1>3. CASE SendKnown(t)
  BY <1>3 DEF SendKnown, Types, node, Shape
<1>4. CASE Deliver(t)
  <2>1. /\ ring[t] \in Seq(Event) /\ ring[t] # <<>> /\ view[t] \in Shape
        /\ phase[t] = "open"
    BY <1>4 DEF Types, Deliver
  <2>2. Head(ring[t]) \in Event /\ Tail(ring[t]) \in Seq(Event)
    BY <2>1, HeadTailProperties
  <2>3. Shown(view[t], Head(ring[t])) \in Shape
    BY <2>1, <2>2, ShownType
  <2>4. /\ view' = [view EXCEPT ![t] = Shown(view[t], Head(ring[t]))]
        /\ ring' = [ring EXCEPT ![t] = Tail(ring[t])]
        /\ DOMAIN stale' = Tab
        /\ UNCHANGED <<node, events, commands, phase>>
    BY <1>4 DEF Deliver, Types
  <2> QED
    BY <2>1, <2>2, <2>3, <2>4 DEF Types, node
<1>5. CASE Detach(t)
  BY <1>5, EmptySeq DEF Detach, Types, node
<1>6. CASE Reload(t)
  BY <1>6 DEF Reload, Types, node, Shape, NewPage
<1>7. CASE Command(t)
  <2>1. view[t] \in Shape
    BY DEF Types
  <2>2. PICK c \in UserCommand : commands' = Append(commands, c)
    BY <1>7, <2>1 DEF Command, UserCommand, Shape
  <2> QED
    BY <1>7, <2>2, AppendProperties DEF Command, Types, node, tabs
<1>8. CASE \E p \in Peer : Answer(t, p)
  <2>1. PICK p \in Peer : Answer(t, p)
    BY <1>8
  <2>2. PICK c \in UserCommand : commands' = Append(commands, c)
    BY <2>1 DEF Answer, UserCommand
  <2>3. commands' \in Seq(UserCommand)
    BY <2>2, AppendProperties DEF Types
  <2>4. view' \in [Tab -> Shape]
    BY <2>1 DEF Answer, Types, Shape
  <2> QED
    BY <2>1, <2>3, <2>4 DEF Answer, Types, node
<1> QED
  BY <1>1, <1>2, <1>3, <1>4, <1>5, <1>6, <1>7, <1>8 DEF Page

LEMMA TypesNext ==
  ASSUME Types, [Next]_vars
  PROVE  Types'
<1>1. CASE UNCHANGED vars
  BY <1>1 DEF Types, vars, node, tabs
<1> QED
  BY <1>1, TypesNetwork, TypesExecute, TypesForward, TypesPage DEF Next

-----------------------------------------------------------------------------
(* The invariant at every step.                                             *)

LEMMA FeedInit == Init => FeedInv
<1> SUFFICES ASSUME Init, NEW t \in Tab PROVE TabInv(t)
  BY TypesInit DEF FeedInv
<1>1. Types
  BY TypesInit
<1>2. Pipe(t) = <<>>
  BY EmptySeq, ConcatEmptySeq DEF Init, Pipe
<1>3. \A W, R : LastWord(Pipe(t), W, R)
  BY <1>2 DEF LastWord
<1>4. ASSUME NEW p \in Peer
      PROVE  ThereInv(t, p) /\ PromptInv(t, p) /\ TrustInv(t, p)
  BY <1>3 DEF Init, ThereInv, PromptInv, TrustInv, NewPage
<1>5. ModeInv(t)
  <2>1. CASE vaultMode
    BY <1>3, <2>1 DEF Init, ModeInv, Hears
  <2>2. CASE ~ vaultMode
    BY <1>1, <1>3, <2>2 DEF Init, ModeInv, NewPage, Types
  <2> QED
    BY <2>1, <2>2
<1> QED
  BY <1>4, <1>5 DEF TabInv

LEMMA KeptByNetwork ==
  ASSUME Types, NEW t \in Tab, TabInv(t), NEW p \in Peer, Network(p)
  PROVE  TabInv(t)'
<1>1. UNCHANGED <<vaultMode, commands, tabs>>
  BY DEF Network, Discovered, Expired, ConnectionEstablished, ConnectionClosed,
         KeyExchangePropose, KeyEstablished
<1>2. \A q : Answered(q)' <=> Answered(q)
  BY <1>1 DEF Answered, ApprovePeer, DenyPeer
<1>3. ring' = ring /\ stale' = stale /\ view' = view /\ commands' = commands
      /\ vaultMode' = vaultMode
  BY <1>1 DEF tabs
<1>4. ASSUME NEW e \in Event, events' = events \o <<e>>
      PROVE  Pipe(t)' = Append(Pipe(t), e)
  <2>1. events' = Append(events, e)
    BY <1>4, AppendIsConcat DEF Types
  <2> QED
    BY <1>3, <2>1, PipeEmit
<1>5. PeerDiscovered(p) \in Event /\ PeerConnected(p) \in Event
      /\ PeerDisconnected(p) \in Event /\ PeerApprovalRequired(p) \in Event
  BY DEF Event
<1>6. CASE Expired(p) \/ KeyEstablished(p)
  <2>1. /\ events' = events /\ connected' = connected /\ pending' = pending
        /\ trusted \subseteq trusted'
    BY <1>6 DEF Expired, KeyEstablished
  <2>2. Fades(t)
    BY <1>3, <2>1, FadesStutter
  <2> QED
    BY <1>2, <1>3, <2>1, <2>2, FadesKeeps
<1>7. CASE Discovered(p)
  <2> DEFINE e == PeerDiscovered(p)
  <2>1. /\ Pipe(t)' = Append(Pipe(t), e) /\ connected' = connected
        /\ pending' = pending /\ trusted' = trusted
    BY <1>4, <1>5, <1>7 DEF Discovered, Emit
  <2>2. /\ \A q : e # PeerDisconnected(q) /\ e \notin Lists(q)
        /\ \A on \in BOOLEAN : e # VaultModeChanged(on)
    BY EventsDiffer DEF Lists
  <2> QED
    BY <1>2, <1>3, <1>5, <2>1, <2>2, EmitKeeps
<1>8. CASE ConnectionEstablished(p)
  <2> DEFINE e == PeerConnected(p)
  <2>1. /\ Pipe(t)' = Append(Pipe(t), e) /\ connected' = connected \cup {p}
        /\ pending' = pending /\ trusted' = trusted
    BY <1>4, <1>5, <1>8 DEF ConnectionEstablished, Emit
  <2>2. /\ \A q : e # PeerDisconnected(q) /\ e \notin Lists(q)
        /\ \A on \in BOOLEAN : e # VaultModeChanged(on)
    BY EventsDiffer DEF Lists
  <2> QED
    BY <1>2, <1>3, <1>5, <2>1, <2>2, EmitKeeps
<1>9. CASE ConnectionClosed(p)
  <2> DEFINE e == PeerDisconnected(p)
  <2>1. /\ Pipe(t)' = Append(Pipe(t), e) /\ connected' = connected \ {p}
        /\ pending' = pending /\ trusted' = trusted
    BY <1>4, <1>5, <1>9 DEF ConnectionClosed, Emit
  <2>2. /\ \A q \in connected' : e # PeerDisconnected(q) /\ q \in connected
        /\ \A q : e \notin Lists(q)
        /\ \A on \in BOOLEAN : e # VaultModeChanged(on)
    BY <2>1, EventsDiffer DEF Lists
  <2> QED
    BY <1>2, <1>3, <1>5, <2>1, <2>2, EmitKeeps
<1>10. CASE KeyExchangePropose(p)
  <2> DEFINE e == PeerApprovalRequired(p)
  <2>1. /\ Pipe(t)' = Append(Pipe(t), e) /\ connected' = connected
        /\ pending' = pending \cup {p} /\ trusted' = trusted
    BY <1>4, <1>5, <1>10 DEF KeyExchangePropose, Emit
  <2>2. /\ \A q : e # PeerDisconnected(q) /\ e \notin Lists(q)
        /\ \A on \in BOOLEAN : e # VaultModeChanged(on)
        /\ Prompt(p) \in Subjects(e)
    BY EventsDiffer, SubjectsOf DEF Lists
  <2> QED
    BY <1>2, <1>3, <1>5, <2>1, <2>2, EmitKeeps
<1> QED
  BY <1>6, <1>7, <1>8, <1>9, <1>10 DEF Network

\* A command taken off the channel answers at most the prompt it is about.
LEMMA AnsweredTail ==
  ASSUME Types, commands # <<>>, commands' = Tail(commands), NEW p, Answered(p)
  PROVE  Answered(p)' \/ Head(commands) \in {ApprovePeer(p), DenyPeer(p)}
<1>1. /\ Len(commands) \in Nat \ {0} /\ DOMAIN commands = 1 .. Len(commands)
      /\ DOMAIN Tail(commands) = 1 .. Len(commands) - 1 /\ Head(commands) = commands[1]
      /\ \A i \in 1 .. Len(commands) - 1 : Tail(commands)[i] = commands[i + 1]
  <2>1. commands \in Seq(UserCommand)
    BY DEF Types
  <2> QED
    BY <2>1, LenProperties, EmptySeq, HeadTailProperties
<1>2. PICK i \in DOMAIN commands : commands[i] \in {ApprovePeer(p), DenyPeer(p)}
  BY DEF Answered
<1>3. CASE i = 1
  BY <1>1, <1>2, <1>3
<1>4. CASE i # 1
  <2>1. i - 1 \in DOMAIN Tail(commands) /\ Tail(commands)[i - 1] = commands[i]
    BY <1>1, <1>4
  <2> QED
    BY <1>2, <2>1 DEF Answered, ApprovePeer, DenyPeer
<1> QED
  BY <1>3, <1>4

LEMMA KeptByExecute ==
  ASSUME Types, NEW t \in Tab, TabInv(t), Execute
  PROVE  TabInv(t)'
<1>1. /\ commands # <<>> /\ commands' = Tail(commands) /\ connected' = connected
      /\ ring' = ring /\ stale' = stale /\ view' = view
  BY ExecuteCases DEF tabs
<1>2. ASSUME NEW p, Head(commands).type \notin {"ApprovePeer", "DenyPeer"}, Answered(p)
      PROVE  Answered(p)'
  <2>1. Head(commands) \notin {ApprovePeer(p), DenyPeer(p)}
    BY <1>2 DEF ApprovePeer, DenyPeer
  <2> QED
    BY <1>1, <1>2, <2>1, AnsweredTail
<1>3. CASE \E p \in Peer :
             /\ Head(commands) \in {ApprovePeer(p), DenyPeer(p)}
             /\ pending' = pending \ {p}
             /\ trusted' \in {trusted, trusted \cup {p}}
             /\ UNCHANGED <<vaultMode, events>>
  <2>1. PICK p \in Peer :
             /\ Head(commands) \in {ApprovePeer(p), DenyPeer(p)}
             /\ pending' = pending \ {p}
             /\ trusted' \in {trusted, trusted \cup {p}}
             /\ UNCHANGED <<vaultMode, events>>
    BY <1>3
  <2>2. Fades(t)
    BY <1>1, <2>1, FadesStutter
  <2>3. ASSUME NEW q \in pending', ~ Answered(q)'
        PROVE  q \in pending /\ ~ Answered(q)
    <3>1. q \in pending /\ q # p
      BY <2>1
    <3>2. Head(commands).peer = p
      BY <2>1 DEF ApprovePeer, DenyPeer
    <3>3. Head(commands) \notin {ApprovePeer(q), DenyPeer(q)}
      BY <3>1, <3>2 DEF ApprovePeer, DenyPeer
    <3> QED
      BY <1>1, <2>3, <3>1, <3>3, AnsweredTail
  <2> QED
    BY <1>1, <2>1, <2>2, <2>3, FadesKeeps
<1>4. CASE \E p \in Peer :
             /\ Head(commands) = RevokeKey(p)
             /\ trusted' = trusted \ {p}
             /\ events' = events \o <<PeerKeyRevoked(p), TrustedPeers(trusted \ {p})>>
             /\ UNCHANGED <<pending, vaultMode>>
  <2>1. PICK p \in Peer :
             /\ Head(commands) = RevokeKey(p)
             /\ trusted' = trusted \ {p}
             /\ events' = events \o <<PeerKeyRevoked(p), TrustedPeers(trusted \ {p})>>
             /\ UNCHANGED <<pending, vaultMode>>
    BY <1>4
  <2> DEFINE e1 == PeerKeyRevoked(p)
             e2 == TrustedPeers(trusted \ {p})
  <2>2. e1 \in Event /\ e2 \in Event
    <3>1. trusted \ {p} \in SUBSET Peer
      BY DEF Types
    <3> QED
      BY <3>1 DEF Event
  <2>3. Pipe(t)' = Append(Append(Pipe(t), e1), e2)
    <3> HIDE DEF e1, e2
    <3>1. ring[t] \in Seq(Event) /\ events \in Seq(Event)
      BY DEF Types
    <3>2. ASSUME NEW a \in Seq(Event), NEW b \in Seq(Event)
          PROVE  a \o (b \o <<e1, e2>>) = Append(Append(a \o b, e1), e2)
      <4>1. b \o <<e1, e2>> = Append(Append(b, e1), e2)
        BY <2>2
      <4>2. Append(b, e1) \in Seq(Event) /\ a \o b \in Seq(Event)
        BY <2>2, AppendProperties, ConcatProperties
      <4>3. a \o Append(Append(b, e1), e2) = Append(a \o Append(b, e1), e2)
        BY <2>2, <4>2, ConcatAppend
      <4>4. a \o Append(b, e1) = Append(a \o b, e1)
        BY <2>2, ConcatAppend
      <4> QED
        BY <4>1, <4>3, <4>4
    <3>3. Pipe(t)' = ring[t] \o (events \o <<e1, e2>>)
      BY <1>1, <2>1 DEF Pipe, e1, e2
    <3> QED
      BY <3>1, <3>2, <3>3 DEF Pipe
  <2>4. Head(commands).type \notin {"ApprovePeer", "DenyPeer"}
    BY <2>1 DEF RevokeKey
  <2> QED
    BY <1>1, <1>2, <2>1, <2>3, <2>4, RevokeKeeps
<1>5. CASE \E on \in BOOLEAN :
             /\ Head(commands) = SetVaultMode(on)
             /\ vaultMode' = on
             /\ events' = events \o <<VaultModeChanged(on)>>
             /\ UNCHANGED <<pending, trusted>>
  <2>1. PICK on \in BOOLEAN :
             /\ Head(commands) = SetVaultMode(on)
             /\ vaultMode' = on
             /\ events' = events \o <<VaultModeChanged(on)>>
             /\ UNCHANGED <<pending, trusted>>
    BY <1>5
  <2> DEFINE e == VaultModeChanged(on)
  <2>2. e \in Event
    BY DEF Event
  <2>3. Pipe(t)' = Append(Pipe(t), e)
    <3>1. events' = Append(events, e)
      BY <2>1, <2>2, AppendIsConcat DEF Types
    <3> QED
      BY <1>1, <2>2, <3>1, PipeEmit
  <2>4. Head(commands).type \notin {"ApprovePeer", "DenyPeer"}
    BY <2>1 DEF SetVaultMode
  <2>5. \A q : e # PeerDisconnected(q) /\ e \notin Lists(q)
    BY EventsDiffer DEF Lists
  <2>6. vaultMode' \in BOOLEAN /\ e = VaultModeChanged(vaultMode')
    BY <2>1
  <2> QED
    BY <1>1, <1>2, <2>1, <2>2, <2>3, <2>4, <2>5, <2>6, EmitKeeps
<1> QED
  BY <1>3, <1>4, <1>5, ExecuteCases

\* A step of one page, seen at every tab.
LEMMA KeptByPage ==
  ASSUME Types, NEW t \in Tab, TabInv(t), NEW u \in Tab, Page(u)
  PROVE  TabInv(t)'
<1>1. UNCHANGED <<node, events>>
  BY DEF Page, Attach, SendTrusted, SendKnown, Deliver, Detach, Reload, Command, Answer
<1>2. UNCHANGED <<connected, pending, trusted, vaultMode, events>>
  BY <1>1 DEF node
<1>3. \A p : Answered(p) => Answered(p)'
  <2>1. CASE commands' = commands
    BY <2>1 DEF Answered, ApprovePeer, DenyPeer
  <2>2. CASE \E c \in UserCommand : commands' = Append(commands, c)
    <3>1. /\ DOMAIN commands \subseteq DOMAIN commands'
          /\ \A i \in DOMAIN commands : commands'[i] = commands[i]
      <4>1. PICK c \in UserCommand : commands' = Append(commands, c)
        BY <2>2
      <4>2. commands \in Seq(UserCommand)
        BY DEF Types
      <4> QED
        BY <4>1, <4>2, AppendProperties, LenProperties
    <3> QED
      BY <3>1 DEF Answered, ApprovePeer, DenyPeer
  <2>3. commands' = commands \/ \E c \in UserCommand : commands' = Append(commands, c)
    <3>1. view[u] \in Shape
      BY DEF Types
    <3> QED
      BY <3>1 DEF Page, Attach, SendTrusted, SendKnown, Deliver, Detach, Reload,
                  Command, Answer, UserCommand, Shape
  <2> QED
    BY <2>1, <2>2, <2>3
<1>4. ASSUME ring'[t] = ring[t], view'[t] = view[t], stale[t] \subseteq stale'[t]
      PROVE  TabInv(t)'
  <2>1. Fades(t)
    BY <1>2, <1>4, FadesStutter
  <2> QED
    BY <1>2, <1>3, <1>4, <2>1, FadesKeeps
<1>5. CASE u # t
  <2>1. ring'[t] = ring[t] /\ view'[t] = view[t] /\ stale'[t] = stale[t]
    <3>1. CASE Attach(u) \/ Command(u)
      BY <3>1 DEF Attach, Command, tabs
    <3>2. CASE SendTrusted(u)
      BY <1>5, <3>2 DEF SendTrusted, Types
    <3>3. CASE SendKnown(u)
      BY <1>5, <3>3 DEF SendKnown, Types
    <3>4. CASE Deliver(u)
      BY <1>5, <3>4 DEF Deliver, Types
    <3>5. CASE Detach(u)
      BY <1>5, <3>5 DEF Detach, Types
    <3>6. CASE Reload(u)
      BY <1>5, <3>6 DEF Reload, Types
    <3>7. CASE \E p \in Peer : Answer(u, p)
      BY <1>5, <3>7 DEF Answer, Types
    <3> QED
      BY <3>1, <3>2, <3>3, <3>4, <3>5, <3>6, <3>7 DEF Page
  <2> QED
    BY <1>4, <2>1
<1>6. CASE Attach(t) \/ Command(t)
  <2>1. ring'[t] = ring[t] /\ view'[t] = view[t] /\ stale'[t] = stale[t]
    BY <1>6 DEF Attach, Command, tabs
  <2> QED
    BY <1>4, <2>1
<1>7. CASE Detach(t)
  <2>1. Fades(t) /\ view'[t] = view[t]
    BY <1>7, FadesDetach DEF Detach
  <2> QED
    BY <1>2, <1>3, <2>1, FadesKeeps
<1>8. CASE Reload(t)
  <2>1. /\ view'[t] = NewPage /\ stale'[t] = Unknown /\ Pipe(t)' = Pipe(t)
    BY <1>8 DEF Reload, Types, Pipe, node
  <2>2. ~ Hears(t, Mode)' /\ \A p \in Peer : ~ Hears(t, There(p))' /\ ~ Hears(t, Prompt(p))'
    BY <2>1 DEF Hears, Unknown, There, Prompt, Mode
  <2>3. ASSUME NEW p \in Peer
        PROVE  ThereInv(t, p)' /\ PromptInv(t, p)'
    BY <1>2, <2>1, <2>2 DEF TabInv, ThereInv, PromptInv, There, Prompt, PeerDiscovered,
                            PeerConnected, PeerDisconnected
  <2>4. ASSUME NEW p \in Peer
        PROVE  TrustInv(t, p)'
    <3>1. SUFFICES ASSUME p \notin trusted
                   PROVE  LastWord(Pipe(t)', Lists(p), Omits(p)) /\ p \notin view'[t].trusted
      BY <1>2 DEF TrustInv, Lists, Omits, TrustedPeers, PeerKeyRevoked
    <3>2. LastWord(Pipe(t), Lists(p), Omits(p))
      BY <3>1 DEF TabInv, TrustInv
    <3> QED
      BY <2>1, <3>2 DEF NewPage
  <2>5. ModeInv(t)'
    BY <1>2, <2>1, <2>2 DEF TabInv, ModeInv, Mode, VaultModeChanged
  <2> QED
    BY <2>3, <2>4, <2>5 DEF TabInv
<1>9. CASE \E p \in Peer : Answer(t, p)
  <2>1. PICK p \in Peer : Answer(t, p)
    BY <1>9
  <2>2. Fades(t)
    BY <1>2, <2>1, FadesStutter DEF Answer
  <2>3. /\ view'[t].peers = view[t].peers /\ view'[t].trusted = view[t].trusted
        /\ view'[t].vaultMode = view[t].vaultMode
        /\ view'[t].pending = view[t].pending \ {p}
    BY <2>1 DEF Answer, Types, Shape
  <2>4. Answered(p)'
    <3>1. PICK c \in {ApprovePeer(p), DenyPeer(p)} : commands' = Append(commands, c)
      BY <2>1 DEF Answer
    <3>2. commands \in Seq(UserCommand) /\ c \in UserCommand
      BY <3>1 DEF Types, UserCommand
    <3>3. Len(commands) + 1 \in DOMAIN commands' /\ commands'[Len(commands) + 1] = c
      BY <3>1, <3>2, AppendProperties, LenProperties
    <3> QED
      BY <3>1, <3>3 DEF Answered, ApprovePeer, DenyPeer
  <2> QED
    BY <1>2, <1>3, <2>2, <2>3, <2>4, FadesKeeps
<1> QED
  BY <1>5, <1>6, <1>7, <1>8, <1>9, SendTrustedKeeps, SendKnownKeeps, DeliverKeeps DEF Page

LEMMA FeedNext ==
  ASSUME FeedInv, [Next]_vars
  PROVE  FeedInv'
<1> SUFFICES ASSUME NEW t \in Tab PROVE TabInv(t)'
  BY TypesNext DEF FeedInv
<1>1. Types /\ TabInv(t)
  BY DEF FeedInv
<1>2. CASE UNCHANGED vars
  BY <1>1, <1>2 DEF vars, node, tabs, TabInv, ThereInv, PromptInv, TrustInv, ModeInv, Hears,
     Pipe, Answered, Lists, Omits, There, Prompt, Trust, Mode, PeerDiscovered, PeerConnected,
     PeerDisconnected, PeerKeyRevoked, TrustedPeers, VaultModeChanged, ApprovePeer, DenyPeer
<1>3. CASE Forward
  <2>1. /\ view' = view /\ commands' = commands
        /\ UNCHANGED <<connected, pending, trusted, vaultMode>>
    BY <1>3 DEF Forward, node
  <2>2. \A p : Answered(p)' <=> Answered(p)
    BY <2>1 DEF Answered, ApprovePeer, DenyPeer
  <2> QED
    BY <1>1, <1>3, <2>1, <2>2, FadesForward, FadesKeeps
<1> QED
  BY <1>1, <1>2, <1>3, KeptByNetwork, KeptByExecute, KeptByPage DEF Next

\* What a tab that is up to date heard the last of, it shows.
LEMMA FeedImplies == FeedInv => TabFollows
<1> SUFFICES ASSUME FeedInv, NEW t \in Tab, Drained(t)
             PROVE  /\ \A p \in connected : There(p) \notin stale[t] => p \in view[t].peers
                    /\ \A p \in pending \cap connected :
                         Prompt(p) \notin stale[t] => p \in view[t].pending
                    /\ \A p \in view[t].trusted : Trust(p) \notin stale[t] => p \in trusted
                    /\ Mode \notin stale[t] => view[t].vaultMode = vaultMode
  BY DEF TabFollows, Shows
<1>1. Pipe(t) = <<>>
  BY EmptySeq, ConcatEmptySeq DEF Drained, Pipe
<1>2. \A x : x \notin stale[t] => Hears(t, x)
  BY <1>1 DEF Hears, Silent
<1>3. \A p : ~ Answered(p)
  BY DEF Drained, Answered
<1>4. /\ connected \subseteq Peer /\ pending \subseteq Peer
      /\ view[t].trusted \subseteq Peer
  BY DEF FeedInv, Types, Shape
<1> QED
  BY <1>2, <1>3, <1>4 DEF FeedInv, TabInv, ThereInv, PromptInv, TrustInv, ModeInv

\* A tab that has caught up with the node shows its state, of everything whose
\* last event reached the tab's receiver or was overtaken by its snapshot:
\* whoever subscribes, loses events or reconnects, and in whatever order the
\* handlers, the forwarding task and the tasks of the tabs run
\* (gui/ws.rs handle_socket, main.rs run).
THEOREM TabFollowsHolds == Spec => []TabFollows
<1>1. Init => FeedInv
  BY FeedInit
<1>2. FeedInv /\ [Next]_vars => FeedInv'
  BY FeedNext
<1>3. FeedInv => TabFollows
  BY FeedImplies
<1> QED
  BY <1>1, <1>2, <1>3, PTL DEF Spec

=============================================================================
