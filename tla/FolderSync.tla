----------------------------- MODULE FolderSync -----------------------------
(***************************************************************************)
(* Two connected nodes that share a folder, with their users, watchers and *)
(* notices (watcher.rs; main.rs, the arm of the notices; sync/handler.rs,  *)
(* SetFolder, the notices and what they set off).                          *)
(*                                                                         *)
(* A user saves or removes a file; the operating system tells every        *)
(* watcher of that folder; the watcher drops what the node did itself (the *)
(* marks writing_files and deleting_files) and tells the main loop, which  *)
(* drops a change of a file it announced in the last five seconds and      *)
(* tells the peer; the peer removes its copy and asks for the manifest.    *)
(* Users, operating system, watchers, main loops and network interleave    *)
(* freely; a handler runs to its end.                                      *)
(*                                                                         *)
(* Abstractions.  A file is one chunk, its hash the content.  The slots    *)
(* and windows of the scheduler and what is lost on the way are in module  *)
(* Download, keys and connections in module Tofu: here the connection      *)
(* stays up, so that a folder set is always announced, and every file      *)
(* wanted is requested at once.  Writes do not fail, vault mode is off.    *)
(* A user's save is one event of the operating system.                     *)
(***************************************************************************)
EXTENDS Integers, Sequences, FiniteSets, Bags, SequencesExt

CONSTANTS
    NodeA, NodeB,   \* the two nodes
    File,           \* the names users save files under
    Conflict,       \* Conflict[x]: the names of conflict copies of x
    Content,        \* what files hold
    Absent,         \* nothing under that name
    Dir,            \* Dir[n]: folders on the disk of node n
    None,           \* no folder is set
    Initial,        \* Initial[n]: the disk of n at the start
    Patient,        \* what users do only when all is at rest
    Budget          \* Budget[k]: how many times users do k

Node == {NodeA, NodeB}
Kind == {"save", "remove", "folder"}
Name == DOMAIN Conflict
Path(n) == Dir[n] \X Name

ASSUME NodeAssumption == NodeA # NodeB /\ DOMAIN Dir = Node
ASSUME NameAssumption ==
    /\ IsFiniteSet(Name)                                   \* a listing ends
    /\ File \subseteq Name
    /\ \A x \in Name : Conflict[x] \subseteq Name \ File   \* nobody saves under these
ASSUME NoneAssumption ==
    /\ Absent \notin Content
    /\ \A n \in Node : None \notin Dir[n]
ASSUME InitialAssumption ==
    /\ DOMAIN Initial = Node
    /\ \A n \in Node : Initial[n] \in [Path(n) -> Content \cup {Absent}]
ASSUME BudgetAssumption == Budget \in [Kind -> Nat] /\ Patient \subseteq Kind

VARIABLES
    disk,       \* disk[n][<<d, x>>]: what n has under the name x in folder d
    sync,       \* sync_path
    watchers,   \* the run_watcher tasks, with the events they have not seen
    notices,    \* what watchers told the main loop (notify_rx)
    writing,    \* writing_files
    deleting,   \* deleting_files
    recent,     \* recently_notified, those of the last five seconds
    active,     \* transfers: the hash wanted and the folder it goes to
    net,        \* net[n]: messages on their way to n
    spent,      \* how often users did each kind of thing
    mine,       \* history: what n's user saved last under each path
    upset       \* history: what happened that a property may not allow

marks == <<writing, deleting, recent>>
queues == <<watchers, notices>>
history == <<mine, upset>>
vars == <<disk, sync, queues, marks, active, net, spent, history>>

Other(n) == IF n = NodeA THEN NodeB ELSE NodeA

-----------------------------------------------------------------------------
(* Messages and events.                                                     *)

FolderAnnouncement == [type |-> "FolderAnnouncement"]
ManifestRequest == [type |-> "ManifestRequest"]
Manifest(files) == [type |-> "Manifest", files |-> files]
ChunkRequest(x) == [type |-> "ChunkRequest", file |-> x]
ChunkResponse(x, c) == [type |-> "ChunkResponse", file |-> x, data |-> c]
FileChanged(x) == [type |-> "FileChanged", file |-> x]
FileDeleted(x) == [type |-> "FileDeleted", file |-> x]

InFlight(n) == BagToSet(net[n])

\* The network after n sent the messages in S to the other node.
Sent(n, S) == [net EXCEPT ![Other(n)] = @ (+) SetToBag(S)]

\* The same after n also took m.
Handled(n, m, S) == [net EXCEPT ![n] = @ (-) SetToBag({m}),
                                ![Other(n)] = @ (+) SetToBag(S)]

Written(x) == [kind |-> "write", file |-> x]
Removed(x) == [kind |-> "remove", file |-> x]

\* Every watcher of folder d on node n gets the events.
Noticed(n, d, events) ==
    [watchers EXCEPT ![n] =
       [w \in DOMAIN @ |-> IF @[w].dir = d
                           THEN [dir |-> d, events |-> @[w].events \o events]
                           ELSE @[w]]]

Put(x, v, map) == [y \in DOMAIN map \cup {x} |-> IF y = x THEN v ELSE map[y]]

Here(n, x) == disk[n][<<sync[n], x>>]
Holds(n) == {Here(n, x) : x \in Name} \ {Absent}
Offered(n) == {x \in Name : Here(n, x) # Absent}

\* Nothing is on its way between a disk, a watcher, a main loop and the peer.
Settled ==
    \A n \in Node :
        /\ net[n] = EmptyBag
        /\ notices[n] = <<>>
        /\ DOMAIN active[n] = {}
        /\ \A w \in DOMAIN watchers[n] : watchers[n][w].events = <<>>

\* Nor is any mark or five-second window open.
Rested ==
    /\ Settled
    /\ \A n \in Node : writing[n] = {} /\ deleting[n] = {} /\ recent[n] = {}

Spend(k) == /\ spent[k] < Budget[k]
            /\ spent' = [spent EXCEPT ![k] = @ + 1]

-----------------------------------------------------------------------------
Init ==
    /\ disk = Initial
    /\ sync = [n \in Node |-> None]
    /\ watchers = [n \in Node |-> <<>>]
    /\ notices = [n \in Node |-> <<>>]
    /\ writing = [n \in Node |-> {}]
    /\ deleting = [n \in Node |-> {}]
    /\ recent = [n \in Node |-> {}]
    /\ active = [n \in Node |-> <<>>]
    /\ net = [n \in Node |-> EmptyBag]
    /\ spent = [k \in Kind |-> 0]
    /\ mine = [n \in Node |-> [p \in Path(n) |-> Absent]]
    /\ upset = {}

-----------------------------------------------------------------------------
(* Users.                                                                   *)

\* What the history keeps of a user's act of kind k: whether it crossed what
\* was still going on, which a patient user does not do, and what else it is.
Blame(k, inTurn, also) ==
    /\ k \in Patient => inTurn
    /\ upset' = upset \cup also \cup IF inTurn THEN {} ELSE {"crossing"}

\* An edit in folder d of n finds the nodes at rest and sharing that folder.
InTurn(n, d) == Rested /\ d = sync[n] /\ sync[Other(n)] # None

\* An edit at n is the edit of a second user.
Rival(n) == IF \A p \in Path(Other(n)) : mine[Other(n)][p] = Absent
            THEN {} ELSE {"rival"}

\* The folder d agrees with the one the other node shares now, if any, where
\* both have a name.
Compatible(n, d) ==
    LET m == Other(n) IN
    sync[m] # None => \A x \in Name : \/ disk[n][<<d, x>>] = Absent
                                      \/ Here(m, x) = Absent
                                      \/ disk[n][<<d, x>>] = Here(m, x)

\* Set Folder, to another folder or the same: one more watcher is started, none
\* is stopped, and transfers that are active go on into the folder they began
\* with.
SetFolder(n, d) ==
    /\ Spend("folder")
    /\ d \in Dir[n]
    /\ sync' = [sync EXCEPT ![n] = d]
    /\ watchers' = [watchers EXCEPT ![n] = Append(@, [dir |-> d, events |-> <<>>])]
    /\ net' = Sent(n, {FolderAnnouncement, ManifestRequest})
    /\ Blame("folder", Settled /\ Compatible(n, d), {})
    /\ UNCHANGED <<disk, notices, marks, active, mine>>

Save(n, d, x, c) ==
    /\ Spend("save")
    /\ \E w \in DOMAIN watchers[n] : watchers[n][w].dir = d
    /\ disk[n][<<d, x>>] # c
    /\ disk' = [disk EXCEPT ![n][<<d, x>>] = c]
    /\ mine' = [mine EXCEPT ![n][<<d, x>>] = c]
    /\ watchers' = Noticed(n, d, <<Written(x)>>)
    /\ Blame("save", InTurn(n, d), Rival(n))
    /\ UNCHANGED <<sync, notices, marks, active, net>>

Unlink(n, d, x) ==
    /\ Spend("remove")
    /\ \E w \in DOMAIN watchers[n] : watchers[n][w].dir = d
    /\ disk[n][<<d, x>>] # Absent
    /\ disk' = [disk EXCEPT ![n][<<d, x>>] = Absent]
    /\ mine' = [mine EXCEPT ![n][<<d, x>>] = Absent]
    /\ watchers' = Noticed(n, d, <<Removed(x)>>)
    /\ Blame("remove", InTurn(n, d), Rival(n) \cup {"removal"})
    /\ UNCHANGED <<sync, notices, marks, active, net>>

-----------------------------------------------------------------------------
(* The watchers and the main loop.                                          *)

\* Mutant: the marks of written files are not looked at.
OwnDeletes(n, p, e) == e.kind = "remove" /\ p \in deleting[n]

\* The event is of something the node did itself, by the marks as they are
\* when the watcher comes to it.
Own(n, p, e) == IF e.kind = "write" THEN p \in writing[n] ELSE p \in deleting[n]

\* A watcher takes an event: a change of what is still a file, or a removal,
\* is told to the main loop by its name relative to the watcher's folder.
Watch(n, w) ==
    /\ watchers[n][w].events # <<>>
    /\ LET e == Head(watchers[n][w].events)
           p == <<watchers[n][w].dir, e.file>>
       IN notices' = IF Own(n, p, e) \/ (e.kind = "write" /\ disk[n][p] = Absent)
                     THEN notices
                     ELSE [notices EXCEPT ![n] = Append(@, e)]
    /\ watchers' = [watchers EXCEPT ![n][w].events = Tail(@)]
    /\ UNCHANGED <<disk, sync, marks, active, net, spent, history>>

\* Mutant: every change is announced.
RecentlyNever(n, x) == FALSE

\* x was announced less than five seconds ago.
Recently(n, x) == x \in recent[n]

Announce(n) ==
    /\ notices[n] # <<>>
    /\ notices' = [notices EXCEPT ![n] = Tail(@)]
    /\ LET e == Head(notices[n]) IN
       IF e.kind = "remove"
       THEN /\ recent' = [recent EXCEPT ![n] = @ \ {e.file}]
            /\ net' = Sent(n, {FileDeleted(e.file)})
       ELSE IF Recently(n, e.file)
            THEN UNCHANGED <<recent, net>>
            ELSE /\ recent' = [recent EXCEPT ![n] = @ \cup {e.file}]
                 /\ net' = Sent(n, {FileChanged(e.file)})
    /\ UNCHANGED <<disk, sync, watchers, writing, deleting, active, spent, history>>

Pending(n, p) ==
    \E w \in DOMAIN watchers[n] :
        /\ watchers[n][w].dir = p[1]
        /\ \E i \in DOMAIN watchers[n][w].events : watchers[n][w].events[i].file = p[2]

\* The windows close.  The model takes them to be long enough: a watcher sees
\* the events of a file within 1.5 s (2 s) of the write (removal), and what a
\* notice sets off comes to rest within five seconds.
WritingExpires(n, p) ==
    /\ p \in writing[n]
    /\ ~ Pending(n, p)
    /\ writing' = [writing EXCEPT ![n] = @ \ {p}]
    /\ UNCHANGED <<disk, sync, queues, deleting, recent, active, net, spent, history>>

DeletingExpires(n, p) ==
    /\ p \in deleting[n]
    /\ ~ Pending(n, p)
    /\ deleting' = [deleting EXCEPT ![n] = @ \ {p}]
    /\ UNCHANGED <<disk, sync, queues, writing, recent, active, net, spent, history>>

RecentExpires(n, x) ==
    /\ x \in recent[n]
    /\ Settled
    /\ recent' = [recent EXCEPT ![n] = @ \ {x}]
    /\ UNCHANGED <<disk, sync, queues, writing, deleting, active, net, spent, history>>

-----------------------------------------------------------------------------
(* Messages.                                                                *)

OnAnnouncement(n, m) ==
    /\ m.type = "FolderAnnouncement"
    /\ net' = Handled(n, m, {ManifestRequest})
    /\ UNCHANGED <<disk, sync, queues, marks, active, spent, history>>

\* A node with no folder, or nothing in it, answers Empty.
OnManifestRequest(n, m) ==
    /\ m.type = "ManifestRequest"
    /\ net' = Handled(n, m, IF sync[n] = None \/ Offered(n) = {} THEN {}
                            ELSE {Manifest([x \in Offered(n) |-> Here(n, x)])})
    /\ UNCHANGED <<disk, sync, queues, marks, active, spent, history>>

OnChunkRequest(n, m) ==
    /\ m.type = "ChunkRequest"
    /\ net' = Handled(n, m, IF sync[n] = None \/ Here(n, m.file) = Absent THEN {}
                            ELSE {ChunkResponse(m.file, Here(n, m.file))})
    /\ UNCHANGED <<disk, sync, queues, marks, active, spent, history>>

Wanted(n, files) ==
    {x \in DOMAIN files : Here(n, x) = Absent /\ x \notin DOMAIN active[n]}

\* The files wanted whose content the folder has under another name are
\* written at once, without a mark; the others are requested.  (Saves between
\* the lookup and the reading are in module Download.)
OnManifest(n, m) ==
    /\ m.type = "Manifest"
    /\ sync[n] # None
    /\ LET wanted == Wanted(n, m.files)
           local  == {x \in wanted : m.files[x] \in Holds(n)}
       IN /\ disk' = [disk EXCEPT ![n] =
                        [p \in DOMAIN @ |-> IF p[1] = sync[n] /\ p[2] \in local
                                            THEN m.files[p[2]] ELSE @[p]]]
          /\ watchers' = Noticed(n, sync[n], SetToSeq({Written(x) : x \in local}))
          /\ active' = [active EXCEPT ![n] =
                          [x \in DOMAIN @ \cup (wanted \ local) |->
                             IF x \in DOMAIN @ THEN @[x]
                             ELSE [hash |-> m.files[x], dir |-> sync[n]]]]
          /\ net' = Handled(n, m, {ChunkRequest(x) : x \in wanted \ local})
          /\ upset' = IF local = {} THEN upset ELSE upset \cup {"local"}
    /\ UNCHANGED <<sync, notices, marks, spent, mine>>

\* A manifest without a folder to put the files into is dropped.
DropManifest(n, m) ==
    /\ m.type = "Manifest"
    /\ sync[n] = None
    /\ net' = Handled(n, m, {})
    /\ UNCHANGED <<disk, sync, queues, marks, active, spent, history>>

\* A chunk nobody waits for is dropped, one of other content requested again.
RefuseChunk(n, m) ==
    /\ m.type = "ChunkResponse"
    /\ m.file \in DOMAIN active[n] => m.data # active[n][m.file].hash
    /\ net' = Handled(n, m, IF m.file \in DOMAIN active[n] THEN {ChunkRequest(m.file)}
                            ELSE {})
    /\ UNCHANGED <<disk, sync, queues, marks, active, spent, history>>

\* A conflict copy in folder d would get the name of a file that is there, or
\* of one that is being fetched.
Taken(n, d, y) ==
    \/ disk[n][<<d, y>>] # Absent
    \/ y \in DOMAIN active[n] /\ active[n][y].dir = d

\* The file is complete: the path is marked, what another hand put there in
\* the meantime becomes a conflict copy, named after the second it is made in,
\* and the file is written.
WriteFile(n, m) ==
    /\ m.type = "ChunkResponse"
    /\ m.file \in DOMAIN active[n]
    /\ m.data = active[n][m.file].hash
    /\ LET d   == active[n][m.file].dir
           p   == <<d, m.file>>
           old == disk[n][p]
       IN /\ writing' = [writing EXCEPT ![n] = @ \cup {p}]
          /\ \/ /\ old \in {Absent, m.data}
                /\ disk' = [disk EXCEPT ![n][p] = m.data]
                /\ watchers' = Noticed(n, d, <<Written(m.file)>>)
                /\ upset' = upset
             \/ /\ old \notin {Absent, m.data}
                /\ \E y \in Conflict[m.file] :
                      /\ disk' = [disk EXCEPT ![n][p] = m.data, ![n][<<d, y>>] = old]
                      /\ watchers' = Noticed(n, d, <<Written(y), Written(m.file)>>)
                      /\ upset' = IF Taken(n, d, y) THEN upset \cup {"reused"} ELSE upset
    /\ active' = [active EXCEPT ![n] = [x \in DOMAIN @ \ {m.file} |-> @[x]]]
    /\ net' = Handled(n, m, {})
    /\ UNCHANGED <<sync, notices, deleting, recent, spent, mine>>

\* Twenty seconds without an answer: the request is repeated.  (Requests that
\* are slow and still open are in module Download: here what was sent arrives
\* within the five-second window.)
CheckStalls(n, x) ==
    /\ x \in DOMAIN active[n]
    /\ ChunkRequest(x) \notin InFlight(Other(n))
    /\ \A m \in InFlight(n) : m.type = "ChunkResponse" => m.file # x
    /\ net' = Sent(n, {ChunkRequest(x)})
    /\ UNCHANGED <<disk, sync, queues, marks, active, spent, history>>

\* The node's copy under the name of the notice goes.
Gone(n, x) ==
    /\ disk' = [disk EXCEPT ![n][<<sync[n], x>>] = Absent]
    /\ watchers' = IF Here(n, x) = Absent THEN watchers
                   ELSE Noticed(n, sync[n], <<Removed(x)>>)

\* Mutant: the new content is not asked for.
ReactionNone(m) == {}

\* What a notice makes the node ask for.
Reaction(m) == IF m.type = "FileChanged" THEN {ManifestRequest} ELSE {}

\* The peer changed a file: the removal of the copy is marked as the node's
\* own, and the manifest is requested.
OnFileChanged(n, m) ==
    /\ m.type = "FileChanged"
    /\ IF sync[n] = None
       THEN /\ net' = Handled(n, m, {})
            /\ UNCHANGED <<disk, watchers, deleting>>
       ELSE /\ deleting' = [deleting EXCEPT ![n] = @ \cup {<<sync[n], m.file>>}]
            /\ Gone(n, m.file)
            /\ net' = Handled(n, m, Reaction(m))
    /\ UNCHANGED <<sync, notices, writing, recent, active, spent, history>>

\* The peer removed a file: the removal of the copy is not marked.
OnFileDeleted(n, m) ==
    /\ m.type = "FileDeleted"
    /\ IF sync[n] = None THEN UNCHANGED <<disk, watchers>> ELSE Gone(n, m.file)
    /\ net' = Handled(n, m, Reaction(m))
    /\ UNCHANGED <<sync, notices, marks, active, spent, history>>

OnMessage(n, m) ==
    /\ m \in InFlight(n)
    /\ \/ OnAnnouncement(n, m)
       \/ OnManifestRequest(n, m)
       \/ OnChunkRequest(n, m)
       \/ OnManifest(n, m)
       \/ DropManifest(n, m)
       \/ RefuseChunk(n, m)
       \/ WriteFile(n, m)
       \/ OnFileChanged(n, m)
       \/ OnFileDeleted(n, m)

-----------------------------------------------------------------------------
Work(n) ==
    \/ \E w \in DOMAIN watchers[n] : Watch(n, w)
    \/ Announce(n)
    \/ \E m \in InFlight(n) : OnMessage(n, m)
    \/ \E x \in Name : CheckStalls(n, x)

Windows(n) ==
    \/ \E p \in writing[n] : WritingExpires(n, p)
    \/ \E p \in deleting[n] : DeletingExpires(n, p)
    \/ \E x \in recent[n] : RecentExpires(n, x)

User(n) ==
    \E d \in Dir[n] :
       \/ SetFolder(n, d)
       \/ \E x \in File : Unlink(n, d, x) \/ \E c \in Content : Save(n, d, x, c)

Next == \E n \in Node : Work(n) \/ Windows(n) \/ User(n)

Spec == Init /\ [][Next]_vars

(***************************************************************************)
(* Fairness.  Watcher tasks and main loops run whenever they have something *)
(* to do, and a connection that stays up delivers.  Nothing obliges users. *)
(***************************************************************************)
Fairness ==
    \A n \in Node :
        /\ WF_vars(\E w \in DOMAIN watchers[n] : Watch(n, w))
        /\ WF_vars(Announce(n))
        /\ WF_vars(\E m \in InFlight(n) : OnMessage(n, m))
        /\ WF_vars(\E x \in Name : CheckStalls(n, x))

FairSpec == Spec /\ Fairness

-----------------------------------------------------------------------------
(* Properties.                                                              *)

\* When users take turns (each acts, in the folder that is shared, once all
\* is at rest) the two folders are the same whenever nothing is on its way:
\* a save, a removal, a new folder reaches the other side and none of the
\* echoes of the nodes' own writes and removals undoes it.
SettledAgree ==
    Settled /\ "crossing" \notin upset /\ (\A n \in Node : sync[n] # None)
      => \A x \in Name : Here(NodeA, x) = Here(NodeB, x)

\* When users take turns, the nodes come to rest after each: a file written
\* from local data, which carries no mark and is announced back, does not go
\* back and forth for ever.
SettlesDown == []<>(Settled \/ "crossing" \in upset)

\* As long as only one user edits, and removes nothing, what he saved last
\* stays in his folder, under its name or as a conflict copy, however quickly
\* he saves and whatever the nodes are doing: no notice comes back to him.
\* (A file that is written from local data is announced back, and two conflict
\* copies of one second get one name: excluded.)
AuthorKeeps ==
    upset \cap {"rival", "removal", "local", "reused"} = {} =>
      \A n \in Node : \A p \in Path(n) :
        mine[n][p] # Absent =>
          \E y \in {p[2]} \cup Conflict[p[2]] : disk[n][<<p[1], y>>] = mine[n][p]

\* A file that somebody saved and nobody removed exists, under its name or as
\* a conflict copy, on some disk.  (storage.rs:752, "keep BOTH copies ... so
\* the user loses nothing".)
FileSurvives ==
    "removal" \notin upset =>
      \A x \in File :
        (\E n \in Node : \E d \in Dir[n] : mine[n][<<d, x>>] # Absent) =>
          \E n \in Node : \E d \in Dir[n] : \E y \in {x} \cup Conflict[x] :
            disk[n][<<d, y>>] # Absent

=============================================================================
