# Vitruvius: specifications and proofs

TLA+ models of Vitruvius, a peer-to-peer folder synchroniser in Rust (libp2p,
tokio), their model-checking configurations and machine-checked proofs. Paths
are relative to the repository root; `handler.rs` is `src/src/sync/handler.rs`.

## 1. Inventory

One process runs one `tokio::select!` loop (`main.rs:266-341`) over four sources:
GUI commands, swarm events, change notices of the folder watcher, and a ten-second
tick. **Every handler runs to its end before the next event is taken**, so there is
no race on memory between handlers; what interleaves is the handlers with each
other in any order, with the other nodes, the network, the disk, and the users
of both folders. Beside the loop run the watcher tasks, the timers that clear marks, and the
tasks of the browser tabs, which read `AppState` and talk to the loop over channels.
State is in `AppState` (`state.rs`, behind a mutex held briefly)
and in `transfers: HashMap<PeerId, PeerDownload>`, which only the loop touches.

| Component | Code | State | Operations | Correct when |
|---|---|---|---|---|
| Download scheduler | `handler.rs` on_response, start_queued_files, check_stalls | per peer: active transfers, queue; per transfer: chunks received, next request | manifest, chunk, write, retry, stall check, close | bounded streams; no slot wasted or leaked; no file twice; every file arrives |
| Serving side | `handler.rs` on_request, `storage.rs` | folder, file ids given out | manifest, chunk, both protocols | serves what its manifest promised, or an error |
| Chunking, manifest entries | `storage.rs`, `network.rs` | – | hash, count, read a chunk | every file has an entry its chunks verify against |
| Reassembly, conflict copies | `storage.rs:709-808` | folder | write, rename what is in the way | nothing a user saved is lost; no torn file |
| TOFU key exchange | `tofu.rs`, `state.rs`, `handler.rs` | keys in memory and in the store, pending secrets, pending approvals | propose, ask, approve, deny, revoke, accept, re-key | both sides hold the same key; none without consent |
| Sessions, announcements | `handler.rs:519-826` | connected peers, who was announced to | connect, close, announce, ask for the manifest | a manifest is asked for whenever both are ready |
| Watcher, change notices | `watcher.rs`, `main.rs:289-333`, `handler.rs:1020-1084` | marks for own writes and deletions, last notice per file | change, deletion, notice | own writes are not announced; every user's change is |
| Vault | `storage.rs:214-448`, `858-911`, `handler.rs:331-446`, `main.rs:150-183` | `.vit` containers, the key file, the key and mode in memory | write, list, serve, import, export, switch | the key at hand opens every container; exports are whole |
| GUI server | `gui/`, `main.rs:197-257` | two channels, a broadcast receiver per tab | attach, snapshot, deliver, command | a tab shows the node's state |
| Crypto, identity, CLI | `crypto.rs`, `identity.rs`, `main.rs` | key files | pure functions and I/O | section 7 |

**Interaction.** Nodes exchange requests and responses over libp2p
(`network.rs:80-154`, timeout 120 s). A change of a key in the exchange decides
what the serving side encrypts and whether a chunk in flight can be opened. A
connection's end drops the peer's transfers. A finished file frees a slot and starts
`start_queued_files`. A notice removes the local copy and asks for the manifest, which
is how a changed file is downloaded again.

**What is hard**: answers in any order and twice (stall checks repeat requests that
are still open); files that change at either end in the middle of a transfer; keys
that change in the middle of a transfer; failures between the last chunk and the
written file; two connections between the same nodes; users who answer late; a
restart or a lost key store between the two halves of an exchange; a node's own writes that
come back as events; notices that remove before anything replaces; a death in the middle of
a file, a container or a key; a tab that lags or reloads. `PROJECT.json`
lists each hazard at its line with the properties that watch it.

## 2. Plan

| Step | Module | Content | State |
|---|---|---|---|
| 1 | `Download`, `MCDownload` | one downloading node, any number of peers that serve it, the network, disk and users | done |
| 2 | `DownloadProofs`, `SlotProofs`, `ChunkProofs` | type correctness, verified chunks, whole files; slots, queues and progress; chunks under way | done |
| 3 | `Tofu`, `MCTofu`, `TofuProofs` | key exchange and announcements of two nodes; consent and agreement of keys | done |
| 4 | `FileDelivery`, `DeliveryMapping`, `DeliveryProofs` | the abstract specification of the download, the refinement mapping and its proof | done |
| 5 | `FolderSync`, `MCFolderSync`, `FolderSyncProofs` | two symmetric nodes: users, watchers, marks, five-second window, notices, SetFolder; what a single author saved, and agreement in turns | done |
| 6 | `Storage`, `MCStorage`, `StorageProofs` | one folder: chunks, conflict copies, vault, key file, deaths in the middle of a write; keys, saved versions, exports and listings | done |
| 7 | `GuiFeed`, `MCGuiFeed`, `GuiFeedProofs` | what the tabs show | done |
| 8 | – | three nodes: the refresh of the other peers of a mesh | left out, section 7 |

The modules meet in these places. `rxKey`/`txKey` of `Download` are the `key` of the
two nodes of `Tofu`, which change at different moments (`NodeRekeys`, `PeerRekeys`).
`FolderSync` composes two nodes, each both the downloading and the serving end; a
transfer there is one request and one answer, since `Download` shows what happens to it
in between. `RemoteEdit`, `LocalEdit` and `OnFileNotice` of `Download` stand for what
`FolderSync` details. A transfer that begins and ends in `Storage` is one that
`Download` delivers. `connected`, `pending` and `trusted` of `GuiFeed` follow what
`Tofu` details. Modules that are proved about declare no RECURSIVE operator.

## 3. The modules

### Download

| TLA+ | Code |
|---|---|
| `active`, `queue` | `PeerDownload` (`handler.rs:68-80`), `FileTransferState` (`storage.rs:66-93`) |
| `connected`, `rxKey`, `inbound` | `connected_peers`, `peer_keys`, `inbound_file_ids` (`state.rs`) |
| `remote`, `txKey`, `outbound` | a peer's folder, key and `outbound_file_ids` |
| `disk` | the node's folder |
| `loop` | whose `start_queued_files` is running: its iterations write files and are steps of their own, during which no event is handled |
| `net` | a bag of requests, answers and notices in flight, per peer |
| `draft` | the index and the chunks read for the file the loop has come to |
| `torn`, `raced`, `spent` | history: failed writes, and files whose local source was saved between its hashing and the reading; the environment's budget |
| `Connect`, `Disconnect`, `Restart`, `RequestSync` | `handler.rs:552-679`, `281-293`, a new process |
| `ServeManifest`, `ServeChunk` | `on_request`, `handler.rs:828-1006` |
| `OnManifest` | `handler.rs:1306-1523`, both manifests |
| `SkipPresent`, `BeginLookup`, `IndexFile`, `ReadLocal`, `WriteFromLocal`, `LocalWriteFails`, `Activate`, `EndLoop` | one iteration of `start_queued_files`, `handler.rs:1962-2117` |
| `DropChunk`, `RetryChunk`, `StoreChunk`, `FinishFile`, `FinishFails` | `handler.rs:1525-1938`, the outcomes of one chunk answer of either protocol |
| `CheckStalls` | `handler.rs:454-513` |
| `Lose` | `OutboundFailure`, `InboundFailure` |
| `RemoteEdit`, `LocalEdit`, `OnFileNotice` | users; watcher; `handler.rs:1020-1084` |
| `PeerRekeys`, `NodeRekeys` | `set_peer_key` at the two ends, `state.rs:129-137` |

Abstractions: a chunk's content is a value of `Data` and its hash the content itself
(hashes do not collide); a blinded hash is content and key; a file id is the pair of key
and file; chunks are numbered from 1. A manifest entry is computed from one version
of its file, although a save can fall between two manifests. The lookup of
local chunks is as in the code: each file of the folder is hashed in a step of its own,
each chunk found is read in a later one and kept as it is then, and users save in between. Writing a file is one step that
succeeds or, with the budget's leave, fails and leaves a prefix of the file, no file, or the
old one. A file of no bytes has no hash and one chunk, as in `storage.rs:164`. A read by a
`.vit` name, a name that `unsafe_rel_path` refuses, a conflict copy (module Storage) and a change of folder (module FolderSync) do not occur.
What a peer does to its own folder when this node notifies it is one more `RemoteEdit`.

### Tofu

| TLA+ | Code |
|---|---|
| `key`, `store` | `peer_keys`; `vitruvius_tofu.json` |
| `secret`, `proposal` | `pending_exchanges`, `pending_approvals` |
| `up` | open connections |
| `outbox` | requests libp2p holds until a dial succeeds |
| `asked`, `trust`, `muddled`, `made`, `spent` | history: who asked for the manifest holding a key; the user's last word; whether a second connection, a loss or a late approval has mixed two exchanges; key pairs generated; the budget |
| `Open`, `Close`, `DialFails`, `Lose` | `handler.rs:552-729` |
| `OnPropose`, `OnAccept`, `OnAnnouncement` | `handler.rs:1085-1200`, `1238-1304`, `761-826` |
| `Approve`, `Deny`, `Revoke` | `on_command`, `handler.rs:95-168`, `301-329` |
| `Restart(n, lost)` | a new process, with or without its key store |

`Lower` is the node with the lower peer id: the only one that proposes. A key derived
from secret *s* and public key *p* is the set {*s*, *p*}. A connection comes up and goes down
at both ends in one step; both nodes have a folder; neither was started with
`--key-path`. `Patient` says that users answer a prompt only while the peer is
connected and no newer proposal is on its way; the passing run is without it.

### FileDelivery and DeliveryMapping

What the download promises, with no queue, slot, window, chunk, key or message: a
version that a peer offers is *under way* until it is delivered or given up; the folder
changes only by the delivery of a whole version that is under way from that peer, by a
notice of a peer, by its own user, and by a write that fails. A save of the user may make
*doubtful* what is just being looked up in his files, and then other blocks may be delivered. `DeliveryMapping` maps
`Download` to it: a version is under way while a manifest that names it is in flight, or
its file waits or is active; a notice stands while it is in flight; a file is doubtful
when its lookup or transfer was `raced`. `DeliversFiles` is
`Delivery!Spec` under this mapping, a property of `Download`.

### FolderSync

| TLA+ | Code |
|---|---|
| `disk`, `sync` | the folders of a node; `sync_path` |
| `watchers` | the `run_watcher` tasks that SetFolder started (none is ever stopped), each with the events it has not seen |
| `notices` | `notify_tx`/`notify_rx` |
| `writing`, `deleting`, `recent` | `writing_files`, `deleting_files`, `recently_notified` |
| `active`, `net` | transfers with the folder they go to; messages |
| `mine`, `upset` | history: what a user saved last; what happened that a property excludes |
| `SetFolder` | `handler.rs:169-250`, `main.rs:280-285` |
| `Watch`, `Own` | `watcher.rs:54-100` |
| `Announce`, `Recently` | `main.rs:287-335` |
| `OnFileChanged`, `OnFileDeleted` | `handler.rs:1020-1084`: the first marks the removal and asks for the manifest, the second does neither |
| `OnManifest`, `WriteFile`, `RefuseChunk`, `CheckStalls` | `handler.rs:1442-1715`, `454-513`, `storage.rs:750-808` |
| `WritingExpires`, `DeletingExpires`, `RecentExpires` | the 1.5 s, 2 s and 5 s windows |

Users, operating system, watchers, main loops and network interleave freely. The
windows are assumed to be long enough: a mark outlives the events it is for, and what a
notice sets off settles before the five seconds are over. The local chunks of a manifest are
looked up and read in one step, which hides nothing from the properties (users who take
turns do not save in between, `AuthorKeeps` excludes local writes). A file is one chunk; messages
are not lost; a save is one event. `Patient` names what users do only when all is at rest.

### Storage

| TLA+ | Code |
|---|---|
| `disk`, `box` | the plain files and the `.vit` containers of the folder |
| `keyFile`, `made` | `~/.vitruvius/vault.key`; keys are numbered as they are made |
| `up`, `vaultMode`, `vaultKey`, `incoming` | the process; `AppState`; transfers under way |
| `saved`, `torn`, `upset`, `replaced` | history, for the conditions of the properties |
| `ReadAt`, `TotalChunks`, `ChunkHashes`, `Chunks` | `storage.rs:158-182`, `591-601`, `891-902`, on sequences of bytes |
| `Listed`, `Listing`, `Serves`, `Refused` | `storage.rs:466-483`, `575-602`, `151-153`: what is listed in the present mode, and what is served with the key in memory |
| `Container`, `Listable`, `Opens`, `Truncated` | the container format, `storage.rs:214-354`, and what a crash leaves of it |
| `StartPlain`, `StartVault`, `LoadKey`, `KeyWriteDies` | `main.rs:150-206`, `crypto.rs:89-113` |
| `SetVaultMode`, `SwitchDies` | `handler.rs:331-386` |
| `Import`, `ImportStops`, `ImportDies` | `storage.rs:865-911`, `298-300` |
| `Export`, `ExportFails`, `ExportDies` | `storage.rs:358-401`, from the command line and from DecryptFile |
| `Begin`, `WriteLocal`, `FinishPlain`, `FinishUnparked`, `FinishVault`, `PlainWriteDies`, `VaultWriteDies` | the ends of a transfer, `handler.rs:1391-1404`, `1640-1938`, `2002-2079`, `storage.rs:709-808` |

A hash is the chunk itself; a container is its key, its chunks and how much of it was
written. `Whole` says by positions that chunks make up a file (chunk *i* begins where *i* - 1
full chunks end), so that it can be reasoned about; `MCStorage` checks it against the
concatenation of the chunks. All files are in one folder and the key is at the default path.

### GuiFeed

| TLA+ | Code |
|---|---|
| `events`, `commands` | `event_tx`, `cmd_tx`, `main.rs:197-198` |
| `phase`, `ring` | a tab's task (`ws.rs:24-167`) and its broadcast receiver |
| `view` | what the page (`gui/vitruvius_gui_2.0.html`) shows |
| `known`, `connected`, `pending`, `trusted`, `vaultMode` | `AppState`, the key store |
| `stale` | history: subjects whose last event the tab could not hear |
| `Discovered` ... `KeyEstablished`, `Execute` | the handlers, as far as they send events or read commands |
| `Forward` | the task `main.rs:211-220` |
| `Attach`, `SendTrusted`, `SendKnown`, `Deliver`, `Detach` | `main.rs:237-257`, `ws.rs:78-166`; the snapshot is two steps between which handlers run |
| `Answer`, `Command`, `Reload`, `Shown` | the page |

## 4. What the runs check

Bounds: `Budget` limits how often the environment and the users do each kind of thing
(the instances are named in the MC modules). In `Download` one kind is "stall": how often a
stall check repeats a request that is still open, which is what bounds the channels; a
repetition of what was lost costs nothing. Everything else is finite by itself. The runs set `CHECK_DEADLOCK FALSE`: once all is
settled and the budget spent, nothing is left to do.

The code's limits are 3 files and 4 chunks; the instances of `Download` have two files of 1
to 3 chunks, one slot and a window of 1 or 2, so that slots and windows are full, the queue is
not empty, a chunk beyond the window exists, and first and last chunk differ. More of each
repeats these situations; what holds of slots, of progress and of what is delivered is proved for any
number of peers, files, slots and chunks. A restart is in `dl_plain` only: to the schedule of
one peer it does what a drop does, and besides it may fall into the loop.

| Run | Instance | Shows |
|---|---|---|
| `dl_main` | files of 3 and 1 chunks, one slot, window 2, encrypted; loss, drop, repeated manifest, a first key in the middle | `WorkConserving`, `NoDuplicateTransfer`, `NoChunkForgotten`, `NoProgressLost`, `TransfersEnd`, `FilesArrive` |
| `dl_plain` | two files that share a chunk, two versions of one, plain; edits at both ends, also in the middle of a lookup, a stall that repeats open requests, I/O error, restart (0.6 million states) | `TypeOK`, `GotVerified`, `NoTornFile`, `DeliversFiles` |
| `tofu_consent` | two connections, impatient users; two closes, two restarts, loss, denial, revocation, lost store (0.2 million states) | `TypeOK`, `ConsentFirst`, `KeyAgreement`, `PairsUp` |
| `sync_turns` | two files, one of which one node lacks, a name for conflict copies, two folders at one node; two saves, a removal, three folders set, in turns (0.7 million states) | `SettledAgree`, `SettlesDown` |
| `sync_rapid` | one file that both have, a folder at each node; two saves at any moment; each sets his folder once, at rest (1.7 million states) | `AuthorKeeps` |
| `st_disk` | one file, versions of none and three bytes, chunks of two; two edits, two transfers, two starts, a switch, an import, an export, a death or failure, two seconds, a name that is refused (0.9 million states) | `KeysAgree`, `ListedIsServed`, `NoPartialExport`, `SavedKept` |
| `gui_feed` | one peer, one tab, a receiver of two events; each kind of event once or twice, two attaches, a reload (3 million states) | `TabFollows` |

The properties hold under conditions, and the conditions are part of what the runs say.
Each was found as a counterexample before it was excluded:

* `GotVerified` and `NoTornFile` except transfers that were `raced`: a local file in which a
  chunk was found was saved after it was hashed and before the chunk was read
  (`handler.rs:1985-2023`). Such a chunk is not verified, whatever `docs/index.html:116`
  says of "verified chunk by chunk", and it is written into the new file.
* That identical blocks are "transferred only once" (README.md:38) is no property here, since
  it does not hold: the request counter walks over chunks that were found locally beyond the
  first window and asks for them again (`handler.rs:1632`). The actions do so, too.
* `TransfersEnd` is checked where no file is saved anew during its transfer (its old hashes
  are kept and its chunks never verify), no write fails (`handler.rs:1717` keeps the file
  active with nothing missing), no encrypted transfer has its key replaced (blinded hashes and
  file ids belong to the old one), and no file is empty (`storage.rs:164` counts one
  chunk that nobody can serve).
* `FilesArrive` excludes what follows a lost message or a new key: a manifest request that is
  lost, or whose answer is sealed with a key that is not here yet, is not repeated.
* `NoChunkForgotten` needs that no file is empty (`storage.rs:164`, as above).
* `KeyAgreement` holds until the exchange is `muddled`. A second connection brings a second
  proposal, and the second secret overwrites the first (`handler.rs:640`); a user who
  answers the prompt of a connection that has been replaced has the same effect, and so has
  one who answers the prompt of an earlier connection after the proposal of the present one
  was lost. After any of these both sides may keep different keys for good, although an
  approval sends the public key "so initiator can derive the same key" (`handler.rs:112`).
* `PairsUp` excludes, besides, a revocation or a lost key store: whenever only the node
  with the higher id lacks the key, nobody proposes (`handler.rs:633`).
* `ConsentFirst` speaks of the node with the higher id, whose user is asked. The other one,
  after it revoked, proposes on the next connection and is answered by a peer that
  still has its key: it is keyed again without its user, whatever `tofu.rs:105` says.
* `SettledAgree` and `SettlesDown` are checked for users who take turns, each act once all
  marks and windows are closed. Without this the folders may stay different: the last of
  several saves within five seconds is not announced (`main.rs:293`), and the unmarked
  removal after a FileDeleted notice is announced back and may meet a new file.
* `AuthorKeeps` is for one user who edits, removes nothing, and holds no two files alike:
  a file written from local data carries no mark (`handler.rs:2064`) and is announced back.
  It excludes a conflict copy that meets one of the same name, or whose name is being
  fetched (`storage.rs:783` renames over what is there), and users who save under such names.
* `SavedKept` excludes files whose copy could not be made (`storage.rs:783` goes on after a
  failed rename), those of which two copies are made in one second, and one that is cut
  short while it is written over by the same content.
* `ListedIsServed` excludes the names that `unsafe_rel_path` refuses, which are listed
  (`storage.rs:582`), and of a container whose writing died the last chunk (`storage.rs:243`
  skips it by a seek), and a key made over another (`vault_key`). A file of no bytes is
  listed with no hash, so it says nothing of the one chunk that is asked of it.
* `KeysAgree`, second part, is for containers written while no key was made over another.
* `TabFollows` excludes the subjects of events that the tab's receiver lost, and those that
  the snapshot does not contain (`ws.rs:78-105`): connections, prompts and vault mode after
  a reload, and trusted peers when there are none left. `NeverMisses`, without this exception,
  is what `ws.rs:5-6` says, and is refuted below.

### Where the code departs from its documents

Each of these runs checks a sentence of the documents and ends in a counterexample:

| Run | Property | What the trace shows |
|---|---|---|
| `dl_streams` | `StreamCap` | a stall repeats requests that are still open (20 s against 120 s), and there are more streams than `handler.rs:22` and README.md:147 count |
| `gui_snapshot` | `NeverMisses` | a page attached to a node started with `--vault` shows vault mode as off (`ws.rs:5-6`); of connections, prompts and revoked peers TLC finds the same when asked for each alone |
| `tofu_manifest` | `ManifestFollows` | after a first exchange nobody asks for the manifest |
| `sync_concurrent` | `FileSurvives` | both users save the same file; each node removes its own on the notice of the other, and no copy is left |
| `vault_key` | `Readable` | a node started without `--vault` is switched to vault mode and writes a new key over the one of its containers |

## 5. Fairness

`Download`: the select loop polls its branches in random order and every handler
returns, so an event that is ready again and again is handled: strong fairness of the
handlers and of the stall check, as far as nothing it repeats is open (they are disabled whenever `start_queued_files` is
running), weak fairness of that loop and of a serving peer. Messages are lost
only as often as the budget says; nothing obliges users, the network or the disk to do
anything, and nobody has to reconnect.

`Tofu`: a message in flight is handled (weak fairness: its guard stays true until the
connection closes or it is lost), and a user who is asked and does not deny approves. This last is an
assumption about users, and includes that the prompt reaches a browser.

`FolderSync`: a watcher task with an event, a main loop with a notice, a message in flight
and a stall check that is due are each weakly fair: tasks run, the connection stays up
and delivers. Nothing obliges users, and no window has to close.

`Storage` and `GuiFeed` are checked for safety only. `TabFollows` is about what is shown
once all was delivered; that it is delivered is up to the socket.

## 6. Proofs

All proofs are for every value of the constants, with no bound on files, peers, chunks,
budgets or connections; TLC evaluates the assumptions on the constants in every run. One
theorem has a hypothesis besides, which its run meets: `NoEmptyVersion` for the chunks
under way. Where a property has exceptions (`torn`, `raced`, `muddled`, `upset`, `stale`),
they are history variables that the actions set, and the theorem is about every behaviour.
`Absent` needs no assumption of its own beyond `VersionAssumption`, which says that it is no version of a file.

**`TypeCorrect`** (`Spec => []TypeOK`). `TypeOK` is inductive: the channel is a bag
of well-formed messages (lemmas on what sending and taking do to it), and a transfer
stays one through `Advance`, `Put` and `Drop`.

**`GotVerifiedHolds`** and **`NoTornFileHolds`**. Neither is inductive alone. That a file
is written whole needs that its transfer's hashes are those of a version someone
saved, and the hashes come from the queue, and these from a manifest in flight, and
this from the peer's folder. The invariant `WholeInv` says of each of these places that
what it holds is a version of its file, and of a transfer that the chunks it has are those its
hashes name; with all of them there, the assembled file is the version itself. Local chunks are
not verified, so for these the argument is another: the invariant says of the lookup that
each place in its index holds the chunk it was found for, which every step of the loop and
the network leaves so, since nothing but the loop's own file is written meanwhile; a user's
save or removal breaks it, and marks the lookup as `raced`.

**`ConsentFirstHolds`**. What is in memory may come from the store, so consent is stated
for both; and an Accept gives a key only to a node with a pending secret, which the
node with the higher id never has (`ConsentInv`).

**`TypeOKHolds`** (module `TofuProofs`). That a key has two halves is not inductive by itself:
`TypeInv` adds that every message but an announcement carries a pair that was made, and that
no answer carries the pair whose secret waits for it (`PairsDiffer`).

**`DeliversFilesHolds`** (`Spec => DeliversFiles`, the refinement). Initial states map to
initial states, and each action maps to one of `FileDelivery` or to a stutter, given
`WholeInv` and `SlotInv`: the first makes an assembled file equal to the version that was under
way, unless it was doubtful. The
lemmas say of each action which abstract step it is: a served manifest publishes, a
manifest that is taken or dropped, a closed connection and a restart give up, the loop and
the last chunk deliver or break.

**`WorkConservingHolds`** and **`NoDuplicateTransferHolds`**. `SlotInv` (the type
invariant with both properties) is inductive. Every step has one of four effects on the
schedule: it leaves it alone or forgets it with the connection (`Quiet`), frees a slot and
starts the loop (`Frees`), takes the head of the queue (`Takes`), or appends new files and
starts the loop (`Queues`); four lemmas show that each effect keeps the invariant, and others
that each action has one of them.

**`NoProgressLostHolds`**. From `SlotInv`: a step either leaves a transfer alone, ends it, or
makes it one that gained (`StoredGains`, `LaterGains`). Only `Activate` puts a transfer where
one could have been, and `NoDuplicateTransfer` says that none was: the file was waiting.

**`KeysAgreeHolds`**. `KeyInv` adds that keys are numbered as they are made, that vault mode
has a key, and that where there is a container there was a key: so a write in vault mode
uses the key on disk.

**`SavedKeptHolds`**. The proof follows a saved version through each write: the places of two
files are apart (`PlacesApart`), so only a step on the file itself can disturb it, and this
step either moves it to a copy name, finds it equal, or counts among the exceptions.

**`NoChunkForgottenHolds`**. A request may be refused, or its answer dropped, for reasons
that lie in an earlier message, so `ChunkInv` follows them: while nothing was lost, edited or
re-keyed, the manifests in flight, the entries of the queue and the transfers all name what
the peer has, under the key both sides have and file ids both sides resolve
(`FaithfulChannels`, `FaithfulQueue`, `FaithfulActive`). Then every request is served, every
answer opens and verifies, and every chunk below `next` is there or coming (`AllComing`);
starting a file and a stall check move `next` only over chunks they ask for
(`SmallestBelow`).

**`KeyAgreementHolds`**. `AgreeInv` says that an exchange is in one place at a time: a
proposal on its way, a prompt, or an answer on its way, each for the secret that waits at the
lower node; and that the exchange is over once the lower node has a key. It holds while the
exchange is not `muddled`, which no step undoes.

**`AuthorKeepsHolds`**. A saved file is removed only by a notice, and a notice is sent for an
event that is not marked. `AuthorInv` says that one node is quiet, that whatever its watchers
have still to see is marked (`Marked`), so that it announces nothing (`NothingToTell`) and no
notice of its is in flight (`NotTold`); and that a file which arrives at the author meets
only what he saved (`ClearWay`) and renames it.

**`SettledAgreeHolds`**. Agreement is lost by every act of a user and comes back in steps of
both nodes, so `TurnsInv` says in which of four stages the two are. `Alone`: one has no
folder, and nothing but announcements and requests can be on its way. `Saved(n, x)`: the
folders agree but for the name `x`, and what tells the peer of it (an event of a watcher, a notice, a
message, the first three places of `Telling`) is all there is. `Unlinked(n, x)`: the
same for a removal, whose echoes are removals of the same name and do no harm. `Spreading`: each
name has one content (`Goal`), which every file, manifest and transfer holds (`Clear`, `TrueMail`,
`TrueTransfers`), and a node that lacks one has something coming that brings it (`Fed`).
What could break this is the echo of the node's own write, which makes the peer remove its
copy; `Told` says that a change is told only while both have the file, and by one of the
two, so that a copy is left, and the removal sets off the manifest that brings the other
back. That needs the five-second window: a change on its way is there once, and its sender
tells no other (`Posted`); and it needs that a removal that was not marked is never
announced (`Unheard`). When nothing is on its way, only `Spreading` with nothing to feed, or
a removal that has arrived, is possible.

**`NoPartialExportHolds`**. A container holds the chunks of a
file that somebody saved or that a death left (`Boxed`), so an export that is complete writes
that file and one cut short writes a temporary name. The lemmas on chunks (offsets, the last
chunk, reads of a buffer) show that the whole of the chunks of a file is that file, for every
length and every size of chunks.

**`ListedIsServedHolds`**. It joins two invariants. `KeyInv` says that the key in memory is the
one every container was written with, so what opened at the listing opens at the request,
whichever process wrote it; `WholeInv` of `StorageProofs` says what a death leaves of a
container, so a record that is listed has its block, but for the last.

**`TabFollowsHolds`**. A tab shows what it heard, so `FeedInv` looks at the whole pipe from
the handlers to the page: whenever it holds an event that says the opposite of the present
state, a later one in it sets this right (`LastWord`), and when it says nothing of a subject,
and the tab lost nothing of it, the page shows the present state already (`Hears`).

Only model-checked: all liveness (`TransfersEnd`, `FilesArrive`, `PairsUp`, `SettlesDown`),
which is beyond the prover, like induction over data. `FileSurvives` and the other claims of
section 4 that runs refute are of course not proved.

## 7. Not modelled

* The refresh of the other peers after a change in a mesh of three nodes, and file ids that
  differ from peer to peer: `FolderSync` with a third node is beyond what can be
  checked in reasonable time, and its two-node runs show the same steps.
* Connections in `FolderSync`: what users change while nodes are apart is announced by no
  notice; a reconnect brings what is missing (`FilesArrive`), never a newer version of what
  is there.
* A failed write in `FolderSync` leaves its mark in `writing_files`, and in vault mode the mark
  removed (`name.vit`) is not the one that was set: later changes of that file are not announced.
* `--key-path`: a shared key replaces the exchange. `--vault-key`: a second key path, of which
  the switch knows nothing. Imports into another directory.
* The cryptography of `crypto.rs`: pure functions of bytes, represented by what they promise.
* `identity.rs`, argument parsing, HTTP serving, listings, progress and logs: pure I/O.
* mDNS: discovery only leads to a connection, which the models open at any time, and to
  an entry in the tabs' list of peers (`GuiFeed`).

## 8. Running

    tlc -workers 2 -config dl_main.cfg MCDownload
    tlc -workers 2 -config tofu_consent.cfg MCTofu
    tlc -workers 2 -config sync_turns.cfg MCFolderSync
    tlc -workers 2 -config st_disk.cfg MCStorage
    tlc -workers 2 -config gui_feed.cfg MCGuiFeed
    tlapm DownloadProofs.tla

and likewise for the other configurations and `SlotProofs`, `ChunkProofs`, `DeliveryProofs`,
`TofuProofs`, `FolderSyncProofs`, `StorageProofs` and `GuiFeedProofs`.
