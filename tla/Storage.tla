------------------------------ MODULE Storage ------------------------------
(***************************************************************************)
(* The folder of one node on disk and the vault (storage.rs; sync/         *)
(* handler.rs, the end of a transfer, SetVaultMode and DecryptFile;        *)
(* main.rs, the vault key and the commands import and export).             *)
(*                                                                         *)
(* Files are sequences of bytes, read and sent in chunks.  A received file *)
(* is written in place, as a plain file or, in vault mode, as a container  *)
(* x.vit of encrypted chunks; an export writes a temporary file and        *)
(* renames it.  The process may die in the middle of a write, and          *)
(* everything it had in memory is gone.                                    *)
(*                                                                         *)
(* Abstractions.  The hash of a chunk is the chunk.  A container is the    *)
(* key it was written with, its chunks and how much of it was written, in  *)
(* units: the header, then for each chunk the record of its hash and       *)
(* length and the block.  All names are in the folder.  A transfer begins  *)
(* and ends here; what is between is in module Download.  There is one     *)
(* vault key file, at the default path.  Users do not save in the middle   *)
(* of a write, or between the lookup of local chunks and their reading (in *)
(* Download they do), and leave the key file and temporary names alone.    *)
(***************************************************************************)
EXTENDS Integers, Sequences, FiniteSets, SequencesExt

CONSTANTS
    ChunkSize,      \* CHUNK_SIZE
    Version,        \* what users and peers save as a whole
    File,           \* the names they save under
    Path,           \* the names there are in the folder
    Refused,        \* those that unsafe_rel_path refuses
    Second,         \* the clock, in seconds
    CopyName,       \* CopyName[x][s]: the conflict copy of x made in second s
    Temp,           \* Temp[p]: p with the extension "tmp"
    Dest,           \* where users export to
    None,           \* no key, no transfer
    Absent,         \* no file
    Torn,           \* a key file that was not written to its end
    Budget          \* Budget[k]: how many times k may happen

Kind == {"edit", "transfer", "start", "mode", "import", "export", "fault"}
Copies == {CopyName[x][s] : x \in File, s \in Second}
Name == File \cup Copies

ASSUME ChunkAssumption ==
    /\ ChunkSize \in Nat \ {0}
    /\ Version \subseteq Seq(Nat)
    /\ Absent \notin Version

\* A copy is named for its file and its second, and nobody uses such names.
ASSUME NameAssumption ==
    /\ File \cup Refused \subseteq Path
    /\ CopyName \in [File -> [Second -> Path \ File]]
    /\ \A x, y \in File, r, s \in Second : CopyName[x][r] = CopyName[y][s] => x = y
    /\ Dest \subseteq Path \ Copies
    /\ Temp \in [Path -> Path \ Name]

ASSUME ClockAssumption == Second \subseteq Nat /\ 0 \in Second
ASSUME KeyAssumption == None \notin Nat /\ Torn \notin Nat /\ None # Torn
ASSUME BudgetAssumption == Budget \in [Kind -> Nat]

VARIABLES
    disk,       \* disk[p]: the bytes under the name p, or Absent
    box,        \* box[p]: the container p.vit, or Absent
    keyFile,    \* the key in ~/.vitruvius/vault.key, None or Torn
    made,       \* how many keys were made; a key is its number
    up,         \* the node runs
    vaultMode,  \* AppState.vault_mode
    vaultKey,   \* AppState.vault_key
    incoming,   \* incoming[x]: the version of x that is being transferred
    now,        \* the clock
    spent,      \* how often each kind of thing happened
    saved,      \* history: what users saved under x and left there
    torn,       \* history: what a crash left of files, as far as it counts
    upset,      \* history: files of which a copy could not be kept
    replaced    \* history: a key was made where there was one

keys == <<keyFile, made>>
memory == <<up, vaultMode, vaultKey, incoming>>
history == <<saved, torn, upset, replaced>>
vars == <<disk, box, keys, memory, now, spent, history>>

Spend(kinds) ==
    /\ \A k \in kinds : spent[k] < Budget[k]
    /\ spent' = [k \in Kind |-> IF k \in kinds THEN spent[k] + 1 ELSE spent[k]]

-----------------------------------------------------------------------------
(* Chunks of a file.                                                        *)

\* The bytes a read of one buffer returns at an offset.
ReadAt(bytes, offset) ==
    SubSeq(bytes, offset + 1,
           IF offset + ChunkSize < Len(bytes) THEN offset + ChunkSize ELSE Len(bytes))

TotalChunks(bytes) ==
    IF bytes = <<>> THEN 1 ELSE (Len(bytes) + ChunkSize - 1) \div ChunkSize

\* The reads one after the other, up to the first that returns nothing: a file
\* of no bytes counts one chunk and has no hash.
ChunkHashes(bytes) ==
    IF bytes = <<>> THEN <<>>
    ELSE [i \in 1..TotalChunks(bytes) |-> ReadAt(bytes, (i - 1) * ChunkSize)]

\* The chunks a file is imported or sent in: at least one.
Chunks(bytes) ==
    [i \in 1..TotalChunks(bytes) |-> ReadAt(bytes, (i - 1) * ChunkSize)]

\* The bytes of the chunks one after the other.  All but the last are full.
Whole(chunks) ==
    IF chunks = <<>> THEN <<>>
    ELSE [k \in 1..(ChunkSize * (Len(chunks) - 1) + Len(Last(chunks))) |->
            chunks[((k - 1) \div ChunkSize) + 1][((k - 1) % ChunkSize) + 1]]

-----------------------------------------------------------------------------
(* Containers.                                                              *)

Units(chunks) == 1 + 2 * Len(chunks)

Container(key, chunks) == [key |-> key, chunks |-> chunks, written |-> Units(chunks)]

Truncated(c, n) == [c EXCEPT !.written = n]

\* Mutant: the walk ends where the container ends.
ListableHeader(c) == c.written >= 1

\* The walk over the records reaches the last one; the block after it is
\* skipped by a seek, which may go past the end of the file.
Listable(c) == c.written >= 1 /\ c.written >= 2 * Len(c.chunks)

\* The chunk at an index opens with the key.
Opens(c, index, key) ==
    /\ index < Len(c.chunks)
    /\ c.written >= 2 * index + 3
    /\ c.key = key

\* What the walks over the folder find: the names are not looked at.
ListedPlain == {p \in Path : disk[p] # Absent}
ListedVault == {p \in Path : box[p] # Absent /\ Listable(box[p])}

\* What the manifest lists in the present mode: names and hashes.
Listed == IF vaultMode THEN ListedVault ELSE ListedPlain
Listing(p) == IF vaultMode THEN box[p].chunks ELSE ChunkHashes(disk[p])

\* read_local_chunk_plain: the chunk of p at an index is read in the present
\* mode, with the key in memory, and served, unless the name is refused.
Serves(p, index, chunk) ==
    /\ p \notin Refused
    /\ IF vaultMode
       THEN /\ Opens(box[p], index, vaultKey)
            /\ chunk = box[p].chunks[index + 1]
       ELSE /\ chunk = ReadAt(disk[p], index * ChunkSize)
            /\ chunk # <<>>

\* The chunks that the files in S hold, as hashes.  A chunk that a refused name
\* holds, too, may be looked for there and not be read.
ChunksOf(S) == UNION {Range(ChunkHashes(disk[p])) : p \in S}

-----------------------------------------------------------------------------
(* The vault key.                                                           *)

\* Mutant: the key file is made anew each time.
NeedsKeyAlways == TRUE

\* A start with --vault, an import or an export makes the key if there is none.
NeedsKey == keyFile = None

\* The key it works with, after it was made if need be.
LoadedKey == IF NeedsKey THEN made + 1 ELSE keyFile

LoadKey ==
    /\ LoadedKey # Torn
    /\ keyFile' = LoadedKey
    /\ made' = IF NeedsKey THEN made + 1 ELSE made

-----------------------------------------------------------------------------
Init ==
    /\ disk = [p \in Path |-> Absent]
    /\ box = [p \in Path |-> Absent]
    /\ keyFile = None
    /\ made = 0
    /\ up = FALSE
    /\ vaultMode = FALSE
    /\ vaultKey = None
    /\ incoming = [x \in File |-> None]
    /\ now = 0
    /\ spent = [k \in Kind |-> 0]
    /\ saved = [x \in File |-> {}]
    /\ torn = {}
    /\ upset = {}
    /\ replaced = FALSE

\* Everything in memory is gone.
Down ==
    /\ up' = FALSE
    /\ vaultMode' = FALSE
    /\ vaultKey' = None
    /\ incoming' = [x \in File |-> None]

-----------------------------------------------------------------------------
(* Users, the clock, starts and stops.                                      *)

Save(x, v) ==
    /\ Spend({"edit"})
    /\ disk[x] # v
    /\ disk' = [disk EXCEPT ![x] = v]
    /\ saved' = [saved EXCEPT ![x] = (@ \ {disk[x]}) \cup {v}]
    /\ UNCHANGED <<box, keys, memory, now, torn, upset, replaced>>

\* A user, or a notice of the peer, removes x.
Unlink(x) ==
    /\ Spend({"edit"})
    /\ disk[x] # Absent
    /\ disk' = [disk EXCEPT ![x] = Absent]
    /\ saved' = [saved EXCEPT ![x] = @ \ {disk[x]}]
    /\ UNCHANGED <<box, keys, memory, now, torn, upset, replaced>>

Tick ==
    /\ now + 1 \in Second
    /\ now' = now + 1
    /\ UNCHANGED <<disk, box, keys, memory, spent, history>>

\* The node is started without --vault: no key is loaded.
StartPlain ==
    /\ ~ up
    /\ Spend({"start"})
    /\ up' = TRUE
    /\ UNCHANGED <<disk, box, keys, vaultMode, vaultKey, incoming, now, history>>

StartVault ==
    /\ ~ up
    /\ Spend({"start"})
    /\ LoadKey
    /\ up' = TRUE
    /\ vaultMode' = TRUE
    /\ vaultKey' = LoadedKey
    /\ UNCHANGED <<disk, box, incoming, now, history>>

Stop ==
    /\ up
    /\ Down
    /\ UNCHANGED <<disk, box, keys, now, spent, history>>

-----------------------------------------------------------------------------
(* Vault mode, import and export.                                           *)

\* The switch in the GUI makes a key when none is in memory.
MakesKey(enabled) == enabled /\ vaultKey = None

\* Turning vault mode off keeps the key in memory.
SetVaultMode(enabled) ==
    /\ up
    /\ Spend({"mode"})
    /\ vaultMode # enabled
    /\ vaultMode' = enabled
    /\ IF MakesKey(enabled)
       THEN /\ made' = made + 1
            /\ keyFile' = made + 1
            /\ vaultKey' = made + 1
            /\ replaced' = (replaced \/ keyFile # None)
       ELSE UNCHANGED <<keys, vaultKey, replaced>>
    /\ UNCHANGED <<disk, box, up, incoming, now, saved, torn, upset>>

\* A start or a command dies while it writes the key.
KeyWriteDies ==
    /\ Spend({"fault"})
    /\ NeedsKey
    /\ keyFile' = Torn
    /\ UNCHANGED <<disk, box, made, memory, now, history>>

\* The node dies while the switch writes the key.
SwitchDies ==
    /\ up
    /\ Spend({"fault"})
    /\ ~ vaultMode
    /\ MakesKey(TRUE)
    /\ keyFile' = Torn
    /\ replaced' = (replaced \/ keyFile # None)
    /\ Down
    /\ UNCHANGED <<disk, box, made, now, saved, torn, upset>>

Imported(S) ==
    [p \in Path |-> IF p \in S THEN Container(LoadedKey, Chunks(disk[p])) ELSE box[p]]

Temporary == {Temp[p] : p \in Path}

\* A temporary file an export left behind is imported as a file.
LeftOver(S) == {disk[p] : p \in S \cap Temporary}

\* The command import: every plain file of the folder is written to a container
\* beside it.
Import ==
    /\ Spend({"import"})
    /\ ListedPlain \cap Refused = {}
    /\ LoadKey
    /\ box' = Imported(ListedPlain)
    /\ torn' = torn \cup LeftOver(ListedPlain)
    /\ UNCHANGED <<disk, memory, now, saved, upset, replaced>>

\* It ends with an error at a name that is refused, after those in S.
ImportStops(S) ==
    /\ Spend({"import"})
    /\ ListedPlain \cap Refused # {}
    /\ LoadKey
    /\ box' = Imported(S)
    /\ torn' = torn \cup LeftOver(S)
    /\ UNCHANGED <<disk, memory, now, saved, upset, replaced>>

\* It dies in the container of p, after those in S.
ImportDies(p, S) ==
    /\ Spend({"import", "fault"})
    /\ LoadKey
    /\ \E n \in 0..(Units(Chunks(disk[p])) - 1) :
          box' = [Imported(S) EXCEPT ![p] = Truncated(Imported({p})[p], n)]
    /\ torn' = torn \cup LeftOver(S \cup {p})
    /\ UNCHANGED <<disk, memory, now, saved, upset, replaced>>

\* Mutant: the export writes to its destination.
ExportFileDirect(dest) == dest

\* The file an export writes to, before it takes the place of dest.
ExportFile(dest) == Temp[dest]

\* DecryptFile uses the key in memory, the command export the one on disk.
ExportKey(gui) ==
    IF gui THEN up /\ vaultKey # None /\ UNCHANGED keys ELSE LoadKey

KeyUsed(gui) == IF gui THEN vaultKey ELSE LoadedKey

\* All of container p opens: dest gets its bytes.
Export(p, dest, gui) ==
    /\ Spend({"export"})
    /\ box[p] # Absent
    /\ ExportKey(gui)
    /\ \A i \in 1..Len(box[p].chunks) : Opens(box[p], i - 1, KeyUsed(gui))
    /\ disk' = [disk EXCEPT ![ExportFile(dest)] = Absent,
                            ![dest] = Whole(box[p].chunks)]
    /\ saved' = [x \in File |-> IF x = dest THEN saved[x] \ {disk[x]} ELSE saved[x]]
    /\ UNCHANGED <<box, memory, now, torn, upset, replaced>>

\* Some of it does not: what was written is removed.
ExportFails(p, dest, gui) ==
    /\ Spend({"export"})
    /\ box[p] # Absent
    /\ ExportKey(gui)
    /\ \E i \in 1..Len(box[p].chunks) : ~ Opens(box[p], i - 1, KeyUsed(gui))
    /\ disk' = IF box[p].written < 1 THEN disk
               ELSE [disk EXCEPT ![ExportFile(dest)] = Absent]
    /\ UNCHANGED <<box, memory, now, history>>

\* The process dies after some of the chunks.
ExportDies(p, dest, gui) ==
    /\ Spend({"export", "fault"})
    /\ box[p] # Absent
    /\ ExportKey(gui)
    /\ \E n \in 0..(Len(box[p].chunks) - 1) :
          /\ \A i \in 1..n : Opens(box[p], i - 1, KeyUsed(gui))
          /\ disk' = [disk EXCEPT ![ExportFile(dest)] = Whole(SubSeq(box[p].chunks, 1, n))]
    /\ IF gui THEN Down ELSE UNCHANGED memory
    /\ UNCHANGED <<box, now, history>>

-----------------------------------------------------------------------------
(* Transfers.                                                               *)

\* A manifest brings x: it is wanted when it is not there; only the encrypted
\* protocol looks for a container.
Wanted(x, encrypted) ==
    /\ disk[x] = Absent
    /\ encrypted /\ vaultMode => box[x] = Absent
    /\ incoming[x] = None

Local(v, chunks) == v # <<>> /\ Range(ChunkHashes(v)) \subseteq chunks

Begin(x, v, encrypted) ==
    /\ up
    /\ Spend({"transfer"})
    /\ Wanted(x, encrypted)
    /\ encrypted \/ ~ Local(v, ChunksOf(ListedPlain \ Refused)
                                \ ChunksOf(ListedPlain \cap Refused))
    /\ incoming' = [incoming EXCEPT ![x] = v]
    /\ UNCHANGED <<disk, box, keys, up, vaultMode, vaultKey, now, history>>

\* A plain transfer of which all chunks are in the folder is written at once,
\* in vault mode too as a plain file.
WriteLocal(x, v) ==
    /\ up
    /\ Spend({"transfer"})
    /\ Wanted(x, FALSE)
    /\ Local(v, ChunksOf(ListedPlain \ Refused))
    /\ disk' = [disk EXCEPT ![x] = v]
    /\ UNCHANGED <<box, keys, memory, now, history>>

\* Mutant: files of one length are taken to be the same.
DiffersInLength(x, v) == disk[x] # Absent /\ Len(disk[x]) # Len(v)

\* Somebody put another x there since the transfer began.
Differs(x, v) == disk[x] # Absent /\ disk[x] # v

Copy(x) == CopyName[x][now]

\* The folder after the x that is there became a conflict copy.
Parked(x, v) == IF Differs(x, v) THEN [disk EXCEPT ![Copy(x)] = disk[x]] ELSE disk

\* The copy takes the place of another one, made in the same second.
Clashes(x, v) == Differs(x, v) /\ disk[Copy(x)] \notin {Absent, disk[x]}

Done(x) == incoming' = [incoming EXCEPT ![x] = None]

FinishPlain(x) ==
    /\ incoming[x] # None
    /\ ~ vaultMode
    /\ disk' = [Parked(x, incoming[x]) EXCEPT ![x] = incoming[x]]
    /\ upset' = IF Clashes(x, incoming[x]) THEN upset \cup {x} ELSE upset
    /\ Done(x)
    /\ UNCHANGED <<box, keys, up, vaultMode, vaultKey, now, spent, saved, torn, replaced>>

\* The conflict copy cannot be made, and x is written nevertheless.
FinishUnparked(x) ==
    /\ incoming[x] # None
    /\ ~ vaultMode
    /\ Differs(x, incoming[x])
    /\ Spend({"fault"})
    /\ disk' = [disk EXCEPT ![x] = incoming[x]]
    /\ upset' = upset \cup {x}
    /\ Done(x)
    /\ UNCHANGED <<box, keys, up, vaultMode, vaultKey, now, saved, torn, replaced>>

\* In vault mode, as it is now, the file becomes a container; one that is there
\* is written over.  A name that is refused stays as it is, the slot taken.
FinishVault(x) ==
    /\ incoming[x] # None
    /\ vaultMode
    /\ x \notin Refused
    /\ box' = [box EXCEPT ![x] = Container(vaultKey, Chunks(incoming[x]))]
    /\ Done(x)
    /\ UNCHANGED <<disk, keys, up, vaultMode, vaultKey, now, spent, history>>

\* The process dies after some chunks of the plain file.  No copy was made of a
\* file that is the same already, and it is cut short, too.
PlainWriteDies(x) ==
    /\ incoming[x] # None
    /\ ~ vaultMode
    /\ Spend({"fault"})
    /\ \E n \in 0..(Len(Chunks(incoming[x])) - 1) :
          LET part == Whole(SubSeq(Chunks(incoming[x]), 1, n)) IN
          /\ disk' = [Parked(x, incoming[x]) EXCEPT ![x] = part]
          /\ torn' = torn \cup {part}
    /\ upset' = IF Clashes(x, incoming[x]) \/ disk[x] = incoming[x] THEN upset \cup {x} ELSE upset
    /\ Down
    /\ UNCHANGED <<box, keys, now, saved, replaced>>

\* The process dies in the middle of the container.
VaultWriteDies(x) ==
    /\ incoming[x] # None
    /\ vaultMode
    /\ x \notin Refused
    /\ Spend({"fault"})
    /\ \E n \in 0..(Units(Chunks(incoming[x])) - 1) :
          box' = [box EXCEPT ![x] = Truncated(Container(vaultKey, Chunks(incoming[x])), n)]
    /\ Down
    /\ UNCHANGED <<disk, keys, now, history>>

-----------------------------------------------------------------------------
User ==
    \/ \E x \in File : Unlink(x) \/ \E v \in Version : Save(x, v)
    \/ Tick

Lifecycle ==
    \/ StartPlain
    \/ StartVault
    \/ Stop
    \/ KeyWriteDies
    \/ SwitchDies
    \/ \E enabled \in BOOLEAN : SetVaultMode(enabled)

Vault ==
    \/ Import
    \/ \E S \in SUBSET (ListedPlain \ Refused) :
          \/ ImportStops(S)
          \/ \E p \in ListedPlain \ (Refused \cup S) : ImportDies(p, S)
    \/ \E p \in Path, dest \in Dest, gui \in BOOLEAN :
          \/ Export(p, dest, gui)
          \/ ExportFails(p, dest, gui)
          \/ ExportDies(p, dest, gui)

Transfer(x) ==
    \/ \E v \in Version : WriteLocal(x, v) \/ \E e \in BOOLEAN : Begin(x, v, e)
    \/ FinishPlain(x)
    \/ FinishUnparked(x)
    \/ FinishVault(x)
    \/ PlainWriteDies(x)
    \/ VaultWriteDies(x)

Next == User \/ Lifecycle \/ Vault \/ \E x \in File : Transfer(x)

Spec == Init /\ [][Next]_vars

-----------------------------------------------------------------------------
(* Properties.                                                              *)

\* The key a running node encrypts with is the one it will find on disk when
\* it is started again, and as long as no key was made over another one that
\* key opens every container, through starts with and without --vault, imports
\* beside a running node, and deaths while the key is written.
KeysAgree ==
    /\ vaultKey # None => keyFile = vaultKey
    /\ ~ replaced => \A p \in Path : box[p] # Absent => box[p].key = keyFile

\* What a running node lists it can serve, in the mode and with the key it has
\* now, with the hash it was listed with: whatever was imported beside it and
\* whenever starts, switches, transfers and imports died; except under a name
\* that is refused, with a key made over another one, and the last chunk of a
\* container that was cut short.
ListedIsServed ==
    up /\ ~ replaced =>
        \A p \in Listed \ Refused : \A i \in DOMAIN Listing(p) :
            ~ vaultMode \/ i < Len(Listing(p)) => Serves(p, i - 1, Listing(p)[i])

\* No name but a temporary one holds a part of a file, unless a received file
\* was being written there when the process died: an export that fails or dies
\* leaves its destination alone.
NoPartialExport ==
    \A p \in Path \ Temporary : disk[p] \in Version \cup torn \cup {Absent}

\* What a user saved under a name and left there is in the folder, under that
\* name or as a conflict copy, whatever transfers write there and whenever
\* they die; unless the copy cannot be made, two of one file are made in the
\* same second, or the process dies while it writes what is there already.
SavedKept ==
    \A x \in File \ upset : \A v \in saved[x] :
        \E p \in {x} \cup {CopyName[x][s] : s \in Second} : disk[p] = v

\* Every container can be opened with the key on disk.  (sync/handler.rs:335,
\* "Auto-generate vault key if it doesn't exist".)
Readable ==
    \A p \in Path : box[p] # Absent => box[p].key = keyFile

=============================================================================
