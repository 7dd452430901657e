--------------------------- MODULE StorageProofs ----------------------------
(***************************************************************************)
(* Proofs about the folder and the vault key of module Storage, for every  *)
(* set of files, names, versions and destinations, every size of a chunk   *)
(* and every bound.                                                        *)
(***************************************************************************)
EXTENDS Storage, SequenceTheorems, TLAPS

-----------------------------------------------------------------------------
(* The vault key.                                                           *)

\* The invariant behind KeysAgree: keys are numbered as they are made, vault
\* mode has a key, and where a container is there was a key on disk.
KeyInv ==
    /\ made \in Nat
    /\ keyFile \in Nat \cup {None, Torn}
    /\ vaultKey \in Nat \cup {None}
    /\ vaultMode => vaultKey # None
    /\ box = [p \in Path |-> box[p]]
    /\ vaultKey # None => keyFile = vaultKey
    /\ ~ replaced => \A p \in Path : box[p] # Absent => box[p].key = keyFile /\ keyFile # None

LEMMA KeyInit == Init => KeyInv
BY DEF Init, KeyInv

\* The key that a start, an import or an export works with.
LEMMA LoadedKeyType ==
  ASSUME KeyInv, LoadKey
  PROVE  /\ made' \in Nat
         /\ LoadedKey \in Nat /\ keyFile' = LoadedKey
         /\ keyFile # None => LoadedKey = keyFile
         /\ vaultKey # None => LoadedKey = vaultKey
BY KeyAssumption DEF KeyInv, LoadKey, LoadedKey, NeedsKey

\* A container keeps its key when it is cut short.
LEMMA ContainerKey ==
  ASSUME NEW key, NEW chunks, NEW n
  PROVE  Container(key, chunks).key = key /\ Truncated(Container(key, chunks), n).key = key
BY DEF Container, Truncated

LEMMA KeyQuiet ==
  ASSUME KeyInv,
         \/ UNCHANGED vars \/ Tick \/ StartPlain \/ Stop
         \/ \E x \in File : \/ Unlink(x) \/ FinishPlain(x) \/ FinishUnparked(x)
                            \/ PlainWriteDies(x)
                            \/ \E v \in Version : Save(x, v) \/ WriteLocal(x, v)
                                  \/ \E e \in BOOLEAN : Begin(x, v, e)
  PROVE  KeyInv'
<1> USE DEF KeyInv, vars, keys, memory, history
<1>1. CASE UNCHANGED vars \/ Tick \/ StartPlain
  BY <1>1 DEF Tick, StartPlain
<1>2. CASE Stop
  BY <1>2 DEF Stop, Down
<1>3. ASSUME NEW x \in File,
             \/ Unlink(x) \/ FinishPlain(x) \/ FinishUnparked(x)
             \/ \E v \in Version : Save(x, v) \/ WriteLocal(x, v)
                   \/ \E e \in BOOLEAN : Begin(x, v, e)
      PROVE  KeyInv'
  <2>1. UNCHANGED <<box, keyFile, made, vaultMode, vaultKey, replaced>>
    BY <1>3 DEF Unlink, FinishPlain, FinishUnparked, Save, WriteLocal, Begin
  <2> QED
    BY <2>1
<1>4. ASSUME NEW x \in File, PlainWriteDies(x)
      PROVE  KeyInv'
  <2>1. /\ UNCHANGED <<box, keyFile, made, replaced>>
        /\ vaultMode' = FALSE /\ vaultKey' = None
    BY <1>4 DEF PlainWriteDies, Down
  <2> QED
    BY <2>1
<1> QED
  BY <1>1, <1>2, <1>3, <1>4

\* Starts, the switch, and deaths while the key is written.
LEMMA KeyLifecycle ==
  ASSUME KeyInv,
         StartVault \/ KeyWriteDies \/ SwitchDies \/ \E on \in BOOLEAN : SetVaultMode(on)
  PROVE  KeyInv'
<1> USE DEF vars, keys, memory, history
<1>1. CASE StartVault
  <2>1. /\ LoadKey /\ vaultKey' = LoadedKey /\ UNCHANGED <<box, replaced>>
    BY <1>1 DEF StartVault
  <2> QED
    BY <2>1, LoadedKeyType, KeyAssumption DEF KeyInv
<1>2. CASE KeyWriteDies
  BY <1>2, KeyAssumption DEF KeyWriteDies, NeedsKey, KeyInv
<1>3. CASE SwitchDies
  BY <1>3, KeyAssumption DEF SwitchDies, MakesKey, Down, KeyInv
<1>4. ASSUME NEW on \in BOOLEAN, SetVaultMode(on)
      PROVE  KeyInv'
  <2>1. CASE MakesKey(on)
    <3>1. /\ made' = made + 1 /\ keyFile' = made + 1 /\ vaultKey' = made + 1
          /\ replaced' = (replaced \/ keyFile # None)
          /\ UNCHANGED box
      BY <1>4, <2>1 DEF SetVaultMode
    <3>2. made + 1 \in Nat /\ made + 1 # None
      BY KeyAssumption DEF KeyInv
    <3>3. ~ replaced' => ~ replaced /\ keyFile = None
      BY <3>1
    <3>4. ~ replaced' => \A p \in Path : box[p] = Absent
      BY <3>3 DEF KeyInv
    <3> QED
      BY <3>1, <3>2, <3>4 DEF KeyInv
  <2>2. CASE ~ MakesKey(on)
    <3>1. UNCHANGED <<keyFile, made, vaultKey, box, replaced>> /\ vaultMode' = on
      BY <1>4, <2>2 DEF SetVaultMode
    <3>2. on => vaultKey # None
      BY <2>2 DEF MakesKey
    <3> QED
      BY <3>1, <3>2 DEF KeyInv
  <2> QED
    BY <2>1, <2>2
<1> QED
  BY <1>1, <1>2, <1>3, <1>4

LEMMA KeyImport ==
  ASSUME KeyInv,
         Import \/ \E S \in SUBSET (ListedPlain \ Refused) :
                     \/ ImportStops(S)
                     \/ \E p \in ListedPlain \ (Refused \cup S) : ImportDies(p, S)
  PROVE  KeyInv'
<1> USE DEF vars, keys, memory, history
<1>1. LoadKey /\ UNCHANGED <<vaultMode, vaultKey, replaced>>
  BY DEF Import, ImportStops, ImportDies
<1>2. \A S : \A p \in Path : Imported(S)[p] = box[p] \/ Imported(S)[p].key = LoadedKey
  BY ContainerKey DEF Imported
<1>3. /\ box' = [p \in Path |-> box'[p]]
      /\ \A p \in Path : box'[p] = box[p] \/ box'[p].key = LoadedKey
  <2>1. CASE Import
    BY <1>2, <2>1 DEF Import, Imported
  <2>3. ASSUME NEW S, ImportStops(S)
        PROVE  /\ box' = [p \in Path |-> box'[p]]
               /\ \A p \in Path : box'[p] = box[p] \/ box'[p].key = LoadedKey
    BY <1>2, <2>3 DEF ImportStops, Imported
  <2>2. ASSUME NEW q \in ListedPlain, NEW S, ImportDies(q, S)
        PROVE  /\ box' = [p \in Path |-> box'[p]]
               /\ \A p \in Path : box'[p] = box[p] \/ box'[p].key = LoadedKey
    <3>1. q \in Path
      BY DEF ListedPlain
    <3>2. PICK n : box' = [Imported(S) EXCEPT ![q] = Truncated(Imported({q})[q], n)]
      BY <2>2 DEF ImportDies
    <3>3. Imported({q})[q] = Container(LoadedKey, Chunks(disk[q]))
      BY <3>1 DEF Imported
    <3>4. Truncated(Imported({q})[q], n).key = LoadedKey
      BY <3>3, ContainerKey
    <3>5. Imported(S) = [p \in Path |-> Imported(S)[p]]
      BY DEF Imported
    <3> HIDE DEF Imported
    <3> QED
      BY <1>2, <3>1, <3>2, <3>4, <3>5
  <2> QED
    BY <2>1, <2>2, <2>3
<1> QED
  BY <1>1, <1>3, LoadedKeyType, KeyAssumption DEF KeyInv

LEMMA KeyExport ==
  ASSUME KeyInv, NEW p \in Path, NEW dest \in Dest, NEW gui \in BOOLEAN,
         Export(p, dest, gui) \/ ExportFails(p, dest, gui) \/ ExportDies(p, dest, gui)
  PROVE  KeyInv'
<1> USE DEF vars, keys, memory, history
<1>1. /\ UNCHANGED <<box, replaced>>
      /\ \/ UNCHANGED <<vaultMode, vaultKey>>
         \/ vaultMode' = FALSE /\ vaultKey' = None
      /\ LoadKey \/ UNCHANGED keys
  BY DEF Export, ExportFails, ExportDies, ExportKey, Down
<1>2. CASE LoadKey
  BY <1>1, <1>2, LoadedKeyType, KeyAssumption DEF KeyInv
<1>3. CASE UNCHANGED keys
  BY <1>1, <1>3 DEF KeyInv
<1> QED
  BY <1>1, <1>2, <1>3

LEMMA KeyVaultWrite ==
  ASSUME KeyInv, NEW x \in File, FinishVault(x) \/ VaultWriteDies(x)
  PROVE  KeyInv'
<1> USE DEF vars, keys, memory, history
<1>1. vaultKey # None /\ keyFile = vaultKey /\ x \in Path
  BY NameAssumption DEF FinishVault, VaultWriteDies, KeyInv
<1>2. PICK c : box' = [box EXCEPT ![x] = c] /\ c.key = vaultKey
  BY ContainerKey DEF FinishVault, VaultWriteDies
<1>3. /\ UNCHANGED <<keyFile, made, replaced>>
      /\ \/ UNCHANGED <<vaultMode, vaultKey>>
         \/ vaultMode' = FALSE /\ vaultKey' = None
  BY DEF FinishVault, VaultWriteDies, Down
<1>4. \A p \in Path : box'[p] = box[p] \/ box'[p].key = keyFile
  BY <1>1, <1>2 DEF KeyInv
<1>5. box' = [p \in Path |-> box'[p]]
  BY <1>2 DEF KeyInv
<1> QED
  BY <1>1, <1>3, <1>4, <1>5 DEF KeyInv

LEMMA KeyNext == KeyInv /\ [Next]_vars => KeyInv'
<1> SUFFICES ASSUME KeyInv, [Next]_vars PROVE KeyInv'
  OBVIOUS
<1>1. CASE UNCHANGED vars \/ User
  BY <1>1, KeyQuiet DEF User
<1>2. CASE Lifecycle
  BY <1>2, KeyQuiet, KeyLifecycle DEF Lifecycle
<1>3. CASE Vault
  BY <1>3, KeyImport, KeyExport DEF Vault
<1>4. ASSUME NEW x \in File, Transfer(x)
      PROVE  KeyInv'
  BY <1>4, KeyQuiet, KeyVaultWrite DEF Transfer
<1> QED
  BY <1>1, <1>2, <1>3, <1>4 DEF Next

\* A running node encrypts with the key on disk, and unless a key was made over
\* another one that key opens every container: the invariant KeysAgree.
THEOREM KeysAgreeHolds == Spec => []KeysAgree
<1>1. KeyInv => KeysAgree
  BY DEF KeyInv, KeysAgree
<1> QED
  BY KeyInit, KeyNext, <1>1, PTL DEF Spec

-----------------------------------------------------------------------------
(* What users saved.                                                        *)

\* The names under which x and its conflict copies are.
Places(x) == {x} \cup {CopyName[x][s] : s \in Second}

KeptInv ==
    /\ disk = [p \in Path |-> disk[p]]
    /\ saved = [x \in File |-> saved[x]]
    /\ \A x \in File : saved[x] \subseteq Version
    /\ now \in Second
    /\ SavedKept

\* Names of files, of copies, of exports and of temporary files do not mix.
LEMMA PlacesApart ==
  ASSUME NEW x \in File
  PROVE  /\ Places(x) \subseteq Path
         /\ \A y \in File : y # x => Places(x) \cap Places(y) = {}
         /\ \A s \in Second : CopyName[x][s] \notin File
         /\ \A dest \in Dest : dest \in Places(x) => dest = x
         /\ \A p \in Path : Temp[p] \notin Places(x)
<1>1. \A y \in File, r \in Second : CopyName[y][r] \in Path \ File
  BY NameAssumption
<1>2. \A y \in File, r, s \in Second : y # x => CopyName[x][s] # CopyName[y][r]
  BY NameAssumption
<1>3. \A s \in Second : CopyName[x][s] \in Copies /\ CopyName[x][s] \in Name
  BY DEF Copies, Name
<1>4. \A p \in Path : Temp[p] \notin Name
  BY NameAssumption
<1>5. \A dest \in Dest, s \in Second : dest # CopyName[x][s]
  BY <1>3, NameAssumption
<1>6. x \in Path /\ x \in Name
  BY NameAssumption DEF Name
<1> QED
  BY <1>1, <1>2, <1>3, <1>4, <1>5, <1>6 DEF Places

LEMMA Kept ==
  ASSUME KeptInv, NEW x \in File \ upset, NEW v \in saved[x]
  PROVE  v # Absent /\ \E p \in Places(x) : disk[p] = v
BY ChunkAssumption DEF KeptInv, SavedKept, Places

\* It is enough that a step keeps what was in the places of each file.
LEMMA KeptStep ==
  ASSUME KeptInv, disk' = [p \in Path |-> disk'[p]], saved' = [x \in File |-> saved'[x]],
         \A x \in File : saved'[x] \subseteq Version, now' \in Second,
         \A x \in File \ upset' : \A v \in saved'[x] : \E p \in Places(x) : disk'[p] = v
  PROVE  KeptInv'
BY DEF KeptInv, SavedKept, Places

LEMMA KeptInit == Init => KeptInv
BY ClockAssumption DEF Init, KeptInv, SavedKept

LEMMA KeptQuiet ==
  ASSUME KeptInv,
         \/ UNCHANGED vars \/ Tick \/ Lifecycle \/ Import
         \/ \E S \in SUBSET (ListedPlain \ Refused) :
               \/ ImportStops(S)
               \/ \E p \in ListedPlain \ (Refused \cup S) : ImportDies(p, S)
         \/ \E x \in File : \/ FinishVault(x) \/ VaultWriteDies(x)
                            \/ \E v \in Version, e \in BOOLEAN : Begin(x, v, e)
  PROVE  KeptInv'
<1>1. UNCHANGED <<disk, saved, upset>> /\ now' \in Second
  <2>1. UNCHANGED <<disk, saved, upset>>
    BY DEF vars, history, Tick, Lifecycle, StartPlain, StartVault, Stop, KeyWriteDies,
       SwitchDies, SetVaultMode, Import, ImportStops, ImportDies, FinishVault, VaultWriteDies, Begin
  <2>2. now' \in {now} \/ Tick
    BY DEF vars, Lifecycle, StartPlain, StartVault, Stop, KeyWriteDies,
       SwitchDies, SetVaultMode, Import, ImportStops, ImportDies, FinishVault, VaultWriteDies, Begin
  <2> QED
    BY <2>1, <2>2 DEF Tick, KeptInv
<1> QED
  BY <1>1 DEF KeptInv, SavedKept

\* A user replaces what is under the name, and nothing else.
LEMMA KeptUser ==
  ASSUME KeptInv, NEW y \in File, Unlink(y) \/ \E c \in Version : Save(y, c)
  PROVE  KeptInv'
<1>1. PICK c \in Version \cup {Absent} :
         /\ disk' = [disk EXCEPT ![y] = c]
         /\ saved' = [saved EXCEPT ![y] = (saved[y] \ {disk[y]}) \cup ({c} \ {Absent})]
         /\ UNCHANGED <<now, upset>>
  <2>1. CASE Unlink(y)
    BY <2>1 DEF Unlink, history
  <2>2. ASSUME NEW c \in Version, Save(y, c)
        PROVE  /\ disk' = [disk EXCEPT ![y] = c]
               /\ saved' = [saved EXCEPT ![y] = (saved[y] \ {disk[y]}) \cup ({c} \ {Absent})]
               /\ UNCHANGED <<now, upset>>
    <3>1. c # Absent
      BY ChunkAssumption
    <3>2. {c} \ {Absent} = {c}
      BY <3>1
    <3> QED
      BY <2>2, <3>2 DEF Save
  <2> QED
    BY <2>1, <2>2
<1>2. y \in Path
  BY NameAssumption
<1>3. /\ disk' = [p \in Path |-> IF p = y THEN c ELSE disk[p]]
      /\ saved' = [x \in File |-> IF x = y THEN (saved[y] \ {disk[y]}) \cup ({c} \ {Absent})
                                  ELSE saved[x]]
  BY <1>1 DEF KeptInv
<1>4. ASSUME NEW x \in File \ upset', NEW v \in saved'[x]
      PROVE  \E p \in Places(x) : disk'[p] = v
  <2>1. x \in File \ upset
    BY <1>1
  <2>2. CASE v \in saved[x] /\ (x = y => v # disk[y])
    <3>1. PICK p \in Places(x) : disk[p] = v
      BY <2>1, <2>2, Kept
    <3>2. p # y
      <4>1. x # y => y \notin Places(x)
        BY PlacesApart DEF Places
      <4> QED
        BY <2>2, <3>1, <4>1
    <3> QED
      BY <1>3, <3>1, <3>2, PlacesApart
  <2>3. CASE x = y /\ v = c
    BY <1>2, <1>3, <2>3 DEF Places
  <2> QED
    BY <1>3, <2>2, <2>3
<1>5. \A x \in File : saved'[x] \subseteq Version
  BY <1>3 DEF KeptInv
<1> QED
  BY <1>1, <1>3, <1>4, <1>5, KeptStep DEF KeptInv

\* An export replaces its destination, and takes a temporary name.
LEMMA KeptExport ==
  ASSUME KeptInv, NEW p \in Path, NEW dest \in Dest, NEW gui \in BOOLEAN,
         Export(p, dest, gui) \/ ExportFails(p, dest, gui) \/ ExportDies(p, dest, gui)
  PROVE  KeptInv'
<1>1. dest \in Path /\ Temp[dest] \in Path
  BY NameAssumption
<1>2. CASE Export(p, dest, gui)
  <2>1. PICK c : disk' = [disk EXCEPT ![Temp[dest]] = Absent, ![dest] = c]
    BY <1>2 DEF Export, ExportFile
  <2>2. /\ saved' = [x \in File |-> IF x = dest THEN saved[x] \ {disk[x]} ELSE saved[x]]
        /\ UNCHANGED <<now, upset>>
    BY <1>2 DEF Export
  <2>3. disk' = [q \in Path |-> IF q = dest THEN c
                                ELSE IF q = Temp[dest] THEN Absent ELSE disk[q]]
    BY <1>1, <2>1 DEF KeptInv
  <2>4. ASSUME NEW x \in File \ upset', NEW v \in saved'[x]
        PROVE  \E q \in Places(x) : disk'[q] = v
    <3>1. x \in File \ upset /\ v \in saved[x] /\ (x = dest => v # disk[x])
      BY <2>2
    <3>2. PICK q \in Places(x) : disk[q] = v
      BY <3>1, Kept
    <3>3. q # dest /\ q # Temp[dest] /\ q \in Path
      BY <1>1, <3>1, <3>2, PlacesApart
    <3> QED
      BY <2>3, <3>2, <3>3
  <2>5. \A x \in File : saved'[x] \subseteq Version
    BY <2>2 DEF KeptInv
  <2> QED
    BY <2>2, <2>3, <2>4, <2>5, KeptStep DEF KeptInv
<1>3. CASE ExportFails(p, dest, gui) \/ ExportDies(p, dest, gui)
  <2>1. PICK c : disk' = [disk EXCEPT ![Temp[dest]] = c]
    <3>1. CASE ExportFails(p, dest, gui)
      <4>1. disk = [disk EXCEPT ![Temp[dest]] = disk[Temp[dest]]]
        BY <1>1 DEF KeptInv
      <4> QED
        BY <3>1, <4>1 DEF ExportFails, ExportFile
    <3>2. CASE ExportDies(p, dest, gui)
      BY <3>2 DEF ExportDies, ExportFile
    <3> QED
      BY <1>3, <3>1, <3>2
  <2>2. UNCHANGED <<now, saved, upset>>
    BY <1>3 DEF ExportFails, ExportDies, history
  <2>3. disk' = [q \in Path |-> IF q = Temp[dest] THEN c ELSE disk[q]]
    BY <2>1 DEF KeptInv
  <2>4. ASSUME NEW x \in File \ upset', NEW v \in saved'[x]
        PROVE  \E q \in Places(x) : disk'[q] = v
    <3>1. PICK q \in Places(x) : disk[q] = v
      BY <2>2, Kept
    <3>2. q # Temp[dest] /\ q \in Path
      BY <1>1, PlacesApart
    <3> QED
      BY <2>3, <3>1, <3>2
  <2>5. saved' = [x \in File |-> saved'[x]] /\ \A x \in File : saved'[x] \subseteq Version
    BY <2>2 DEF KeptInv
  <2> QED
    BY <2>2, <2>3, <2>4, <2>5, KeptStep DEF KeptInv
<1> QED
  BY <1>2, <1>3

\* The end of a plain transfer: what was there and differs becomes a copy.
LEMMA KeptTransfer ==
  ASSUME KeptInv, NEW y \in File,
         \/ FinishPlain(y) \/ FinishUnparked(y) \/ PlainWriteDies(y)
         \/ \E c \in Version : WriteLocal(y, c)
  PROVE  KeptInv'
<1> DEFINE new == incoming[y]
<1>1. y \in Path /\ Copy(y) \in Path /\ Copy(y) \in Places(y) /\ Copy(y) # y
  BY PlacesApart, NameAssumption DEF Copy, Places, KeptInv
<1>2. UNCHANGED <<now, saved>>
  BY DEF FinishPlain, FinishUnparked, PlainWriteDies, WriteLocal, history
<1> HIDE DEF new
<1> DEFINE Over(c) == /\ disk' = [disk EXCEPT ![y] = c]
                      /\ y \in upset' \/ disk[y] \in {Absent, c}
           Beside(c) == /\ disk' = [[disk EXCEPT ![Copy(y)] = disk[y]] EXCEPT ![y] = c]
                        /\ y \in upset' \/ disk[Copy(y)] \in {Absent, disk[y]}
<1>3. upset \subseteq upset' /\ \E c : Over(c) \/ Beside(c)
  <2>1. ASSUME NEW c, disk' = [Parked(y, new) EXCEPT ![y] = c],
               Clashes(y, new) => y \in upset',
               ~ Differs(y, new) => y \in upset' \/ disk[y] \in {Absent, c}
        PROVE  Over(c) \/ Beside(c)
    <3>1. CASE Differs(y, new)
      <4>1. disk' = [[disk EXCEPT ![Copy(y)] = disk[y]] EXCEPT ![y] = c]
        BY <2>1, <3>1 DEF Parked
      <4>2. y \in upset' \/ disk[Copy(y)] \in {Absent, disk[y]}
        BY <2>1, <3>1 DEF Clashes
      <4> QED
        BY <4>1, <4>2
    <3>2. CASE ~ Differs(y, new)
      <4>1. disk' = [disk EXCEPT ![y] = c]
        BY <2>1, <3>2 DEF Parked
      <4> QED
        BY <2>1, <3>2, <4>1
    <3> QED
      BY <3>1, <3>2
  <2>2. CASE FinishPlain(y)
    <3>1. /\ disk' = [Parked(y, new) EXCEPT ![y] = new]
          /\ upset' = IF Clashes(y, new) THEN upset \cup {y} ELSE upset
      BY <2>2 DEF FinishPlain, new
    <3>2. ~ Differs(y, new) => disk[y] \in {Absent, new}
      BY DEF Differs
    <3> HIDE DEF Over, Beside
    <3> QED
      BY <2>1, <3>1, <3>2
  <2>3. CASE FinishUnparked(y)
    BY <2>3 DEF FinishUnparked
  <2>4. CASE PlainWriteDies(y)
    <3>1. PICK c : disk' = [Parked(y, new) EXCEPT ![y] = c]
      BY <2>4 DEF PlainWriteDies, new
    <3>2. upset' = IF Clashes(y, new) \/ disk[y] = new THEN upset \cup {y} ELSE upset
      BY <2>4 DEF PlainWriteDies, new
    <3>3. ~ Differs(y, new) => disk[y] \in {Absent, new}
      BY DEF Differs
    <3> HIDE DEF Over, Beside
    <3> QED
      BY <2>1, <3>1, <3>2, <3>3
  <2>5. CASE \E c \in Version : WriteLocal(y, c)
    BY <2>5 DEF WriteLocal, Wanted, history
  <2> QED
    BY <2>2, <2>3, <2>4, <2>5
<1>4. /\ disk' = [p \in Path |-> disk'[p]]
      /\ \A p \in Path \ {y, Copy(y)} : disk'[p] = disk[p]
      /\ upset \subseteq upset'
      /\ y \notin upset' => \/ disk[y] = Absent /\ disk'[Copy(y)] = disk[Copy(y)]
                            \/ disk'[y] = disk[y] /\ disk'[Copy(y)] = disk[Copy(y)]
                            \/ /\ disk'[Copy(y)] = disk[y]
                               /\ disk[Copy(y)] \in {Absent, disk[y]}
  BY <1>1, <1>3 DEF KeptInv
<1>5. ASSUME NEW x \in File \ upset', NEW v \in saved'[x]
      PROVE  \E p \in Places(x) : disk'[p] = v
  <2>1. PICK p \in Places(x) : disk[p] = v /\ v # Absent /\ p \in Path
    BY <1>2, <1>4, Kept, PlacesApart
  <2>2. CASE p \notin {y, Copy(y)}
    BY <1>4, <2>1, <2>2
  <2>3. CASE p \in {y, Copy(y)}
    <3>1. x = y
      BY <1>1, <2>3, PlacesApart DEF Places
    <3>2. disk'[y] = v \/ disk'[Copy(y)] = v
      BY <1>4, <2>1, <2>3, <3>1
    <3>3. y \in Places(y)
      BY DEF Places
    <3> QED
      BY <1>1, <3>1, <3>2, <3>3
  <2> QED
    BY <2>2, <2>3
<1>6. /\ saved' = [x \in File |-> saved'[x]] /\ now' \in Second
      /\ \A x \in File : saved'[x] \subseteq Version
  BY <1>2 DEF KeptInv
<1> QED
  BY <1>4, <1>5, <1>6, KeptStep

LEMMA KeptNext == KeptInv /\ [Next]_vars => KeptInv'
<1> SUFFICES ASSUME KeptInv, [Next]_vars PROVE KeptInv'
  OBVIOUS
<1>1. CASE UNCHANGED vars \/ User
  BY <1>1, KeptQuiet, KeptUser DEF User
<1>2. CASE Lifecycle
  BY <1>2, KeptQuiet
<1>3. CASE Vault
  BY <1>3, KeptQuiet, KeptExport DEF Vault
<1>4. ASSUME NEW x \in File, Transfer(x)
      PROVE  KeptInv'
  BY <1>4, KeptQuiet, KeptTransfer DEF Transfer
<1> QED
  BY <1>1, <1>2, <1>3, <1>4 DEF Next

\* What a user saved is in the folder, under its name or as a conflict copy,
\* unless the copy could not be kept apart: the invariant SavedKept.
THEOREM SavedKeptHolds == Spec => []SavedKept
<1>1. KeptInv => SavedKept
  BY DEF KeptInv
<1> QED
  BY KeptInit, KeptNext, <1>1, PTL DEF Spec

-----------------------------------------------------------------------------
(* Chunks of a file.                                                        *)

\* Where the chunk after the first i begins.
Offset(i) == ChunkSize * i

LEMMA Offsets ==
  /\ Offset(0) = 0
  /\ \A i \in Nat : Offset(i) \in Nat
  /\ \A i \in Nat \ {0} : Offset(i) = Offset(i - 1) + ChunkSize
  /\ \A i, j \in Nat : i <= j => Offset(i) <= Offset(j)
<1>1. \A i \in Nat : ChunkSize * i \in Nat
  BY ChunkAssumption
<1>2. ASSUME NEW i \in Nat \ {0} PROVE ChunkSize * i = ChunkSize * (i - 1) + ChunkSize
  BY ChunkAssumption
<1>3. ASSUME NEW i \in Nat, NEW j \in Nat, i <= j PROVE ChunkSize * i <= ChunkSize * j
  BY <1>3, ChunkAssumption
<1>4. ChunkSize * 0 = 0
  BY ChunkAssumption
<1> QED
  BY <1>1, <1>2, <1>3, <1>4 DEF Offset

LEMMA Division ==
  ASSUME NEW a \in Nat
  PROVE  /\ a \div ChunkSize \in Nat /\ a % ChunkSize \in 0 .. ChunkSize - 1
         /\ a = Offset(a \div ChunkSize) + (a % ChunkSize)
BY ChunkAssumption DEF Offset

\* How many chunks a file has: all but the last are full.
LEMMA TotalBounds ==
  ASSUME NEW v \in Seq(Nat), v # <<>>
  PROVE  /\ TotalChunks(v) \in Nat \ {0} /\ Len(v) \in Nat
         /\ Offset(TotalChunks(v) - 1) < Len(v)
         /\ Len(v) <= Offset(TotalChunks(v))
<1> DEFINE L == Len(v)
           T == (L + ChunkSize - 1) \div ChunkSize
<1>1. L \in Nat \ {0}
  BY EmptySeq
<1>2. T = TotalChunks(v)
  BY DEF TotalChunks
<1>3. L + ChunkSize - 1 \in Nat
  BY <1>1, ChunkAssumption
<1>4. /\ T \in Nat /\ (L + ChunkSize - 1) % ChunkSize \in 0 .. ChunkSize - 1
      /\ L + ChunkSize - 1 = Offset(T) + ((L + ChunkSize - 1) % ChunkSize)
  BY <1>3, Division
<1> HIDE DEF L, T
<1>5. T # 0
  BY <1>1, <1>4, Offsets, ChunkAssumption
<1>6. T - 1 \in Nat /\ Offset(T - 1) \in Nat /\ Offset(T) = Offset(T - 1) + ChunkSize
  BY <1>4, <1>5, Offsets
<1>7. Offset(T - 1) < L /\ L <= Offset(T)
  BY <1>1, <1>4, <1>6, ChunkAssumption
<1> QED
  BY <1>1, <1>2, <1>4, <1>5, <1>7 DEF L

\* What a read returns, inside the file.
LEMMA ReadBytes ==
  ASSUME NEW v \in Seq(Nat), NEW o \in Nat, o < Len(v)
  PROVE  /\ ReadAt(v, o) \in Seq(Nat)
         /\ Len(ReadAt(v, o)) = IF o + ChunkSize < Len(v) THEN ChunkSize ELSE Len(v) - o
         /\ \A k \in 1 .. Len(ReadAt(v, o)) : ReadAt(v, o)[k] = v[o + k]
<1> DEFINE e == IF o + ChunkSize < Len(v) THEN o + ChunkSize ELSE Len(v)
<1>1. e \in Nat /\ o < e /\ e <= Len(v) /\ Len(v) \in Nat
  BY ChunkAssumption
<1>2. ReadAt(v, o) = SubSeq(v, o + 1, e)
  BY DEF ReadAt
<1>3. /\ SubSeq(v, o + 1, e) \in Seq(Nat)
      /\ Len(SubSeq(v, o + 1, e)) = e - o
      /\ \A k \in 1 .. e - o : SubSeq(v, o + 1, e)[k] = v[o + k]
  <2> HIDE DEF e
  <2> QED
    BY <1>1, SubSeqProperties
<1> QED
  BY <1>1, <1>2, <1>3, ChunkAssumption

LEMMA ChunkBytes ==
  ASSUME NEW v \in Seq(Nat), v # <<>>
  PROVE  /\ Chunks(v) \in Seq(Seq(Nat)) /\ Len(Chunks(v)) = TotalChunks(v)
         /\ \A i \in 1 .. TotalChunks(v) :
              /\ Chunks(v)[i] \in Seq(Nat)
              /\ Len(Chunks(v)[i]) = IF i < TotalChunks(v) THEN ChunkSize
                                     ELSE Len(v) - Offset(i - 1)
              /\ Len(Chunks(v)[i]) \in Nat \ {0} /\ Len(Chunks(v)[i]) <= ChunkSize
              /\ Chunks(v)[i] = ReadAt(v, Offset(i - 1))
              /\ \A k \in 1 .. Len(Chunks(v)[i]) : Chunks(v)[i][k] = v[Offset(i - 1) + k]
<1> DEFINE T == TotalChunks(v)
<1>1. /\ T \in Nat \ {0} /\ Len(v) \in Nat
      /\ Offset(T - 1) < Len(v) /\ Len(v) <= Offset(T)
  BY TotalBounds
<1>2. Chunks(v) = [i \in 1 .. T |-> ReadAt(v, (i - 1) * ChunkSize)]
  BY DEF Chunks
<1> HIDE DEF T
<1>3. ASSUME NEW i \in 1 .. T
      PROVE  /\ Chunks(v)[i] \in Seq(Nat)
             /\ Len(Chunks(v)[i]) = IF i < T THEN ChunkSize ELSE Len(v) - Offset(i - 1)
             /\ Len(Chunks(v)[i]) \in Nat \ {0} /\ Len(Chunks(v)[i]) <= ChunkSize
             /\ Chunks(v)[i] = ReadAt(v, Offset(i - 1))
             /\ \A k \in 1 .. Len(Chunks(v)[i]) : Chunks(v)[i][k] = v[Offset(i - 1) + k]
  <2> DEFINE o == Offset(i - 1)
  <2>1. i \in Nat \ {0} /\ i - 1 \in Nat /\ i <= T
    BY <1>1
  <2>2. o \in Nat /\ (i - 1) * ChunkSize = o
    BY <2>1, Offsets, ChunkAssumption DEF Offset
  <2>3. Chunks(v)[i] = ReadAt(v, o)
    BY <1>2, <2>2
  <2>4. Offset(i) = o + ChunkSize /\ Offset(T) = Offset(T - 1) + ChunkSize
    BY <1>1, <2>1, Offsets
  <2>5. o <= Offset(T - 1) /\ (i < T => Offset(i) <= Offset(T - 1)) /\ Offset(T - 1) \in Nat
    <3>1. T - 1 \in Nat /\ i - 1 <= T - 1 /\ (i < T => i <= T - 1)
      BY <1>1, <2>1
    <3> QED
      BY <2>1, <3>1, Offsets
  <2> HIDE DEF o
  <2>6. o < Len(v)
    BY <1>1, <2>2, <2>5
  <2>7. /\ ReadAt(v, o) \in Seq(Nat)
        /\ Len(ReadAt(v, o)) = IF o + ChunkSize < Len(v) THEN ChunkSize ELSE Len(v) - o
        /\ \A k \in 1 .. Len(ReadAt(v, o)) : ReadAt(v, o)[k] = v[o + k]
    BY <2>2, <2>6, ReadBytes
  <2>8. CASE i < T
    <3>1. o + ChunkSize < Len(v)
      BY <1>1, <2>2, <2>4, <2>5, <2>8, ChunkAssumption
    <3> QED
      BY <2>3, <2>7, <2>8, <3>1, ChunkAssumption DEF o
  <2>9. CASE i = T
    <3>1. o = Offset(T - 1) /\ ~ (o + ChunkSize < Len(v))
      BY <1>1, <2>2, <2>4, <2>5, <2>9, ChunkAssumption DEF o
    <3>2. Len(v) - o \in Nat \ {0} /\ Len(v) - o <= ChunkSize
      BY <1>1, <2>2, <2>4, <2>6, <3>1, ChunkAssumption
    <3> QED
      BY <2>3, <2>7, <2>9, <3>1, <3>2 DEF o
  <2> QED
    BY <1>1, <2>1, <2>8, <2>9
<1>4. Chunks(v) \in [1 .. T -> Seq(Nat)]
  BY <1>2, <1>3
<1>5. Chunks(v) \in Seq(Seq(Nat)) /\ Len(Chunks(v)) = T
  BY <1>1, <1>4
<1> QED
  BY <1>3, <1>5 DEF T

\* The first chunks of a file put together are its first bytes.
LEMMA WholePrefix ==
  ASSUME NEW v \in Seq(Nat), v # <<>>, NEW n \in 1 .. TotalChunks(v)
  PROVE  /\ Whole(SubSeq(Chunks(v), 1, n)) \in Seq(Nat)
         /\ n = TotalChunks(v) => Whole(SubSeq(Chunks(v), 1, n)) = v
<1> DEFINE T == TotalChunks(v)
           s == SubSeq(Chunks(v), 1, n)
           M == Offset(n - 1) + Len(s[n])
<1>1. /\ T \in Nat \ {0} /\ Len(v) \in Nat
      /\ Offset(T - 1) < Len(v) /\ Len(v) <= Offset(T)
  BY TotalBounds
<1>2. /\ Chunks(v) \in Seq(Seq(Nat)) /\ Len(Chunks(v)) = T
      /\ \A i \in 1 .. T :
           /\ Chunks(v)[i] \in Seq(Nat)
           /\ Len(Chunks(v)[i]) = IF i < T THEN ChunkSize ELSE Len(v) - Offset(i - 1)
           /\ Len(Chunks(v)[i]) \in Nat \ {0} /\ Len(Chunks(v)[i]) <= ChunkSize
           /\ \A k \in 1 .. Len(Chunks(v)[i]) : Chunks(v)[i][k] = v[Offset(i - 1) + k]
  BY ChunkBytes
<1>3. n \in 1 .. T
  OBVIOUS
<1> HIDE DEF T
<1>4. /\ s \in Seq(Seq(Nat)) /\ Len(s) = n
      /\ \A i \in 1 .. n : s[i] = Chunks(v)[i]
  <2>1. /\ SubSeq(Chunks(v), 1, n) \in Seq(Seq(Nat)) /\ Len(SubSeq(Chunks(v), 1, n)) = n
        /\ \A i \in 1 .. n : SubSeq(Chunks(v), 1, n)[i] = Chunks(v)[i]
    BY <1>1, <1>2, <1>3, SubSeqProperties
  <2> QED
    BY <2>1
<1> HIDE DEF s
<1>5. Whole(s) = [k \in 1 .. M |->
                    s[((k - 1) \div ChunkSize) + 1][((k - 1) % ChunkSize) + 1]]
  <2>1. Len(<<>>) = 0 /\ n # 0
    BY <1>1, <1>3
  <2>2. s # <<>>
    BY <1>4, <2>1
  <2> QED
    BY <1>4, <2>2 DEF Whole, Last, Offset
<1>6. /\ n \in Nat \ {0} /\ n - 1 \in Nat /\ n <= T
      /\ Offset(n - 1) \in Nat /\ Offset(n) = Offset(n - 1) + ChunkSize
      /\ n < T => Offset(n) <= Offset(T - 1)
  <2>1. n \in Nat \ {0} /\ n - 1 \in Nat /\ n <= T /\ T - 1 \in Nat
    BY <1>1, <1>3
  <2>2. n < T => n <= T - 1
    BY <1>1, <2>1
  <2>3. n < T => Offset(n) <= Offset(T - 1)
    BY <2>1, <2>2, Offsets
  <2> QED
    BY <2>1, <2>3, Offsets
<1>7. /\ s[n] = Chunks(v)[n]
      /\ Len(s[n]) \in Nat \ {0} /\ Len(s[n]) <= ChunkSize
      /\ Len(s[n]) = IF n < T THEN ChunkSize ELSE Len(v) - Offset(n - 1)
  BY <1>2, <1>4, <1>6, <1>3
<1>8. M \in Nat /\ M <= Offset(n) /\ M <= Len(v) /\ (n = T => M = Len(v))
  <2>1. M \in Nat /\ M <= Offset(n)
    BY <1>6, <1>7, ChunkAssumption
  <2>2. CASE n < T
    <3>1. M = Offset(n) /\ Offset(T - 1) \in Nat
      BY <1>1, <1>6, <1>7, <2>2, Offsets, ChunkAssumption
    <3> QED
      BY <1>1, <1>6, <2>1, <2>2, <3>1
  <2>3. CASE n = T
    BY <1>1, <1>6, <1>7, <2>1, <2>3
  <2> QED
    BY <1>1, <1>6, <2>1, <2>2, <2>3
<1> HIDE DEF M
<1>9. ASSUME NEW k \in 1 .. M
      PROVE  s[((k - 1) \div ChunkSize) + 1][((k - 1) % ChunkSize) + 1] = v[k]
  <2> DEFINE q == (k - 1) \div ChunkSize
             r == (k - 1) % ChunkSize
  <2>1. k \in Nat \ {0} /\ k - 1 \in Nat /\ k <= M
    BY <1>8
  <2>2. q \in Nat /\ r \in 0 .. ChunkSize - 1 /\ k - 1 = Offset(q) + r
    BY <2>1, Division
  <2> HIDE DEF q, r
  <2>3. Offset(q) \in Nat /\ r \in Nat /\ r < ChunkSize
    BY <2>2, Offsets, ChunkAssumption
  <2>4. q + 1 \in 1 .. n /\ q + 1 \in 1 .. T
    <3>1. Offset(q) < Offset(n)
      BY <1>6, <1>8, <2>1, <2>2, <2>3, ChunkAssumption
    <3>2. ~ (n <= q)
      <4>1. n <= q => Offset(n) <= Offset(q)
        BY <1>6, <2>2, Offsets
      <4>2. Offset(n) \in Nat
        BY <1>6, ChunkAssumption
      <4> QED
        BY <2>3, <3>1, <4>1, <4>2
    <3> QED
      BY <1>1, <1>6, <2>2, <3>2
  <2>5. s[q + 1] = Chunks(v)[q + 1]
    BY <1>4, <2>4
  <2>6. r + 1 \in 1 .. Len(Chunks(v)[q + 1])
    <3>1. CASE q + 1 < n
      <4>1. Len(Chunks(v)[q + 1]) = ChunkSize
        BY <1>1, <1>2, <1>6, <2>2, <2>4, <3>1
      <4> QED
        BY <2>3, <4>1, ChunkAssumption
    <3>2. CASE q + 1 = n
      <4>1. q = n - 1
        BY <2>2, <3>2
      <4>2. M = Offset(q) + Len(s[n])
        BY <4>1 DEF M
      <4>3. r < Len(s[n])
        BY <1>7, <2>1, <2>2, <2>3, <4>2
      <4> QED
        BY <1>7, <2>3, <3>2, <4>3
    <3> QED
      BY <1>6, <2>2, <2>4, <3>1, <3>2
  <2>7. Chunks(v)[q + 1][r + 1] = v[Offset((q + 1) - 1) + (r + 1)]
    BY <1>2, <2>4, <2>6
  <2>8. (q + 1) - 1 = q /\ Offset(q) + (r + 1) = k
    <3>1. (q + 1) - 1 = q
      BY <2>2
    <3>2. Offset(q) + r + 1 = k
      BY <2>1, <2>2, <2>3
    <3>3. Offset(q) + (r + 1) = Offset(q) + r + 1
      BY <2>3
    <3> QED
      BY <3>1, <3>2, <3>3
  <2>9. s[q + 1][r + 1] = v[k]
    BY <2>5, <2>7, <2>8
  <2> QED
    BY <2>9 DEF q, r
<1>10. \A k \in 1 .. M : Whole(s)[k] = v[k] /\ v[k] \in Nat
  BY <1>1, <1>5, <1>8, <1>9
<1>11. Whole(s) \in [1 .. M -> Nat]
  BY <1>5, <1>10
<1>12. Whole(s) \in Seq(Nat) /\ Len(Whole(s)) = M
  BY <1>8, <1>11
<1>13. n = T => Whole(s) = v
  BY <1>8, <1>10, <1>12, SeqEqual
<1> QED
  BY <1>12, <1>13 DEF s, T

\* A file is the whole of its chunks, and of the first few of them comes a file.
LEMMA WholeOfChunks ==
  ASSUME NEW v \in Seq(Nat)
  PROVE  /\ Chunks(v) \in Seq(Seq(Nat)) /\ Len(Chunks(v)) \in Nat \ {0}
         /\ Whole(Chunks(v)) = v
         /\ \A n \in 0 .. Len(Chunks(v)) : Whole(SubSeq(Chunks(v), 1, n)) \in Seq(Nat)
<1>1. ASSUME NEW s \in Seq(Seq(Nat))
      PROVE  SubSeq(s, 1, 0) = <<>> /\ SubSeq(s, 1, Len(s)) = s
  BY SubSeqEmpty, SubSeqFull
<1>2. Whole(<<>>) = <<>> /\ <<>> \in Seq(Nat)
  BY DEF Whole
<1>3. CASE v # <<>>
  <2>1. /\ Chunks(v) \in Seq(Seq(Nat)) /\ Len(Chunks(v)) = TotalChunks(v)
        /\ TotalChunks(v) \in Nat \ {0}
    BY <1>3, ChunkBytes, TotalBounds
  <2>2. \A n \in 1 .. TotalChunks(v) :
          /\ Whole(SubSeq(Chunks(v), 1, n)) \in Seq(Nat)
          /\ n = TotalChunks(v) => Whole(SubSeq(Chunks(v), 1, n)) = v
    BY <1>3, WholePrefix
  <2>3. Whole(Chunks(v)) = v
    <3>1. TotalChunks(v) \in 1 .. TotalChunks(v)
      BY <2>1
    <3>2. SubSeq(Chunks(v), 1, TotalChunks(v)) = Chunks(v)
      BY <1>1, <2>1
    <3> QED
      BY <2>2, <3>1, <3>2
  <2>4. ASSUME NEW n \in 0 .. Len(Chunks(v))
        PROVE  Whole(SubSeq(Chunks(v), 1, n)) \in Seq(Nat)
    <3>1. n = 0 \/ n \in 1 .. TotalChunks(v)
      BY <2>1
    <3> QED
      BY <1>1, <1>2, <2>1, <2>2, <3>1
  <2> QED
    BY <2>1, <2>3, <2>4
<1>4. CASE v = <<>>
  <2>1. ReadAt(<<>>, 0 * ChunkSize) = <<>>
    <3>1. 0 * ChunkSize = 0 /\ ~ (ChunkSize < 0) /\ Len(<<>>) = 0
      BY ChunkAssumption
    <3>2. ReadAt(<<>>, 0 * ChunkSize) = SubSeq(<<>>, 1, 0)
      BY <3>1, ChunkAssumption DEF ReadAt
    <3> QED
      BY <3>2, SubSeqEmpty
  <2>2. Chunks(v) = <<<<>>>>
    <3>1. TotalChunks(v) = 1
      BY <1>4 DEF TotalChunks
    <3>2. Chunks(v) = [i \in 1 .. 1 |-> ReadAt(v, (i - 1) * ChunkSize)]
      BY <3>1 DEF Chunks
    <3>3. \A i \in 1 .. 1 : ReadAt(v, (i - 1) * ChunkSize) = <<>>
      BY <1>4, <2>1
    <3> QED
      BY <3>2, <3>3
  <2>3. <<<<>>>> \in Seq(Seq(Nat)) /\ Len(<<<<>>>>) = 1 /\ <<<<>>>> # <<>>
    OBVIOUS
  <2>4. Whole(<<<<>>>>) = <<>>
    <3>1. ChunkSize * (1 - 1) + Len(<<>>) = 0
      BY ChunkAssumption
    <3>2. Last(<<<<>>>>) = <<>>
      BY DEF Last
    <3> QED
      BY <2>3, <3>1, <3>2 DEF Whole
  <2> DEFINE c == <<<<>>>>
  <2>5. c \in Seq(Seq(Nat)) /\ Len(c) = 1 /\ Whole(c) = <<>> /\ Chunks(v) = c
    BY <2>2, <2>3, <2>4
  <2> HIDE DEF c
  <2>6. ASSUME NEW n \in 0 .. Len(c) PROVE Whole(SubSeq(c, 1, n)) \in Seq(Nat)
    <3>1. n = 0 \/ n = Len(c)
      BY <2>5
    <3> QED
      BY <1>1, <1>2, <2>5, <3>1
  <2>7. Len(c) \in Nat \ {0}
    BY <2>5
  <2> QED
    BY <1>4, <2>5, <2>6, <2>7
<1> QED
  BY <1>3, <1>4

-----------------------------------------------------------------------------
(* What is in files and containers.                                         *)

\* A container holds the chunks of a file that somebody saved, or of one that
\* a death left behind.
Boxed(c, left) ==
    /\ c.written \in Nat
    /\ \E v \in Version \cup left : c.chunks = Chunks(v)

\* The invariant behind NoPartialExport and ListedIsServed.
WholeInv ==
    /\ disk = [p \in Path |-> disk[p]]
    /\ box = [p \in Path |-> box[p]]
    /\ incoming = [x \in File |-> incoming[x]]
    /\ torn \subseteq Seq(Nat)
    /\ \A p \in Path : disk[p] \in Seq(Nat) \cup {Absent}
    /\ \A x \in File : incoming[x] \in Version \cup {None}
    /\ \A p \in Path : box[p] # Absent => Boxed(box[p], torn)
    /\ NoPartialExport

\* Files and copies have no temporary names.
LEMMA NotTemporary ==
  /\ \A x \in File : x \in Path /\ x \notin Temporary
  /\ \A x \in File, s \in Second : CopyName[x][s] \in Path /\ CopyName[x][s] # x
BY NameAssumption DEF Temporary, Name

LEMMA BoxedContainer ==
  ASSUME NEW key, NEW left, NEW v \in Version \cup left, v \in Seq(Nat)
  PROVE  /\ Boxed(Container(key, Chunks(v)), left)
         /\ \A n \in 0 .. (Units(Chunks(v)) - 1) :
              Boxed(Truncated(Container(key, Chunks(v)), n), left)
<1>1. Len(Chunks(v)) \in Nat
  BY WholeOfChunks
<1>2. Units(Chunks(v)) \in Nat
  BY <1>1 DEF Units
<1>3. /\ Container(key, Chunks(v)).chunks = Chunks(v)
      /\ Container(key, Chunks(v)).written = Units(Chunks(v))
      /\ \A n : /\ Truncated(Container(key, Chunks(v)), n).chunks = Chunks(v)
                /\ Truncated(Container(key, Chunks(v)), n).written = n
  BY DEF Container, Truncated
<1>4. \A n \in 0 .. (Units(Chunks(v)) - 1) : n \in Nat
  OBVIOUS
<1> QED
  BY <1>2, <1>3, <1>4 DEF Boxed

\* It is enough that what a step puts into a file or a container is whole, or
\* counts as torn.
LEMMA WholeStep ==
  ASSUME WholeInv, disk' = [p \in Path |-> disk'[p]], box' = [p \in Path |-> box'[p]],
         incoming' = [x \in File |-> incoming'[x]], torn \subseteq torn', torn' \subseteq Seq(Nat),
         \A p \in Path : disk'[p] \in Seq(Nat) \cup {Absent},
         \A p \in Path \ Temporary : disk'[p] \in Version \cup torn' \cup {Absent},
         \A x \in File : incoming'[x] \in Version \cup {None},
         \A p \in Path : box'[p] = box[p] \/ Boxed(box'[p], torn')
  PROVE  WholeInv'
<1>1. \A c : Boxed(c, torn) => Boxed(c, torn')
  BY DEF Boxed
<1>2. \A p \in Path : box'[p] # Absent => Boxed(box'[p], torn')
  BY <1>1 DEF WholeInv
<1> QED
  BY <1>2 DEF WholeInv, NoPartialExport, Temporary

LEMMA WholeInit == Init => WholeInv
BY DEF Init, WholeInv, NoPartialExport

\* Transfers in memory begin with a version, end, or are forgotten.
LEMMA IncomingType ==
  ASSUME WholeInv,
         \/ UNCHANGED incoming \/ Down
         \/ \E x \in File : Done(x) \/ \E v \in Version : incoming' = [incoming EXCEPT ![x] = v]
  PROVE  /\ incoming' = [x \in File |-> incoming'[x]]
         /\ \A x \in File : incoming'[x] \in Version \cup {None}
BY DEF WholeInv, Down, Done

LEMMA WholeQuiet ==
  ASSUME WholeInv,
         \/ UNCHANGED vars \/ Tick \/ Lifecycle
         \/ \E x \in File, v \in Version, e \in BOOLEAN : Begin(x, v, e)
  PROVE  WholeInv'
<1>1. UNCHANGED <<disk, box, torn>>
  BY DEF vars, history, Tick, Lifecycle, StartPlain, StartVault, Stop, KeyWriteDies,
     SwitchDies, SetVaultMode, Begin
<1>2. \/ UNCHANGED incoming \/ Down
      \/ \E x \in File : \E v \in Version : incoming' = [incoming EXCEPT ![x] = v]
  BY DEF vars, memory, Tick, Lifecycle, StartPlain, StartVault, Stop, KeyWriteDies,
     SwitchDies, SetVaultMode, Begin
<1>3. /\ incoming' = [x \in File |-> incoming'[x]]
      /\ \A x \in File : incoming'[x] \in Version \cup {None}
  BY <1>2, IncomingType
<1> QED
  BY <1>1, <1>3, WholeStep DEF WholeInv, NoPartialExport

LEMMA WholeUser ==
  ASSUME WholeInv, NEW y \in File, Unlink(y) \/ \E c \in Version : Save(y, c)
  PROVE  WholeInv'
<1>1. PICK c \in Version \cup {Absent} : disk' = [disk EXCEPT ![y] = c]
  BY DEF Unlink, Save
<1>2. UNCHANGED <<box, torn, incoming>>
  BY DEF Unlink, Save, memory
<1>3. disk' = [p \in Path |-> IF p = y THEN c ELSE disk[p]]
  BY <1>1 DEF WholeInv
<1>4. Version \subseteq Seq(Nat)
  BY ChunkAssumption
<1>5. /\ \A p \in Path : disk'[p] \in Seq(Nat) \cup {Absent}
      /\ \A p \in Path \ Temporary : disk'[p] \in Version \cup torn' \cup {Absent}
  BY <1>2, <1>3, <1>4 DEF WholeInv, NoPartialExport
<1> QED
  BY <1>2, <1>3, <1>5, WholeStep DEF WholeInv

\* What is imported is a whole file, a torn one, or a temporary one, which
\* counts as torn from then on.
LEMMA WholeImport ==
  ASSUME WholeInv,
         Import \/ \E S \in SUBSET (ListedPlain \ Refused) :
                     \/ ImportStops(S)
                     \/ \E p \in ListedPlain \ (Refused \cup S) : ImportDies(p, S)
  PROVE  WholeInv'
<1>1. UNCHANGED <<disk, incoming>>
  BY DEF Import, ImportStops, ImportDies, memory
<1>2. ASSUME NEW S \in SUBSET ListedPlain, torn' = torn \cup LeftOver(S)
      PROVE  /\ torn' \subseteq Seq(Nat)
             /\ \A p \in S : /\ p \in Path /\ disk[p] \in Version \cup torn'
                             /\ disk[p] \in Seq(Nat)
  <2>1. \A p \in S : p \in Path /\ disk[p] # Absent /\ disk[p] \in Seq(Nat)
    BY <1>2 DEF ListedPlain, WholeInv
  <2>2. torn' \subseteq Seq(Nat)
    BY <1>2, <2>1 DEF LeftOver, WholeInv
  <2>3. ASSUME NEW p \in S PROVE disk[p] \in Version \cup torn'
    <3>1. CASE p \in Temporary
      BY <1>2, <2>1, <3>1 DEF LeftOver
    <3>2. CASE p \notin Temporary
      BY <1>2, <2>1, <3>2 DEF WholeInv, NoPartialExport
    <3> QED
      BY <3>1, <3>2
  <2> QED
    BY <2>1, <2>2, <2>3
<1>3. ASSUME NEW S \in SUBSET ListedPlain, torn' = torn \cup LeftOver(S), NEW p \in S
      PROVE  /\ Boxed(Container(LoadedKey, Chunks(disk[p])), torn')
             /\ \A n \in 0 .. (Units(Chunks(disk[p])) - 1) :
                  Boxed(Truncated(Container(LoadedKey, Chunks(disk[p])), n), torn')
  BY <1>2, <1>3, BoxedContainer
<1>4. \A S : /\ Imported(S) = [p \in Path |-> Imported(S)[p]]
             /\ \A p \in Path : Imported(S)[p] = IF p \in S THEN Container(LoadedKey, Chunks(disk[p]))
                                                ELSE box[p]
  BY DEF Imported
<1>5. /\ torn \subseteq torn' /\ torn' \subseteq Seq(Nat)
      /\ box' = [p \in Path |-> box'[p]]
      /\ \A p \in Path : box'[p] = box[p] \/ Boxed(box'[p], torn')
  <2>1. ASSUME NEW L \in SUBSET ListedPlain, box' = Imported(L), torn' = torn \cup LeftOver(L)
        PROVE  /\ torn \subseteq torn' /\ torn' \subseteq Seq(Nat)
               /\ box' = [p \in Path |-> box'[p]]
               /\ \A p \in Path : box'[p] = box[p] \/ Boxed(box'[p], torn')
    <3>1. torn \subseteq torn' /\ torn' \subseteq Seq(Nat)
      BY <1>2, <2>1
    <3>2. \A p \in L : Boxed(Container(LoadedKey, Chunks(disk[p])), torn')
      BY <1>3, <2>1
    <3>3. box' = [p \in Path |-> IF p \in L THEN Container(LoadedKey, Chunks(disk[p]))
                                 ELSE box[p]]
      BY <2>1 DEF Imported
    <3>4. box' = [p \in Path |-> box'[p]]
      BY <3>3
    <3>5. \A p \in Path : box'[p] = box[p] \/ Boxed(box'[p], torn')
      BY <3>2, <3>3
    <3> QED
      BY <3>1, <3>4, <3>5
  <2>2. ASSUME NEW q \in ListedPlain, NEW S \in SUBSET ListedPlain, ImportDies(q, S)
        PROVE  /\ torn \subseteq torn' /\ torn' \subseteq Seq(Nat)
               /\ box' = [p \in Path |-> box'[p]]
               /\ \A p \in Path : box'[p] = box[p] \/ Boxed(box'[p], torn')
    <3> DEFINE R == S \cup {q}
    <3>1. PICK n \in 0 .. (Units(Chunks(disk[q])) - 1) :
            box' = [Imported(S) EXCEPT ![q] = Truncated(Imported({q})[q], n)]
      BY <2>2 DEF ImportDies
    <3>2. torn' = torn \cup LeftOver(R) /\ R \in SUBSET ListedPlain /\ q \in R /\ q \in Path
      BY <2>2 DEF ImportDies, ListedPlain
    <3>3. Imported({q})[q] = Container(LoadedKey, Chunks(disk[q]))
      BY <1>4, <3>2
    <3>4. Boxed(Truncated(Imported({q})[q], n), torn')
      BY <1>3, <3>2, <3>3
    <3>5. \A p \in S : Boxed(Container(LoadedKey, Chunks(disk[p])), torn')
      BY <1>3, <3>2
    <3>6. torn \subseteq torn' /\ torn' \subseteq Seq(Nat)
      BY <1>2, <3>2
    <3> DEFINE c == Truncated(Imported({q})[q], n)
           g == Imported(S)
    <3>7. g = [p \in Path |-> g[p]] /\ box' = [g EXCEPT ![q] = c]
      BY <1>4, <3>1
    <3> HIDE DEF c, g
    <3>8. /\ box' = [p \in Path |-> box'[p]]
          /\ \A p \in Path : box'[p] = IF p = q THEN c ELSE g[p]
      BY <3>2, <3>7
    <3>9. \A p \in Path : g[p] = box[p] \/ Boxed(g[p], torn')
      BY <1>4, <3>5 DEF g
    <3>10. Boxed(c, torn')
      BY <3>4 DEF c
    <3> QED
      BY <3>6, <3>8, <3>9, <3>10
  <2>3. CASE Import
    <3>1. ListedPlain \in SUBSET ListedPlain
      OBVIOUS
    <3> QED
      BY <2>1, <2>3, <3>1 DEF Import
  <2>4. CASE \E S \in SUBSET (ListedPlain \ Refused) : ImportStops(S)
    <3>1. PICK S \in SUBSET ListedPlain : ImportStops(S)
      BY <2>4
    <3> QED
      BY <2>1, <3>1 DEF ImportStops
  <2> QED
    BY <2>2, <2>3, <2>4
<1> QED
  BY <1>1, <1>5, WholeStep DEF WholeInv, NoPartialExport

\* An export puts together a whole file; what it leaves in part has a temporary name.
LEMMA WholeExport ==
  ASSUME WholeInv, NEW p \in Path, NEW dest \in Dest, NEW gui \in BOOLEAN,
         Export(p, dest, gui) \/ ExportFails(p, dest, gui) \/ ExportDies(p, dest, gui)
  PROVE  WholeInv'
<1>1. dest \in Path /\ Temp[dest] \in Path /\ Temp[dest] \in Temporary
  BY NameAssumption DEF Temporary
<1>2. box[p] # Absent /\ UNCHANGED <<box, torn>>
  BY DEF Export, ExportFails, ExportDies, history
<1>3. PICK v \in Version \cup torn : box[p].chunks = Chunks(v)
  BY <1>2 DEF WholeInv, Boxed
<1>4. v \in Seq(Nat)
  BY ChunkAssumption DEF WholeInv
<1>5. /\ Whole(box[p].chunks) = v
      /\ Len(box[p].chunks) \in Nat
      /\ \A n \in 0 .. Len(box[p].chunks) : Whole(SubSeq(box[p].chunks, 1, n)) \in Seq(Nat)
  BY <1>3, <1>4, WholeOfChunks
<1>6. UNCHANGED incoming \/ Down
  BY DEF Export, ExportFails, ExportDies, memory
<1>7. PICK t \in Seq(Nat) \cup {Absent}, c \in {v} :
        \/ disk' = [disk EXCEPT ![Temp[dest]] = t, ![dest] = c]
        \/ disk' = [disk EXCEPT ![Temp[dest]] = t]
        \/ disk' = disk
  <2>1. CASE Export(p, dest, gui)
    BY <1>5, <2>1 DEF Export, ExportFile
  <2>2. CASE ExportFails(p, dest, gui)
    BY <2>2 DEF ExportFails, ExportFile
  <2>3. CASE ExportDies(p, dest, gui)
    <3>1. PICK n \in 0 .. (Len(box[p].chunks) - 1) :
            disk' = [disk EXCEPT ![ExportFile(dest)] = Whole(SubSeq(box[p].chunks, 1, n))]
      BY <2>3 DEF ExportDies
    <3>2. n \in 0 .. Len(box[p].chunks)
      BY <1>5
    <3> QED
      BY <1>5, <3>1, <3>2 DEF ExportFile
  <2> QED
    BY <2>1, <2>2, <2>3
<1>8. /\ disk' = [q \in Path |-> disk'[q]]
      /\ \A q \in Path : \/ disk'[q] = disk[q]
                         \/ q = Temp[dest] /\ disk'[q] = t
                         \/ disk'[q] = v
  BY <1>1, <1>7 DEF WholeInv
<1>9. /\ \A q \in Path : disk'[q] \in Seq(Nat) \cup {Absent}
      /\ \A q \in Path \ Temporary : disk'[q] \in Version \cup torn' \cup {Absent}
  BY <1>1, <1>2, <1>4, <1>7, <1>8 DEF WholeInv, NoPartialExport
<1>10. /\ incoming' = [x \in File |-> incoming'[x]]
       /\ \A x \in File : incoming'[x] \in Version \cup {None}
  BY <1>6, IncomingType
<1> QED
  BY <1>2, <1>8, <1>9, <1>10, WholeStep DEF WholeInv

\* The end of a transfer writes a version, or part of one if the process dies.
LEMMA WholePlain ==
  ASSUME WholeInv, NEW y \in File,
         \/ FinishPlain(y) \/ FinishUnparked(y) \/ PlainWriteDies(y)
         \/ \E c \in Version : WriteLocal(y, c)
  PROVE  WholeInv'
<1>1. y \in Path /\ y \notin Temporary /\ UNCHANGED box
  BY NotTemporary DEF FinishPlain, FinishUnparked, PlainWriteDies, WriteLocal
<1>2. Version \subseteq Seq(Nat)
  BY ChunkAssumption
<1>3. disk[y] \in Version \cup torn \cup {Absent}
  BY <1>1 DEF WholeInv, NoPartialExport
<1>4. \A p \in Path : Parked(y, incoming[y])[p] \in {disk[p], disk[y]}
  BY DEF Parked, WholeInv
<1>5. Parked(y, incoming[y]) = [p \in Path |-> Parked(y, incoming[y])[p]]
  BY DEF Parked, WholeInv
<1>6. PICK c, d :
        /\ c \in Seq(Nat)
        /\ disk' = [d EXCEPT ![y] = c]
        /\ d = Parked(y, incoming[y]) \/ d = disk
        /\ c \in Version \cup torn'
        /\ torn' \in {torn, torn \cup {c}}
  <2>1. CASE FinishPlain(y)
    <3>1. incoming[y] \in Version
      BY <2>1 DEF FinishPlain, WholeInv
    <3> QED
      BY <1>2, <2>1, <3>1 DEF FinishPlain
  <2>2. CASE FinishUnparked(y)
    <3>1. incoming[y] \in Version
      BY <2>2 DEF FinishUnparked, WholeInv
    <3> QED
      BY <1>2, <2>2, <3>1 DEF FinishUnparked
  <2>3. CASE PlainWriteDies(y)
    <3> DEFINE v == incoming[y]
    <3>1. v \in Seq(Nat)
      BY <1>2, <2>3 DEF PlainWriteDies, WholeInv
    <3>2. PICK n \in 0 .. (Len(Chunks(v)) - 1) :
            /\ disk' = [Parked(y, v) EXCEPT ![y] = Whole(SubSeq(Chunks(v), 1, n))]
            /\ torn' = torn \cup {Whole(SubSeq(Chunks(v), 1, n))}
      BY <2>3 DEF PlainWriteDies
    <3> HIDE DEF v
    <3>3. Len(Chunks(v)) \in Nat
      BY <3>1, WholeOfChunks
    <3>4. n \in 0 .. Len(Chunks(v))
      BY <3>3
    <3>5. Whole(SubSeq(Chunks(v), 1, n)) \in Seq(Nat)
      BY <3>1, <3>4, WholeOfChunks
    <3> QED
      BY <3>2, <3>5 DEF v
  <2>4. ASSUME NEW c \in Version, WriteLocal(y, c)
        PROVE  disk' = [disk EXCEPT ![y] = c] /\ torn' = torn /\ c \in Seq(Nat)
    BY <1>2, <2>4 DEF WriteLocal, history
  <2> QED
    BY <2>1, <2>2, <2>3, <2>4
<1>7. /\ d = [p \in Path |-> d[p]]
      /\ \A p \in Path : d[p] \in {disk[p], disk[y]}
  BY <1>4, <1>5, <1>6 DEF WholeInv
<1>8. /\ disk' = [p \in Path |-> disk'[p]]
      /\ \A p \in Path : disk'[p] \in {disk[p], disk[y], c}
  BY <1>1, <1>6, <1>7
<1>9. torn \subseteq torn' /\ torn' \subseteq Seq(Nat)
  BY <1>6 DEF WholeInv
<1>10. /\ \A p \in Path : disk'[p] \in Seq(Nat) \cup {Absent}
       /\ \A p \in Path \ Temporary : disk'[p] \in Version \cup torn' \cup {Absent}
  BY <1>2, <1>3, <1>6, <1>8, <1>9 DEF WholeInv, NoPartialExport
<1>11. UNCHANGED incoming \/ Down \/ Done(y)
  BY DEF FinishPlain, FinishUnparked, PlainWriteDies, WriteLocal, memory
<1>12. /\ incoming' = [x \in File |-> incoming'[x]]
       /\ \A x \in File : incoming'[x] \in Version \cup {None}
  BY <1>11, IncomingType
<1> QED
  BY <1>1, <1>8, <1>9, <1>10, <1>12, WholeStep DEF WholeInv

LEMMA WholeVault ==
  ASSUME WholeInv, NEW y \in File, FinishVault(y) \/ VaultWriteDies(y)
  PROVE  WholeInv'
<1> DEFINE v == incoming[y]
<1>1. v \in Version /\ v \in Seq(Nat) /\ UNCHANGED <<disk, torn>> /\ y \in Path
  BY ChunkAssumption, NotTemporary DEF FinishVault, VaultWriteDies, WholeInv, history
<1>2. PICK c : box' = [box EXCEPT ![y] = c] /\ Boxed(c, torn)
  <2>1. /\ Boxed(Container(vaultKey, Chunks(v)), torn)
        /\ \A n \in 0 .. (Units(Chunks(v)) - 1) :
             Boxed(Truncated(Container(vaultKey, Chunks(v)), n), torn)
    BY <1>1, BoxedContainer
  <2> QED
    BY <2>1 DEF FinishVault, VaultWriteDies
<1>3. /\ box' = [p \in Path |-> box'[p]]
      /\ \A p \in Path : box'[p] = box[p] \/ Boxed(box'[p], torn')
  BY <1>1, <1>2 DEF WholeInv
<1>4. Down \/ Done(y)
  BY DEF FinishVault, VaultWriteDies
<1>5. /\ incoming' = [x \in File |-> incoming'[x]]
      /\ \A x \in File : incoming'[x] \in Version \cup {None}
  BY <1>4, IncomingType
<1> QED
  BY <1>1, <1>3, <1>5, WholeStep DEF WholeInv, NoPartialExport

LEMMA WholeNext == WholeInv /\ [Next]_vars => WholeInv'
<1> SUFFICES ASSUME WholeInv, [Next]_vars PROVE WholeInv'
  OBVIOUS
<1>1. CASE UNCHANGED vars \/ User
  BY <1>1, WholeQuiet, WholeUser DEF User
<1>2. CASE Lifecycle
  BY <1>2, WholeQuiet
<1>3. CASE Vault
  BY <1>3, WholeImport, WholeExport DEF Vault
<1>4. ASSUME NEW x \in File, Transfer(x)
      PROVE  WholeInv'
  BY <1>4, WholeQuiet, WholePlain, WholeVault DEF Transfer
<1> QED
  BY <1>1, <1>2, <1>3, <1>4 DEF Next

\* No name but a temporary one holds part of a file, unless a death left it
\* there at the end of a transfer: exports are whole, the invariant
\* NoPartialExport (storage.rs, the temporary file and the rename).
THEOREM NoPartialExportHolds == Spec => []NoPartialExport
<1>1. WholeInv => NoPartialExport
  BY DEF WholeInv
<1> QED
  BY WholeInit, WholeNext, <1>1, PTL DEF Spec

\* The hashes listed of a plain file are the chunks that are read.
LEMMA PlainServed ==
  ASSUME NEW v \in Seq(Nat), NEW i \in DOMAIN ChunkHashes(v)
  PROVE  /\ ReadAt(v, (i - 1) * ChunkSize) = ChunkHashes(v)[i]
         /\ ChunkHashes(v)[i] # <<>>
<1>1. v # <<>>
  BY DEF ChunkHashes
<1>2. ChunkHashes(v) = Chunks(v) /\ i \in 1 .. TotalChunks(v)
  BY <1>1 DEF ChunkHashes, Chunks
<1>3. Len(Chunks(v)[i]) # 0 /\ Chunks(v)[i] = ReadAt(v, Offset(i - 1))
  BY <1>1, <1>2, ChunkBytes
<1>4. Offset(i - 1) = (i - 1) * ChunkSize
  <2>1. i - 1 \in Int
    BY <1>1, <1>2, TotalBounds
  <2> QED
    BY <2>1, ChunkAssumption DEF Offset
<1>5. Len(<<>>) = 0
  OBVIOUS
<1> QED
  BY <1>2, <1>3, <1>4, <1>5

\* Every chunk but the last of a container that can be listed is there.
LEMMA VaultServed ==
  ASSUME NEW c, NEW left, left \subseteq Seq(Nat), Boxed(c, left), Listable(c),
         NEW i \in DOMAIN c.chunks, i < Len(c.chunks)
  PROVE  Opens(c, i - 1, c.key) /\ (i - 1) + 1 = i
<1>1. PICK v \in Version \cup left : c.chunks = Chunks(v)
  BY DEF Boxed
<1>2. v \in Seq(Nat)
  BY <1>1, ChunkAssumption
<1>3. c.chunks \in Seq(Seq(Nat)) /\ Len(c.chunks) \in Nat /\ c.written \in Nat
  BY <1>1, <1>2, WholeOfChunks DEF Boxed
<1>4. c.written >= 2 * Len(c.chunks)
  BY DEF Listable
<1> HIDE <1>1
<1>5. i \in Nat \ {0}
  BY <1>3
<1>6. i - 1 < Len(c.chunks) /\ c.written >= 2 * (i - 1) + 3 /\ (i - 1) + 1 = i
  BY <1>3, <1>4, <1>5
<1> QED
  BY <1>6 DEF Opens

\* What a running node lists it can serve with the key it has in memory, whatever
\* was imported beside it and whenever starts, switches and writes died, but for
\* names that are refused and the last chunk of a container that was cut short:
\* the invariant ListedIsServed (storage.rs, read_local_chunk_plain beside the
\* walks).  The key in memory is the one on disk (KeyInv), which opens what every
\* import and transfer wrote; a listing shows what is whole but for its last
\* block (WholeInv).
THEOREM ListedIsServedHolds == Spec => []ListedIsServed
<1>1. KeyInv /\ WholeInv => ListedIsServed
  <2> SUFFICES ASSUME KeyInv, WholeInv, up, ~ replaced,
                      NEW p \in Listed \ Refused, NEW i \in DOMAIN Listing(p),
                      ~ vaultMode \/ i < Len(Listing(p))
               PROVE  Serves(p, i - 1, Listing(p)[i])
    BY DEF ListedIsServed
  <2>1. CASE ~ vaultMode
    <3>1. disk[p] \in Seq(Nat) /\ Listing(p) = ChunkHashes(disk[p])
      BY <2>1 DEF Listed, ListedPlain, Listing, WholeInv
    <3> QED
      BY <2>1, <3>1, PlainServed DEF Serves
  <2>2. CASE vaultMode
    <3>1. /\ p \in Path /\ box[p] # Absent /\ Listable(box[p])
          /\ Listing(p) = box[p].chunks
      BY <2>2 DEF Listed, ListedVault, Listing
    <3>2. Boxed(box[p], torn) /\ torn \subseteq Seq(Nat)
      BY <3>1 DEF WholeInv
    <3>3. box[p].key = vaultKey
      BY <2>2, <3>1 DEF KeyInv
    <3>4. Opens(box[p], i - 1, box[p].key) /\ (i - 1) + 1 = i
      BY <2>2, <3>1, <3>2, VaultServed
    <3> QED
      BY <2>2, <3>1, <3>3, <3>4 DEF Serves
  <2> QED
    BY <2>1, <2>2
<1> QED
  BY KeyInit, KeyNext, WholeInit, WholeNext, <1>1, PTL DEF Spec

=============================================================================
