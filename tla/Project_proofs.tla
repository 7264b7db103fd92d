---------------------------- MODULE Project_proofs ----------------------------
(***************************************************************************)
(* Theorems about the components of MCProject: saving a project, and the   *)
(* cache directories.                                                      *)
(***************************************************************************)
EXTENDS MCProject, FiniteSetTheorems, SequenceTheorems, NatLemmas, TLAPS

-----------------------------------------------------------------------------
(* ProjectFiles: types, and the samples *)

Assets == [hash : Contents, relpath : {0}]
Storages == [asset_hashes : Seq(Assets), resources : Seq(Contents), todo : Seq(Contents), dest : Int]
Docs == [version : -1..MaxVersion, resources : Seq(Contents), asset_hashes : Seq(Assets)]
FilesTypes ==
  /\ FilesTypeOK
  /\ file \in Docs /\ backups \in [DOMAIN backups -> Docs] /\ DOMAIN backups \subseteq 0..clock
  /\ doc \in [version : 0..MaxVersion, uses : Seq(Contents)] /\ crashes \in 0..(bmax - 1)
  /\ storage \in Storages

\* While a sample is copied its destination is a file just made.
CopyInv ==
  pc = "copy" => /\ storage.todo # <<>>
                 /\ storage.dest \in 0..MaxCopies /\ copies[storage.dest] = "partial"

\* What is going to be referred to by the document is in the directory.
Present(content) == \E i \in 0..MaxCopies : copies[i] = content
SamplesInv ==
  /\ SamplesPresent
  /\ \A h \in ToSet(storage.resources) : Present(h)
  /\ \A a \in ToSet(storage.asset_hashes) : Present(a.hash)

\* The saved version is the project file until it becomes a backup.  Later there
\* are at most as many newer backups as the process died since, fewer when one
\* more file waits to become a backup; so it is never pruned.
Before == {"idle", "mkdirs", "marker", "backup"}
Newer(t) == {u \in DOMAIN backups : u > t}
SavedIsFile == pc \in Before /\ Complete(file) /\ file.version = saved
SavedIsBackup(t) ==
  /\ t \in DOMAIN backups /\ Complete(backups[t]) /\ backups[t].version = saved
  /\ Cardinality(Newer(t)) <= crashes
  /\ pc \in Before /\ Exists(file) => t < clock /\ Cardinality(Newer(t)) < crashes
SavedInv == saved > 0 /\ ~warned => SavedIsFile \/ \E t : SavedIsBackup(t)

FilesInv == FilesTypes /\ CopyInv /\ SamplesInv /\ SavedInv

LEMMA DocumentTypes == NoFile \in Docs /\ PartialFile \in Docs
<1>1. MaxVersion \in Nat
  BY ProjectFilesAssumption
<1>2. <<>> \in Seq(Contents) /\ <<>> \in Seq(Assets)
  OBVIOUS
<1>3. PartialFile = [version |-> 0, resources |-> <<>>, asset_hashes |-> <<>>]
  BY DEF PartialFile, NoFile
<1>4. -1 \in -1..MaxVersion /\ 0 \in -1..MaxVersion
  BY <1>1
<1> QED
  BY <1>2, <1>3, <1>4 DEF NoFile, Docs

LEMMA NoStorageType == NoStorage \in Storages
<1>1. <<>> \in Seq(Contents) /\ <<>> \in Seq(Assets)
  OBVIOUS
<1> QED
  BY <1>1 DEF NoStorage, Storages

LEMMA FilesStart == FilesInit => FilesInv
<1> SUFFICES ASSUME FilesInit PROVE FilesInv
  OBVIOUS
<1> USE DEF FilesInit
<1>0. MaxVersion \in Nat /\ MaxClock \in Nat /\ MaxCopies \in Nat /\ bmax \in Nat \ {0, 1}
  BY ProjectFilesAssumption
<1>1. DOMAIN backups = {} /\ <<>> \in Seq(Contents)
  OBVIOUS
<1>2. FilesTypeOK
  <2>1. copies \in [0..MaxCopies -> Contents \cup {"none", "partial"}]
    OBVIOUS
  <2>2. clock \in 0..MaxClock /\ saved \in 0..MaxVersion
    BY <1>0
  <2> QED
    BY <1>1, <2>1, <2>2 DEF FilesTypeOK
<1>3. backups \in [DOMAIN backups -> Docs]
  BY <1>1
<1>4. FilesTypes
  BY <1>0, <1>1, <1>2, <1>3, DocumentTypes, NoStorageType DEF FilesTypes
<1>5. CopyInv
  BY DEF CopyInv
<1>6. SavedInv
  BY DEF SavedInv
<1>7. ToSet(storage.resources) = {} /\ ToSet(storage.asset_hashes) = {}
  BY DEF NoStorage, ToSet
<1>8. SamplesPresent
  <2>1. Documents = {NoFile}
    BY <1>1 DEF Documents
  <2> QED
    BY <2>1 DEF SamplesPresent, Complete, NoFile
<1> QED
  BY <1>4, <1>5, <1>6, <1>7, <1>8 DEF FilesInv, SamplesInv

\* Where the archive writer puts a sample is free or has the sample.
LEMMA DestFree ==
  ASSUME FilesTypes, NEW content, HasDest(content)
  PROVE  Dest(content) \in 0..MaxCopies /\ ~Taken(Dest(content), content)
<1> DEFINE T == {i \in 0..MaxCopies : ~Taken(i, content)}
<1>0. MaxCopies \in Nat
  BY ProjectFilesAssumption
<1>1. T \subseteq Nat /\ T # {}
  BY <1>0 DEF HasDest
<1>2. PICK n \in T : \A m \in T : n <= m
  BY <1>1, LeastNat
<1>3. \A k \in 0..(n - 1) : Taken(k, content)
  BY <1>0, <1>2
<1>4. \E i \in 0..MaxCopies : ~Taken(i, content) /\ \A k \in 0..(i - 1) : Taken(k, content)
  BY <1>2, <1>3
<1> QED
  BY <1>4 DEF Dest

\* The steps of save_project that may change samples.
LEMMA CopiesKept ==
  ASSUME FilesTypes, CopyInv, [FilesNext]_filesVars
  PROVE  \A i \in 0..MaxCopies : Whole(copies[i]) => copies'[i] = copies[i]
<1> SUFFICES ASSUME NEW i \in 0..MaxCopies, Whole(copies[i]) PROVE copies'[i] = copies[i]
  OBVIOUS
<1>0. copies \in [0..MaxCopies -> Contents \cup {"none", "partial"}]
  BY DEF FilesTypes, FilesTypeOK
<1>1. CASE writer_collect
  <2> DEFINE c == Head(storage.todo)
  <2>1. CASE copies' = copies
    BY <2>1
  <2>2. CASE HasDest(c) /\ copies[Dest(c)] # c /\ copies' = [copies EXCEPT ![Dest(c)] = "partial"]
    <3>1. copies[Dest(c)] = "none"
      BY <2>2, DestFree DEF Taken
    <3> QED
      BY <1>0, <2>2, <3>1 DEF Whole
  <2> QED
    BY <1>1, <2>1, <2>2 DEF writer_collect
<1>2. CASE copy_file
  <2>1. storage.dest \in 0..MaxCopies /\ copies[storage.dest] = "partial"
    BY <1>2 DEF copy_file, CopyInv
  <2> QED
    BY <1>0, <1>2, <2>1 DEF copy_file, Whole
<1>3. CASE copies' = copies
  BY <1>3
<1> QED
  BY <1>1, <1>2, <1>3 DEF FilesNext, filesVars, Tick, Edit, SaveStart, mkdirs, make_anklang_dir, Backup,
     OpenWriter, Serialized, store_file_data, CloseWriter, remove_opened, Crash, load_project

LEMMA PresentKept ==
  ASSUME FilesTypes, CopyInv, [FilesNext]_filesVars, NEW content \in Contents, Present(content)
  PROVE  Present(content)'
<1>1. PICK i \in 0..MaxCopies : copies[i] = content
  BY DEF Present
<1>2. Whole(copies[i])
  BY <1>1, ProjectFilesAssumption DEF Whole
<1>3. copies'[i] = content
  BY <1>1, <1>2, CopiesKept
<1> QED
  BY <1>3 DEF Present

LEMMA UsesAreSeq ==
  ASSUME NEW uses \in {<<>>} \cup {<<c>> : c \in Contents} \cup (Contents \X Contents)
  PROVE  uses \in Seq(Contents)
<1>1. CASE uses \in Contents \X Contents
  <2>1. PICK a \in Contents, b \in Contents : uses = <<a, b>>
    BY <1>1
  <2> QED
    BY <2>1
<1>2. CASE uses \in {<<c>> : c \in Contents}
  <2>1. PICK c \in Contents : uses = <<c>>
    BY <1>2
  <2> QED
    BY <2>1
<1>3. CASE uses = <<>>
  BY <1>3
<1> QED
  BY <1>1, <1>2, <1>3

LEMMA StorageFields ==
  ASSUME NEW st \in Storages
  PROVE  /\ st.asset_hashes \in Seq(Assets) /\ st.resources \in Seq(Contents) /\ st.todo \in Seq(Contents)
         /\ st.dest \in Int
  BY DEF Storages

LEMMA WithTodo ==
  ASSUME NEW st \in Storages, NEW t \in Seq(Contents), NEW next, next = [st EXCEPT !.todo = t]
  PROVE  next \in Storages /\ next.asset_hashes = st.asset_hashes /\ next.resources = st.resources
  BY DEF Storages

LEMMA WithDest ==
  ASSUME NEW st \in Storages, NEW d \in Int, NEW next, next = [st EXCEPT !.dest = d]
  PROVE  next \in Storages /\ next.asset_hashes = st.asset_hashes /\ next.resources = st.resources
         /\ next.todo = st.todo /\ next.dest = d
  BY DEF Storages

\* What a step does to the storage.
StorageStep ==
  LET c == Head(storage.todo) IN
  \/ storage' = storage
  \/ /\ storage' \in Storages /\ storage'.asset_hashes = <<>> /\ storage'.resources = <<>>
  \/ /\ storage' \in Storages /\ storage'.asset_hashes = storage.asset_hashes /\ storage'.resources = storage.resources
  \/ /\ pc = "collect" /\ storage.todo # <<>> /\ Known(c)
     /\ storage' \in Storages
     /\ storage'.asset_hashes = storage.asset_hashes /\ storage'.resources = Append(storage.resources, c)
  \/ /\ storage.todo # <<>> /\ \E i \in 0..MaxCopies : copies'[i] = c
     /\ storage' \in Storages
     /\ storage'.asset_hashes = Append(storage.asset_hashes, [hash |-> c, relpath |-> 0])
     /\ storage'.resources = Append(storage.resources, c)

LEMMA StorageSteps == ASSUME FilesTypes, CopyInv, [FilesNext]_filesVars PROVE StorageStep
<1> DEFINE c == Head(storage.todo)
<1>0. storage \in Storages /\ doc.uses \in Seq(Contents) /\ MaxCopies \in Nat
      /\ copies \in [0..MaxCopies -> Contents \cup {"none", "partial"}]
  BY ProjectFilesAssumption DEF FilesTypes, FilesTypeOK
<1>a. -1 \in Int /\ storage.asset_hashes \in Seq(Assets) /\ storage.resources \in Seq(Contents)
      /\ storage.todo \in Seq(Contents) /\ storage.dest \in Int
  BY <1>0, StorageFields
<1>b. NoStorage \in Storages /\ NoStorage.asset_hashes = <<>> /\ NoStorage.resources = <<>>
  BY NoStorageType DEF NoStorage
<1> DEFINE rest == Tail(storage.todo)
           resources == Append(storage.resources, c)
           assets == Append(storage.asset_hashes, [hash |-> c, relpath |-> 0])
<1>1. ASSUME storage.todo # <<>>
      PROVE  rest \in Seq(Contents) /\ resources \in Seq(Contents) /\ assets \in Seq(Assets)
  <2>1. c \in Contents /\ Tail(storage.todo) \in Seq(Contents)
    BY <1>a, <1>1
  <2>2. [hash |-> c, relpath |-> 0] \in Assets
    BY <2>1 DEF Assets
  <2> QED
    BY <1>a, <2>1, <2>2
<1>2. ASSUME storage.todo # <<>>, storage' = Collected(c), \E i \in 0..MaxCopies : copies'[i] = c PROVE StorageStep
  <2>1. storage' = [storage EXCEPT !.asset_hashes = assets, !.resources = resources, !.todo = rest, !.dest = -1]
    BY <1>2 DEF Collected
  <2>2. storage' \in Storages /\ storage'.asset_hashes = assets /\ storage'.resources = resources
    <3>1. rest \in Seq(Contents) /\ resources \in Seq(Contents) /\ assets \in Seq(Assets)
      BY <1>1, <1>2
    <3> HIDE DEF rest, resources, assets
    <3> QED
      BY <1>0, <1>a, <2>1, <3>1 DEF Storages
  <2> QED
    BY <1>2, <2>2 DEF StorageStep
<1>4. CASE SaveStart
  <2>1. CASE storage' = [NoStorage EXCEPT !.todo = doc.uses]
    <3>1. storage' \in Storages /\ storage'.asset_hashes = <<>> /\ storage'.resources = <<>>
      BY <1>0, <1>b, <2>1, WithTodo
    <3> QED
      BY <3>1 DEF StorageStep
  <2> QED
    BY <1>4, <2>1 DEF SaveStart, StorageStep
<1>5. CASE writer_collect
  <2>1. storage.todo # <<>> /\ pc = "collect"
    BY <1>5 DEF writer_collect
  <2>2. CASE Known(c) /\ storage' = [storage EXCEPT !.resources = Append(@, c), !.todo = Tail(@)]
    <3>1. storage' \in Storages /\ storage'.asset_hashes = storage.asset_hashes /\ storage'.resources = resources
      <4>1. rest \in Seq(Contents) /\ resources \in Seq(Contents)
        BY <1>1, <2>1
      <4>2. storage' = [storage EXCEPT !.resources = resources, !.todo = rest]
        BY <2>2
      <4> HIDE DEF rest, resources
      <4> QED
        BY <1>0, <4>1, <4>2 DEF Storages
    <3> QED
      BY <2>1, <2>2, <3>1 DEF StorageStep
  <2>3. CASE HasDest(c) /\ copies[Dest(c)] = c /\ storage' = Collected(c) /\ UNCHANGED copies
    <3>1. \E i \in 0..MaxCopies : copies'[i] = c
      BY <2>3, DestFree
    <3> QED
      BY <1>2, <2>1, <2>3, <3>1
  <2>4. CASE HasDest(c) /\ storage' = [storage EXCEPT !.dest = Dest(c)]
    <3>1. Dest(c) \in Int
      BY <1>0, <2>4, DestFree
    <3>2. storage' \in Storages /\ storage'.asset_hashes = storage.asset_hashes
          /\ storage'.resources = storage.resources
      BY <1>0, <2>4, <3>1, WithDest
    <3> QED
      BY <3>2 DEF StorageStep
  <2> QED
    BY <1>5, <2>2, <2>3, <2>4 DEF writer_collect
<1>6. CASE copy_file
  <2>1. storage.todo # <<>> /\ storage.dest \in 0..MaxCopies
    BY <1>6 DEF copy_file, CopyInv
  <2>2. CASE copies' = [copies EXCEPT ![storage.dest] = c] /\ storage' = Collected(c)
    <3>1. copies'[storage.dest] = c
      BY <1>0, <2>1, <2>2
    <3> QED
      BY <1>2, <2>1, <2>2, <3>1
  <2>3. CASE storage' = [storage EXCEPT !.todo = Tail(@), !.dest = -1]
    <3>1. storage' \in Storages /\ storage'.asset_hashes = storage.asset_hashes
          /\ storage'.resources = storage.resources
      <4>1. rest \in Seq(Contents)
        BY <1>1, <2>1
      <4>2. storage' = [storage EXCEPT !.todo = rest, !.dest = -1]
        BY <2>3
      <4> HIDE DEF rest
      <4> QED
        BY <1>0, <1>a, <4>1, <4>2 DEF Storages
    <3> QED
      BY <3>1 DEF StorageStep
  <2> QED
    BY <1>6, <2>2, <2>3 DEF copy_file
<1>7. CASE storage' \in {storage, NoStorage}
  BY <1>0, <1>b, <1>7 DEF StorageStep
<1> QED
  BY <1>4, <1>5, <1>6, <1>7 DEF FilesNext, filesVars, Tick, Edit, mkdirs, make_anklang_dir, Backup,
     OpenWriter, Serialized, store_file_data, CloseWriter, remove_opened, Crash, load_project

LEMMA FilesTypesKept == ASSUME FilesTypes, CopyInv, [FilesNext]_filesVars PROVE FilesTypes'
<1>0. MaxVersion \in Nat /\ MaxClock \in Nat /\ MaxCopies \in Nat /\ bmax \in Nat \ {0, 1}
  BY ProjectFilesAssumption
<1> USE DEF FilesTypes, FilesTypeOK, Goto
<1>1. clock' \in clock..MaxClock /\ crashes' \in 0..(bmax - 1) /\ saved' \in 0..MaxVersion
  <2>1. CASE Tick
    BY <1>0, <2>1 DEF Tick
  <2>2. CASE Crash
    BY <1>0, <2>2 DEF Crash
  <2>3. CASE CloseWriter
    BY <1>0, <2>3 DEF CloseWriter
  <2>4. CASE UNCHANGED <<clock, crashes, saved>>
    BY <1>0, <2>4
  <2> QED
    BY <2>1, <2>2, <2>3, <2>4 DEF FilesNext, filesVars, Edit, SaveStart, mkdirs, make_anklang_dir, Backup,
       OpenWriter, writer_collect, copy_file, Serialized, store_file_data, remove_opened, load_project
<1>2. marker' \in BOOLEAN /\ warned' \in BOOLEAN
  BY DEF FilesNext, filesVars, Tick, Edit, SaveStart, mkdirs, make_anklang_dir, Backup, OpenWriter,
     writer_collect, copy_file, Serialized, store_file_data, CloseWriter, remove_opened, Crash, load_project
<1>3. pc' \in {"idle", "mkdirs", "marker", "backup", "open", "collect", "copy", "store", "close", "remove"}
  BY DEF FilesNext, filesVars, Tick, Edit, SaveStart, mkdirs, make_anklang_dir, Backup, OpenWriter,
     writer_collect, copy_file, Serialized, store_file_data, CloseWriter, remove_opened, Crash, load_project
<1>4. copies' \in [0..MaxCopies -> Contents \cup {"none", "partial"}]
  <2>1. CASE copy_file
    <3>1. Head(storage.todo) \in Contents
      BY <2>1, StorageFields DEF copy_file, CopyInv
    <3> QED
      BY <2>1, <3>1 DEF copy_file
  <2>2. CASE writer_collect
    BY <2>2 DEF writer_collect
  <2>3. CASE UNCHANGED copies
    BY <2>3
  <2> QED
    BY <2>1, <2>2, <2>3 DEF FilesNext, filesVars, Tick, Edit, SaveStart, mkdirs, make_anklang_dir, Backup,
       OpenWriter, Serialized, store_file_data, CloseWriter, remove_opened, Crash, load_project
<1>5. doc' \in [version : 0..MaxVersion, uses : Seq(Contents)]
  <2>1. CASE Edit
    <3>1. PICK uses \in {<<>>} \cup {<<c>> : c \in Contents} \cup (Contents \X Contents) :
            doc' = [version |-> doc.version + 1, uses |-> uses]
      BY <2>1 DEF Edit
    <3>2. doc.version + 1 \in 0..MaxVersion
      BY <1>0, <2>1 DEF Edit
    <3> QED
      BY <3>1, <3>2, UsesAreSeq
  <2>2. CASE load_project
    <3>1. file.version \in 0..MaxVersion /\ file.resources \in Seq(Contents)
      BY <1>0, <2>2 DEF load_project, Complete, Docs
    <3> QED
      BY <2>2, <3>1 DEF load_project
  <2>3. CASE UNCHANGED doc
    BY <2>3
  <2> QED
    BY <2>1, <2>2, <2>3 DEF FilesNext, filesVars, Tick, SaveStart, mkdirs, make_anklang_dir, Backup, OpenWriter,
       writer_collect, copy_file, Serialized, store_file_data, CloseWriter, remove_opened, Crash
<1>6. file' \in Docs
  <2>1. CASE CloseWriter
    <3>1. Document(doc.version, storage) \in Docs
      BY <1>0, StorageFields DEF Document, Docs
    <3> QED
      BY <2>1, <3>1, DocumentTypes DEF CloseWriter
  <2>2. CASE file' \in {file, NoFile, PartialFile}
    BY <2>2, DocumentTypes
  <2> QED
    BY <2>1, <2>2 DEF FilesNext, filesVars, Tick, Edit, SaveStart, mkdirs, make_anklang_dir, Backup, OpenWriter,
       writer_collect, copy_file, Serialized, store_file_data, remove_opened, Crash, load_project
<1>7. backups' \in [DOMAIN backups' -> Docs] /\ DOMAIN backups' \subseteq 0..clock'
  <2>1. CASE UNCHANGED backups
    BY <1>1, <2>1
  <2>2. CASE Backup /\ backups' = [t \in Pruned(DOMAIN backups \cup {clock}) |->
                                     IF t = clock THEN file ELSE backups[t]]
    <3>1. DOMAIN backups' \subseteq DOMAIN backups \cup {clock}
      BY <2>2 DEF Pruned
    <3>2. clock \in 0..clock /\ clock' = clock
      BY <2>2 DEF Backup
    <3> QED
      BY <2>2, <3>1, <3>2
  <2> QED
    BY <2>1, <2>2 DEF FilesNext, filesVars, Tick, Edit, SaveStart, mkdirs, make_anklang_dir, Backup, OpenWriter,
       writer_collect, copy_file, Serialized, store_file_data, CloseWriter, remove_opened, Crash, load_project
<1>8. clock' \in 0..MaxClock /\ DOMAIN backups' \subseteq 0..MaxClock
  BY <1>0, <1>1, <1>7
<1>9. FilesTypeOK'
  BY <1>1, <1>2, <1>3, <1>4, <1>8
<1> QED
  BY <1>1, <1>5, <1>6, <1>7, <1>9, StorageSteps DEF StorageStep

LEMMA CopyKept == ASSUME FilesTypes, CopyInv, [FilesNext]_filesVars PROVE CopyInv'
<1>0. copies \in [0..MaxCopies -> Contents \cup {"none", "partial"}] /\ storage.todo \in Seq(Contents)
  BY StorageFields DEF FilesTypes, FilesTypeOK
<1> SUFFICES ASSUME pc' = "copy" PROVE CopyInv'
  BY DEF CopyInv
<1>1. CASE writer_collect
  <2> DEFINE c == Head(storage.todo)
  <2>1. /\ HasDest(c) /\ storage.todo # <<>> /\ storage' = [storage EXCEPT !.dest = Dest(c)]
        /\ copies' = [copies EXCEPT ![Dest(c)] = "partial"]
    BY <1>1 DEF writer_collect
  <2>2. Dest(c) \in 0..MaxCopies
    BY <2>1, DestFree
  <2>3. storage'.dest = Dest(c) /\ storage'.todo = storage.todo
    <3>1. Dest(c) \in Int /\ storage \in Storages
      BY <2>2, ProjectFilesAssumption DEF FilesTypes
    <3> QED
      BY <2>1, <3>1, WithDest
  <2> QED
    BY <1>0, <2>1, <2>2, <2>3 DEF CopyInv
<1>2. CASE pc = "copy" /\ UNCHANGED <<storage, copies>>
  BY <1>2 DEF CopyInv
<1> QED
  BY <1>1, <1>2 DEF FilesNext, filesVars, Goto, Tick, Edit, SaveStart, mkdirs, make_anklang_dir, Backup,
     OpenWriter, copy_file, Serialized, store_file_data, CloseWriter, remove_opened, Crash, load_project

LEMMA ElementsOfAppend ==
  ASSUME NEW S, NEW s \in Seq(S), NEW x \in S PROVE ToSet(Append(s, x)) = ToSet(s) \cup {x}
<1>1. Len(Append(s, x)) = Len(s) + 1 /\ Append(s, x)[Len(s) + 1] = x
      /\ \A i \in 1..Len(s) : Append(s, x)[i] = s[i]
  OBVIOUS
<1>2. DOMAIN s = 1..Len(s) /\ DOMAIN Append(s, x) = 1..(Len(s) + 1) /\ Len(s) \in Nat
  OBVIOUS
<1>3. ASSUME NEW y \in ToSet(Append(s, x)) PROVE y \in ToSet(s) \cup {x}
  <2>1. PICK i \in 1..(Len(s) + 1) : y = Append(s, x)[i]
    BY <1>2 DEF ToSet
  <2> QED
    BY <1>1, <1>2, <2>1 DEF ToSet
<1>4. ASSUME NEW y \in ToSet(s) \cup {x} PROVE y \in ToSet(Append(s, x))
  BY <1>1, <1>2 DEF ToSet
<1> QED
  BY <1>3, <1>4

LEMMA ElementsOfSeq == ASSUME NEW S, NEW s \in Seq(S) PROVE ToSet(s) \subseteq S
  BY DEF ToSet

LEMMA NoElements == ToSet(<<>>) = {}
  BY DEF ToSet

\* Where the documents after a step are from.
LEMMA DocumentsAfter ==
  ASSUME FilesTypes, [FilesNext]_filesVars, NEW d \in Documents'
  PROVE  \/ d \in Documents \cup {NoFile, PartialFile}
         \/ CloseWriter /\ d = Document(doc.version, storage)
<1>1. CASE d = file'
  BY <1>1 DEF Documents, FilesNext, filesVars, Tick, Edit, SaveStart, mkdirs, make_anklang_dir, Backup, OpenWriter,
     writer_collect, copy_file, Serialized, store_file_data, CloseWriter, remove_opened, Crash, load_project
<1>2. CASE \E t \in DOMAIN backups' : d = backups'[t]
  <2>1. PICK t \in DOMAIN backups' : d = backups'[t]
    BY <1>2
  <2>2. CASE UNCHANGED backups
    BY <2>1, <2>2 DEF Documents
  <2>3. CASE backups' = [u \in Pruned(DOMAIN backups \cup {clock}) |-> IF u = clock THEN file ELSE backups[u]]
    <3>1. t \in DOMAIN backups \cup {clock}
      BY <2>1, <2>3 DEF Pruned
    <3> QED
      BY <2>1, <2>3, <3>1 DEF Documents
  <2> QED
    BY <2>2, <2>3 DEF FilesNext, filesVars, Tick, Edit, SaveStart, mkdirs, make_anklang_dir, Backup, OpenWriter,
       writer_collect, copy_file, Serialized, store_file_data, CloseWriter, remove_opened, Crash, load_project
<1> QED
  BY <1>1, <1>2 DEF Documents

LEMMA DocumentsTyped == ASSUME FilesTypes, NEW d \in Documents PROVE d \in Docs /\ Hashes(d) \subseteq Contents
<1>1. d \in Docs
  BY DEF FilesTypes, Documents
<1>2. d.resources \in Seq(Contents)
  BY <1>1 DEF Docs
<1> QED
  BY <1>1, <1>2, ElementsOfSeq DEF Hashes

LEMMA SamplesStay == ASSUME FilesTypes, CopyInv, SamplesInv, [FilesNext]_filesVars PROVE SamplesInv'
<1>0. storage \in Storages /\ storage.resources \in Seq(Contents) /\ storage.asset_hashes \in Seq(Assets)
      /\ storage.todo \in Seq(Contents)
  BY StorageFields DEF FilesTypes
<1>a. ToSet(storage.resources) \subseteq Contents /\ ToSet(storage.asset_hashes) \subseteq Assets
  BY <1>0, ElementsOfSeq
<1>b. \A content \in Contents : Present(content) => \E i \in 0..MaxCopies : copies'[i] = content
  BY PresentKept DEF Present
<1>1. SamplesPresent'
  <2> SUFFICES ASSUME NEW d \in Documents', Complete(d), NEW h \in Hashes(d)
               PROVE  \E i \in 0..MaxCopies : copies'[i] = h
    BY DEF SamplesPresent, Complete, Hashes, ToSet
  <2>1. CASE d \in Documents
    <3>1. h \in Contents
      BY <2>1, DocumentsTyped
    <3>2. Present(h)
      BY <2>1 DEF SamplesInv, SamplesPresent, Present
    <3> QED
      BY <1>b, <3>1, <3>2
  <2>2. CASE d \in {NoFile, PartialFile}
    BY <2>2 DEF Complete, NoFile, PartialFile
  <2>3. CASE d = Document(doc.version, storage)
    <3>1. h \in ToSet(storage.resources)
      BY <2>3 DEF Document, Hashes
    <3> QED
      BY <1>a, <1>b, <3>1 DEF SamplesInv
  <2> QED
    BY <2>1, <2>2, <2>3, DocumentsAfter
<1>2. /\ \A h \in ToSet(storage'.resources) : \E i \in 0..MaxCopies : copies'[i] = h
      /\ \A a \in ToSet(storage'.asset_hashes) : \E i \in 0..MaxCopies : copies'[i] = a.hash
  <2> DEFINE c == Head(storage.todo)
             asset == [hash |-> c, relpath |-> 0]
  <2>1. /\ \A h \in ToSet(storage.resources) : \E i \in 0..MaxCopies : copies'[i] = h
        /\ \A a \in ToSet(storage.asset_hashes) : \E i \in 0..MaxCopies : copies'[i] = a.hash
    BY <1>a, <1>b DEF SamplesInv, Assets
  <2>2. CASE storage'.resources = <<>> /\ storage'.asset_hashes = <<>>
    BY <2>2, NoElements
  <2>3. CASE storage'.resources = storage.resources /\ storage'.asset_hashes = storage.asset_hashes
    BY <2>1, <2>3
  <2>a. ASSUME storage.todo # <<>> PROVE c \in Contents /\ asset \in Assets
    <3>1. c \in Contents
      BY <1>0, <2>a
    <3> QED
      BY <3>1 DEF Assets
  <2>4. CASE /\ storage.todo # <<>> /\ Known(c)
             /\ storage'.asset_hashes = storage.asset_hashes /\ storage'.resources = Append(storage.resources, c)
    <3>1. \E i \in 0..MaxCopies : copies'[i] = c
      BY <2>1, <2>4 DEF Known, ToSet
    <3>2. ToSet(storage'.resources) = ToSet(storage.resources) \cup {c}
      BY <1>0, <2>4, <2>a, ElementsOfAppend
    <3> QED
      BY <2>1, <2>4, <3>1, <3>2
  <2>5. CASE /\ storage.todo # <<>> /\ \E i \in 0..MaxCopies : copies'[i] = c
             /\ storage'.asset_hashes = Append(storage.asset_hashes, asset)
             /\ storage'.resources = Append(storage.resources, c)
    <3>1. ToSet(storage'.resources) = ToSet(storage.resources) \cup {c}
      BY <1>0, <2>5, <2>a, ElementsOfAppend
    <3>2. ToSet(storage'.asset_hashes) = ToSet(storage.asset_hashes) \cup {asset}
      BY <1>0, <2>5, <2>a, ElementsOfAppend
    <3> QED
      BY <2>1, <2>5, <3>1, <3>2
  <2> QED
    BY <2>2, <2>3, <2>4, <2>5, StorageSteps DEF StorageStep
<1> QED
  BY <1>1, <1>2 DEF SamplesInv, Present

-----------------------------------------------------------------------------
(* ProjectFiles: the version saved last *)

LEMMA NewerFinite ==
  ASSUME FilesTypes, NEW t
  PROVE  IsFiniteSet(Newer(t)) /\ Cardinality(Newer(t)) \in Nat
<1>1. clock \in Int /\ Newer(t) \subseteq 0..clock
  BY DEF FilesTypes, FilesTypeOK, Newer
<1>2. IsFiniteSet(0..clock)
  BY <1>1, FS_Interval
<1>3. IsFiniteSet(Newer(t))
  BY <1>1, <1>2, FS_Subset
<1> QED
  BY <1>3, FS_CardinalityType

\* The number of newer backups after a step that makes one.
LEMMA BackupKeeps ==
  ASSUME FilesTypes, Backup, NEW t \in DOMAIN backups, t < clock, Cardinality(Newer(t)) < crashes,
         backups' = [u \in Pruned(DOMAIN backups \cup {clock}) |-> IF u = clock THEN file ELSE backups[u]]
  PROVE  /\ t \in DOMAIN backups' /\ backups'[t] = backups[t]
         /\ Cardinality({u \in DOMAIN backups' : u > t}) <= crashes
<1> DEFINE times == DOMAIN backups \cup {clock}
           N == Newer(t)
           later == N \cup {clock}
           since == later \cup {t}
<1>0. /\ clock \in Nat /\ DOMAIN backups \subseteq 0..clock /\ crashes \in Nat /\ bmax \in Nat
      /\ crashes <= bmax - 1 /\ t \in Nat
  BY ProjectFilesAssumption DEF FilesTypes, FilesTypeOK
<1>1. IsFiniteSet(N) /\ Cardinality(N) \in Nat
  BY NewerFinite
<1>2. IsFiniteSet(later) /\ Cardinality(later) \in Nat /\ Cardinality(later) <= crashes
  <2>1. IsFiniteSet(later) /\ Cardinality(later) = IF clock \in N THEN Cardinality(N) ELSE Cardinality(N) + 1
    BY <1>1, FS_AddElement
  <2> HIDE DEF N, later
  <2>2. Cardinality(N) < crashes
    BY DEF N
  <2> QED
    BY <1>0, <1>1, <2>1, <2>2
<1>3. IsFiniteSet(since) /\ Cardinality(since) \in Nat /\ Cardinality(since) <= bmax
  <2>1. IsFiniteSet(since)
        /\ Cardinality(since) = IF t \in later THEN Cardinality(later) ELSE Cardinality(later) + 1
    BY <1>2, FS_AddElement
  <2> HIDE DEF later, since
  <2> QED
    BY <1>0, <1>2, <2>1
<1>4. {u \in times : u >= t} \subseteq since
  BY <1>0 DEF Newer
<1>5. t \in Pruned(times)
  <2>1. Cardinality({u \in times : u >= t}) <= Cardinality(since) /\ Cardinality({u \in times : u >= t}) \in Nat
    BY <1>3, <1>4, FS_Subset, FS_CardinalityType
  <2> QED
    BY <1>0, <1>3, <2>1 DEF Pruned
<1>6. {u \in Pruned(times) : u > t} \subseteq later
  BY <1>0 DEF Newer, Pruned
<1>7. Cardinality({u \in Pruned(times) : u > t}) <= crashes
  <2>1. Cardinality({u \in Pruned(times) : u > t}) <= Cardinality(later)
        /\ Cardinality({u \in Pruned(times) : u > t}) \in Nat
    BY <1>2, <1>6, FS_Subset, FS_CardinalityType
  <2> QED
    BY <1>0, <1>2, <2>1
<1>8. DOMAIN backups' = Pruned(times) /\ backups'[t] = backups[t]
  BY <1>0, <1>5
<1> QED
  BY <1>5, <1>7, <1>8

LEMMA SavedStays == ASSUME FilesTypes, CopyInv, SavedInv, [FilesNext]_filesVars PROVE SavedInv'
<1> SUFFICES ASSUME saved' > 0, ~warned' PROVE SavedIsFile' \/ \E t : SavedIsBackup(t)'
  BY DEF SavedInv
<1> USE DEF Goto
<1>0. /\ clock \in Nat /\ crashes \in Nat /\ saved \in Nat /\ DOMAIN backups \subseteq 0..clock
      /\ \A t \in DOMAIN backups : t \in Nat /\ t <= clock
  BY DEF FilesTypes, FilesTypeOK
<1>1. CASE CloseWriter /\ file' = Document(doc.version, storage) /\ saved' = doc.version
  BY <1>1 DEF CloseWriter, SavedIsFile, Before, Document, Complete
<1>2. CASE Crash
  <2>1. saved > 0 /\ ~warned /\ UNCHANGED <<file, backups, saved>>
    BY <1>2 DEF Crash
  <2>2. CASE SavedIsFile
    BY <1>2, <2>1, <2>2 DEF Crash, SavedIsFile, Before, Complete
  <2>3. ASSUME NEW t, SavedIsBackup(t) PROVE SavedIsBackup(t)'
    <3>1. Newer(t)' = Newer(t) /\ Cardinality(Newer(t)) \in Nat
      BY <2>1, NewerFinite DEF Newer
    <3> QED
      BY <1>0, <1>2, <2>1, <2>3, <3>1 DEF Crash, SavedIsBackup, Complete, Exists
  <2> QED
    BY <2>1, <2>2, <2>3 DEF SavedInv
<1>3. CASE Backup
  <2>1. saved > 0 /\ UNCHANGED <<saved, crashes, clock>> /\ pc' \in {"open", "idle"}
    BY <1>3 DEF Backup
  <2>2. CASE UNCHANGED <<file, backups, warned>>
    <3>1. ~warned
      BY <2>2
    <3>2. CASE pc' = "idle"
      <4>1. pc \in Before /\ pc' \in Before
        BY <1>3, <3>2 DEF Backup, Before
      <4>2. \A t : Newer(t)' = Newer(t)
        BY <2>2 DEF Newer
      <4> QED
        BY <2>1, <2>2, <3>1, <4>1, <4>2 DEF SavedInv, SavedIsFile, SavedIsBackup, Complete, Exists
    <3>3. CASE pc' = "open" /\ ~Exists(file)
      <4>1. ~SavedIsFile
        BY <3>3 DEF SavedIsFile, Complete, Exists, NoFile
      <4>2. \A t : Newer(t)' = Newer(t)
        BY <2>2 DEF Newer
      <4> QED
        BY <2>1, <2>2, <3>1, <3>3, <4>1, <4>2 DEF SavedInv, SavedIsBackup, Complete, Exists, Before
    <3> QED
      BY <1>3, <2>2, <3>1, <3>2, <3>3 DEF Backup, Exists
  <2>3. CASE /\ Exists(file) /\ pc' = "open" /\ file' = NoFile /\ UNCHANGED warned
             /\ backups' = [u \in Pruned(DOMAIN backups \cup {clock}) |-> IF u = clock THEN file ELSE backups[u]]
    <3>1. ~warned /\ pc' \notin Before
      BY <2>3 DEF Before
    <3>2. CASE SavedIsFile
      <4> DEFINE times == DOMAIN backups \cup {clock}
      <4>1. {u \in times : u >= clock} = {clock} /\ {u \in Pruned(times) : u > clock} = {}
        BY <1>0 DEF Pruned
      <4>2. Cardinality({clock}) = 1 /\ Cardinality({}) = 0
        BY FS_Singleton, FS_EmptySet
      <4>3. clock \in Pruned(times)
        BY <4>1, <4>2, ProjectFilesAssumption DEF Pruned
      <4>4. clock \in DOMAIN backups' /\ backups'[clock] = file /\ Newer(clock)' = {}
        <5>1. Newer(clock)' = {u \in DOMAIN backups' : u > clock}
          BY <2>1 DEF Newer
        <5> QED
          BY <2>3, <4>1, <4>3, <5>1
      <4>5. SavedIsBackup(clock)'
        BY <1>0, <2>1, <3>1, <3>2, <4>2, <4>4 DEF SavedIsBackup, SavedIsFile, Complete
      <4> QED
        BY <4>5
    <3>3. ASSUME NEW t, SavedIsBackup(t), ~SavedIsFile PROVE SavedIsBackup(t)'
      <4>1. t < clock /\ Cardinality(Newer(t)) < crashes /\ t \in DOMAIN backups
        <5>1. pc \in Before
          BY <1>3 DEF Backup, Before
        <5> QED
          BY <2>3, <3>3, <5>1 DEF SavedIsBackup
      <4>2. /\ t \in DOMAIN backups' /\ backups'[t] = backups[t]
            /\ Cardinality({u \in DOMAIN backups' : u > t}) <= crashes
        BY <1>3, <2>3, <4>1, BackupKeeps
      <4>3. Newer(t)' = {u \in DOMAIN backups' : u > t}
        BY DEF Newer
      <4> QED
        BY <2>1, <3>1, <3>3, <4>2, <4>3 DEF SavedIsBackup, Complete
    <3> QED
      BY <2>1, <3>1, <3>2, <3>3 DEF SavedInv
  <2> QED
    BY <1>3, <2>2, <2>3 DEF Backup
<1>4. CASE /\ UNCHANGED <<backups, saved, warned, crashes, clock>>
           /\ pc \notin Before /\ (pc' \in Before => file' = NoFile)
  <2>1. ~SavedIsFile /\ ~warned /\ saved > 0
    BY <1>4 DEF SavedIsFile
  <2>2. PICK t : SavedIsBackup(t)
    BY <2>1 DEF SavedInv
  <2>3. Newer(t)' = Newer(t)
    BY <1>4 DEF Newer
  <2>4. SavedIsBackup(t)'
    BY <1>4, <2>2, <2>3 DEF SavedIsBackup, Complete, Exists
  <2> QED
    BY <2>4
<1>5. CASE UNCHANGED <<file, backups, saved, warned, crashes>> /\ clock' >= clock /\ (pc' \in Before <=> pc \in Before)
  <2>1. CASE SavedIsFile
    BY <1>5, <2>1 DEF SavedIsFile, Complete
  <2>2. ASSUME NEW t, SavedIsBackup(t) PROVE SavedIsBackup(t)'
    <3>1. Newer(t)' = Newer(t)
      BY <1>5 DEF Newer
    <3>2. clock' \in Int /\ t \in Nat
      BY <1>0, <2>2, FilesTypesKept DEF SavedIsBackup, FilesTypes, FilesTypeOK
    <3>3. /\ t \in DOMAIN backups' /\ Complete(backups[t])' /\ backups'[t].version = saved'
          /\ Cardinality(Newer(t))' <= crashes'
      BY <1>5, <2>2, <3>1 DEF SavedIsBackup, Complete
    <3>4. pc' \in Before /\ Exists(file)' => t < clock' /\ Cardinality(Newer(t))' < crashes'
      BY <1>0, <1>5, <2>2, <3>1, <3>2 DEF SavedIsBackup, Exists
    <3> QED
      BY <3>3, <3>4 DEF SavedIsBackup
  <2> QED
    BY <1>5, <2>1, <2>2 DEF SavedInv
<1> QED
  <2>0. clock \in Int /\ clock >= clock
    BY <1>0
  <2>1. CASE Tick
    BY <1>0, <1>5, <2>1 DEF Tick
  <2>2. CASE UNCHANGED filesVars
    BY <1>5, <2>0, <2>2 DEF filesVars
  <2>3. CASE Edit \/ load_project
    BY <1>5, <2>0, <2>3 DEF Edit, load_project
  <2>4. CASE SaveStart
    BY <1>5, <2>0, <2>4 DEF SaveStart, Before
  <2>5. CASE mkdirs \/ make_anklang_dir
    BY <1>5, <2>0, <2>5 DEF mkdirs, make_anklang_dir, Before
  <2>6. CASE writer_collect \/ copy_file \/ Serialized \/ store_file_data
    BY <1>5, <2>0, <2>6 DEF writer_collect, copy_file, Serialized, store_file_data, Before
  <2>7. CASE CloseWriter
    BY <1>1, <1>4, <2>7 DEF CloseWriter, Before
  <2>8. CASE OpenWriter \/ remove_opened
    BY <1>4, <2>8 DEF OpenWriter, remove_opened, Before
  <2> QED
    BY <1>2, <1>3, <2>1, <2>2, <2>3, <2>4, <2>5, <2>6, <2>7, <2>8 DEF FilesNext

LEMMA FilesKeep == ASSUME FilesInv, [FilesNext]_filesVars PROVE FilesInv'
  BY FilesTypesKept, CopyKept, SamplesStay, SavedStays DEF FilesInv

LEMMA SavedFound == FilesInv => SavedSurvives
<1> SUFFICES ASSUME FilesInv, saved > 0, ~warned PROVE \E d \in Documents : Complete(d) /\ d.version = saved
  BY DEF SavedSurvives
<1>1. CASE SavedIsFile
  BY <1>1 DEF SavedIsFile, Documents
<1>2. CASE \E t : SavedIsBackup(t)
  BY <1>2 DEF SavedIsBackup, Documents
<1> QED
  BY <1>1, <1>2 DEF FilesInv, SavedInv

-----------------------------------------------------------------------------
(* Cache directories *)

CacheLabels == {"dead", "out", "clean", "rmrf", "mkdtemp", "open", "write", "use", "exit"}
Directory == [there : BOOLEAN, by : Processes, guard : Processes \cup {"none", "empty"}]
Process(n) == [pc : CacheLabels, todo : SUBSET (1..n), doomed : 0..n, dir : 0..n, list : Seq(1..n)]
CacheTypes ==
  /\ cdirs \in Seq(Directory)
  /\ cprocs \in [Processes -> Process(Len(cdirs))]
  /\ cghost \in [misread : SUBSET (DOMAIN cdirs), crashed : SUBSET (DOMAIN cdirs),
                 stale : [Processes -> SUBSET (DOMAIN cdirs)]]

\* Whose directory it is, and what its guard tells.
DirOf(p) == cprocs[p].dir
OwnOf(p) ==
  /\ DirOf(p) # 0 => cdirs[DirOf(p)].by = p /\ cprocs[p].pc \in {"open", "write", "use"}
  /\ At(p, "dead") => DirOf(p) = 0 /\ cprocs[p].list = <<>>
  /\ At(p, "open") => DirOf(p) # 0 /\ cdirs[DirOf(p)].guard = "none"
  /\ At(p, "write") => DirOf(p) # 0 /\ cdirs[DirOf(p)].guard = "empty"
  /\ At(p, "use") /\ DirOf(p) # 0 => cdirs[DirOf(p)].guard = p
  /\ \A d \in ToSet(cprocs[p].list) : cdirs[d].by = p
GuardOf(d) == cdirs[d].guard \in {"none", "empty", cdirs[d].by}
OwnInv == (\A p \in Processes : OwnOf(p)) /\ \A d \in DOMAIN cdirs : GuardOf(d)

\* A directory nobody uses any more.
Left(d) == \A p \in Processes : DirOf(p) # d
DoomedOf(p) ==
  At(p, "rmrf") => /\ cprocs[p].doomed \in DOMAIN cdirs
                   /\ cprocs[p].doomed \in cghost.misread \/ Left(cprocs[p].doomed)

\* A stale directory stays recognizable until it is removed.
StaleOf(p) ==
  cprocs[p].pc \in {"clean", "rmrf", "mkdtemp"} => \A d \in cghost.stale[p] :
    /\ Left(d) /\ cdirs[d].guard \notin {"none", p}
    /\ cdirs[d].guard \in Processes => ~Live(cdirs[d].guard)
    /\ There(d) => \/ (~At(p, "mkdtemp") /\ d \in cprocs[p].todo)
                  \/ (At(p, "rmrf") /\ d = cprocs[p].doomed)

\* Who is going to remove a directory.
OwnedOf(d) ==
  There(d) => \/ d \in cghost.crashed
              \/ d \in ToSet(cprocs[cdirs[d].by].list)
              \/ (DirOf(cdirs[d].by) = d /\ cprocs[cdirs[d].by].pc \in {"open", "write"})
OwnedInv == \A d \in DOMAIN cdirs : OwnedOf(d)

CacheInv ==
  /\ CacheTypes /\ OwnInv /\ DirKept /\ OwnedInv
  /\ \A p \in Processes : DoomedOf(p) /\ StaleOf(p)

-----------------------------------------------------------------------------
(* Cache directories: what the steps change *)

LEMMA ProcessFields ==
  ASSUME NEW n \in Nat, NEW r \in Process(n)
  PROVE  /\ r.pc \in CacheLabels /\ r.todo \subseteq 1..n /\ r.doomed \in 0..n
         /\ r.dir \in 0..n /\ r.list \in Seq(1..n)
  BY DEF Process

LEMMA NewProcessType ==
  ASSUME NEW n \in Nat, NEW label \in CacheLabels
  PROVE  /\ NewProcess(label) \in Process(n)
         /\ NewProcess(label).pc = label /\ NewProcess(label).dir = 0 /\ NewProcess(label).list = <<>>
<1>1. <<>> \in Seq(1..n) /\ 0 \in 0..n
  OBVIOUS
<1> QED
  BY <1>1 DEF NewProcess, Process

\* A process goes on to the next step.
LEMMA Entering ==
  ASSUME NEW n \in Nat, NEW r \in Process(n), NEW label \in CacheLabels, NEW next, next = [r EXCEPT !.pc = label]
  PROVE  /\ next \in Process(n) /\ next.pc = label /\ next.todo = r.todo /\ next.doomed = r.doomed
         /\ next.dir = r.dir /\ next.list = r.list
  BY DEF Process

\* More directories do no harm to the others.
LEMMA ProcessGrows ==
  ASSUME NEW n \in Nat, NEW r \in Process(n) PROVE r \in Process(n + 1)
<1>1. 1..n \subseteq 1..(n + 1) /\ 0..n \subseteq 0..(n + 1)
  OBVIOUS
<1>2. r.list \in Seq(1..(n + 1))
  BY <1>1 DEF Process
<1> QED
  BY <1>1, <1>2 DEF Process

LEMMA DirectoryFields ==
  ASSUME NEW r \in Directory
  PROVE  r.there \in BOOLEAN /\ r.by \in Processes /\ r.guard \in Processes \cup {"none", "empty"}
  BY DEF Directory

LEMMA OneElement ==
  ASSUME NEW S, NEW s \in Seq(S), NEW i \in DOMAIN s, NEW x \in S, NEW t, t = [s EXCEPT ![i] = x]
  PROVE  t \in Seq(S) /\ Len(t) = Len(s) /\ t[i] = x /\ \A j \in DOMAIN s \ {i} : t[j] = s[j]
  OBVIOUS

LEMMA RemovedOnly ==
  ASSUME CacheTypes, NEW d \in DOMAIN cdirs, rmrf(d)
  PROVE  /\ cdirs' \in Seq(Directory) /\ Len(cdirs') = Len(cdirs)
         /\ \A e \in DOMAIN cdirs : cdirs'[e].by = cdirs[e].by /\ cdirs'[e].guard = cdirs[e].guard
         /\ \A e \in DOMAIN cdirs : cdirs'[e].there = IF e = d THEN FALSE ELSE cdirs[e].there
<1>0. cdirs \in Seq(Directory)
  BY DEF CacheTypes
<1>1. \A e \in DOMAIN cdirs : cdirs[e] \in Directory
  BY <1>0
<1> DEFINE r == [cdirs[d] EXCEPT !.there = FALSE]
<1>3. r \in Directory /\ r.by = cdirs[d].by /\ r.guard = cdirs[d].guard /\ r.there = FALSE
  BY <1>1 DEF Directory
<1>2. cdirs' = [cdirs EXCEPT ![d] = r]
  BY DEF rmrf
<1> HIDE DEF r
<1>4. cdirs' \in Seq(Directory) /\ Len(cdirs') = Len(cdirs) /\ cdirs'[d] = r
      /\ \A e \in DOMAIN cdirs \ {d} : cdirs'[e] = cdirs[e]
  BY <1>0, <1>2, <1>3, OneElement
<1> QED
  BY <1>1, <1>3, <1>4, DirectoryFields

LEMMA GuardedOnly ==
  ASSUME CacheTypes, NEW d \in DOMAIN cdirs, NEW guard \in Processes \cup {"none", "empty"},
         cdirs' = [cdirs EXCEPT ![d].guard = guard]
  PROVE  /\ cdirs' \in Seq(Directory) /\ Len(cdirs') = Len(cdirs)
         /\ \A e \in DOMAIN cdirs : cdirs'[e].by = cdirs[e].by /\ cdirs'[e].there = cdirs[e].there
         /\ \A e \in DOMAIN cdirs : cdirs'[e].guard = IF e = d THEN guard ELSE cdirs[e].guard
<1>0. cdirs \in Seq(Directory)
  BY DEF CacheTypes
<1>1. \A e \in DOMAIN cdirs : cdirs[e] \in Directory
  BY <1>0
<1> DEFINE r == [cdirs[d] EXCEPT !.guard = guard]
<1>3. r \in Directory /\ r.by = cdirs[d].by /\ r.guard = guard /\ r.there = cdirs[d].there
  BY <1>1 DEF Directory
<1>2. cdirs' = [cdirs EXCEPT ![d] = r]
  OBVIOUS
<1> HIDE DEF r
<1>4. cdirs' \in Seq(Directory) /\ Len(cdirs') = Len(cdirs) /\ cdirs'[d] = r
      /\ \A e \in DOMAIN cdirs \ {d} : cdirs'[e] = cdirs[e]
  BY <1>0, <1>2, <1>3, OneElement
<1> QED
  BY <1>1, <1>3, <1>4, DirectoryFields

Others(p) == \A q \in Processes \ {p} : cprocs'[q] = cprocs[q]
SameDirectories ==
  /\ cdirs' \in Seq(Directory) /\ Len(cdirs') = Len(cdirs)
  /\ \A d \in DOMAIN cdirs : cdirs'[d].by = cdirs[d].by

LEMMA CacheFacts ==
  ASSUME CacheTypes
  PROVE  /\ Len(cdirs) \in Nat /\ DOMAIN cdirs = 1..Len(cdirs)
         /\ \A d \in DOMAIN cdirs : cdirs[d] \in Directory
         /\ \A p \in Processes : cprocs[p] \in Process(Len(cdirs))
         /\ cghost.misread \subseteq DOMAIN cdirs /\ cghost.crashed \subseteq DOMAIN cdirs
         /\ \A p \in Processes : cghost.stale[p] \subseteq DOMAIN cdirs
<1>1. cdirs \in Seq(Directory)
  BY DEF CacheTypes
<1>2. Len(cdirs) \in Nat /\ DOMAIN cdirs = 1..Len(cdirs) /\ \A d \in DOMAIN cdirs : cdirs[d] \in Directory
  BY <1>1
<1>3. cghost.misread \subseteq DOMAIN cdirs /\ cghost.crashed \subseteq DOMAIN cdirs
      /\ \A p \in Processes : cghost.stale[p] \subseteq DOMAIN cdirs
  BY DEF CacheTypes
<1> QED
  BY <1>2, <1>3 DEF CacheTypes

\* A step of a process that makes no directory.
LEMMA ProcessStep ==
  ASSUME CacheTypes, NEW p \in Processes, NEW r \in Process(Len(cdirs)), Becomes(p, r), SameDirectories
  PROVE  /\ cprocs' \in [Processes -> Process(Len(cdirs'))] /\ cprocs'[p] = r /\ Others(p)
         /\ DOMAIN cdirs' = DOMAIN cdirs
  BY CacheFacts DEF CacheTypes, Becomes, SameDirectories, Others

\* A step of a process that has no directory and changes none.
Idle == {"out", "clean", "rmrf", "mkdtemp", "exit"}
QuietStep(p) ==
  /\ cdirs' = cdirs /\ Others(p)
  /\ cprocs[p].pc \in Idle /\ cprocs'[p].pc \in Idle
  /\ cprocs'[p].dir = cprocs[p].dir /\ cprocs'[p].list = cprocs[p].list
  /\ cghost.misread \subseteq cghost'.misread /\ cghost'.crashed = cghost.crashed
  /\ \A q \in Processes \ {p} : cghost'.stale[q] = cghost.stale[q]

LEMMA QuietKeeps ==
  ASSUME CacheInv, NEW p \in Processes, QuietStep(p)
  PROVE  /\ OwnInv' /\ DirKept' /\ OwnedInv'
         /\ \A q \in Processes \ {p} : DoomedOf(q)' /\ StaleOf(q)'
<1>1. \A q \in Processes : /\ cprocs'[q].dir = cprocs[q].dir /\ cprocs'[q].list = cprocs[q].list
                            /\ \A label \in {"dead", "open", "write", "use"} : At(q, label)' <=> At(q, label)
  BY DEF QuietStep, Others, At, Idle
<1>2. OwnInv'
  BY <1>1 DEF CacheInv, OwnInv, OwnOf, GuardOf, DirOf, QuietStep, At
<1>3. DirKept'
  BY <1>1 DEF CacheInv, DirKept, There, QuietStep, At
<1>4. OwnedInv'
  BY <1>1, CacheFacts DEF CacheInv, OwnedInv, OwnedOf, DirOf, There, QuietStep, At, Directory
<1>5. ASSUME NEW q \in Processes \ {p} PROVE DoomedOf(q)' /\ StaleOf(q)'
  BY <1>1 DEF CacheInv, DoomedOf, StaleOf, Left, DirOf, There, Live, QuietStep, Others, At
<1> QED
  BY <1>2, <1>3, <1>4, <1>5

LEMMA SamePlaces == CacheTypes /\ UNCHANGED cdirs => SameDirectories
  BY DEF CacheTypes, SameDirectories

\* What was stale when clean_stale() looked, and nobody can use any more.
LEMMA DeadLeft ==
  ASSUME CacheInv, NEW d \in DOMAIN cdirs, ~Live(cdirs[d].by) PROVE Left(d)
<1>1. cdirs[d] \in Directory
  BY CacheFacts DEF CacheInv
<1>2. At(cdirs[d].by, "dead") /\ cdirs[d].by \in Processes
  BY <1>1 DEF Live, At, Directory
<1>3. d # 0
  BY CacheFacts DEF CacheInv
<1> QED
  BY <1>2, <1>3 DEF CacheInv, OwnInv, OwnOf, GuardOf, Left

LEMMA SnapshotKeeps == ASSUME CacheInv, NEW p \in Processes, snapshot_project(p) PROVE CacheInv'
<1>1. cprocs[p] \in Process(Len(cdirs)) /\ Len(cdirs) \in Nat
  BY CacheFacts DEF CacheInv
<1> DEFINE r == [cprocs[p] EXCEPT !.pc = "mkdtemp"]
<1>2. r \in Process(Len(cdirs)) /\ r.pc = "mkdtemp" /\ r.dir = cprocs[p].dir /\ r.list = cprocs[p].list
  BY <1>1, Entering DEF CacheLabels
<1>3. Becomes(p, r) /\ UNCHANGED cdirs /\ At(p, "out") /\ cghost' = [cghost EXCEPT !.stale[p] = {}]
  BY DEF snapshot_project, Enters
<1> HIDE DEF r
<1>4. cprocs' \in [Processes -> Process(Len(cdirs'))] /\ cprocs'[p] = r /\ Others(p)
  BY <1>2, <1>3, ProcessStep, SamePlaces DEF CacheInv
<1>5. /\ cghost'.misread = cghost.misread /\ cghost'.crashed = cghost.crashed /\ cghost'.stale[p] = {}
      /\ \A q \in Processes \ {p} : cghost'.stale[q] = cghost.stale[q]
      /\ cghost' \in [misread : SUBSET (DOMAIN cdirs'), crashed : SUBSET (DOMAIN cdirs'),
                     stale : [Processes -> SUBSET (DOMAIN cdirs')]]
  BY <1>3 DEF CacheInv, CacheTypes
<1>6. QuietStep(p)
  BY <1>2, <1>3, <1>4, <1>5 DEF QuietStep, At, Idle
<1>7. CacheTypes' /\ DoomedOf(p)' /\ StaleOf(p)'
  BY <1>2, <1>3, <1>4, <1>5 DEF CacheInv, CacheTypes, DoomedOf, StaleOf, At
<1> QED
  BY <1>6, <1>7, QuietKeeps DEF CacheInv

LEMMA CleanKeeps == ASSUME CacheInv, NEW p \in Processes, clean_stale(p) PROVE CacheInv'
<1>1. cprocs[p] \in Process(Len(cdirs)) /\ Len(cdirs) \in Nat /\ DOMAIN cdirs = 1..Len(cdirs)
  BY CacheFacts DEF CacheInv
<1> DEFINE found == {d \in DOMAIN cdirs : There(d)}
           stale == {d \in found : ~Live(cdirs[d].by) /\ cdirs[d].guard # "none"}
           r == [cprocs[p] EXCEPT !.pc = "clean", !.todo = found]
<1>2. /\ r \in Process(Len(cdirs)) /\ r.pc = "clean" /\ r.dir = cprocs[p].dir /\ r.list = cprocs[p].list
      /\ r.todo = found
  <2>1. found \subseteq 1..Len(cdirs)
    BY <1>1
  <2> HIDE DEF found
  <2> QED
    BY <1>1, <2>1 DEF Process, CacheLabels
<1>3. Becomes(p, r) /\ UNCHANGED cdirs /\ At(p, "out") /\ cghost' = [cghost EXCEPT !.stale[p] = stale]
  BY DEF clean_stale
<1>a. stale \subseteq DOMAIN cdirs
  OBVIOUS
<1> HIDE DEF r
<1>4. cprocs' \in [Processes -> Process(Len(cdirs'))] /\ cprocs'[p] = r /\ Others(p)
  BY <1>2, <1>3, ProcessStep, SamePlaces DEF CacheInv
<1>5. /\ cghost'.misread = cghost.misread /\ cghost'.crashed = cghost.crashed /\ cghost'.stale[p] = stale
      /\ \A q \in Processes \ {p} : cghost'.stale[q] = cghost.stale[q]
      /\ cghost' \in [misread : SUBSET (DOMAIN cdirs'), crashed : SUBSET (DOMAIN cdirs'),
                     stale : [Processes -> SUBSET (DOMAIN cdirs')]]
  <2> HIDE DEF stale
  <2> QED
    BY <1>3, <1>a DEF CacheInv, CacheTypes
<1>6. QuietStep(p)
  BY <1>2, <1>3, <1>4, <1>5 DEF QuietStep, At, Idle
<1>7. CacheTypes' /\ DoomedOf(p)'
  BY <1>2, <1>3, <1>4, <1>5 DEF CacheInv, CacheTypes, DoomedOf, At
<1>8. StaleOf(p)'
  <2> SUFFICES ASSUME NEW d \in stale
               PROVE  /\ Left(d)' /\ cdirs[d].guard \notin {"none", p}
                      /\ cdirs[d].guard \in Processes => ~Live(cdirs[d].guard)'
                      /\ d \in r.todo
    BY <1>2, <1>3, <1>4, <1>5 DEF StaleOf, At
  <2>1. Left(d)'
    BY <1>6, DeadLeft, QuietKeeps, <1>2, <1>4 DEF Left, DirOf, Others
  <2>2. cdirs[d].guard \in {"empty", cdirs[d].by} /\ cdirs[d].by # p
    BY <1>3 DEF CacheInv, OwnInv, OwnOf, GuardOf, Live, At
  <2>3. "empty" \notin Processes /\ "none" \notin Processes
    BY ProjectFilesAssumption
  <2>4. cdirs[d].by \in Processes /\ ~Live(cdirs[d].by)
    BY CacheFacts, DirectoryFields DEF CacheInv
  <2>5. ~Live(cdirs[d].by)'
    BY <1>3, <1>4, <2>2, <2>4 DEF Others, Live
  <2> QED
    BY <1>2, <1>3, <2>1, <2>2, <2>3, <2>4, <2>5 DEF Live
<1> QED
  BY <1>6, <1>7, <1>8, QuietKeeps DEF CacheInv

LEMMA GhostStays ==
  ASSUME CacheTypes, UNCHANGED cghost, SameDirectories
  PROVE  cghost' \in [misread : SUBSET (DOMAIN cdirs'), crashed : SUBSET (DOMAIN cdirs'),
                    stale : [Processes -> SUBSET (DOMAIN cdirs')]]
<1>1. DOMAIN cdirs' = DOMAIN cdirs
  BY CacheFacts DEF SameDirectories
<1> QED
  BY <1>1 DEF CacheTypes

\* What reading the guard of d makes of it.
CheckStep(p, d) ==
  /\ Becomes(p, IF Stale(p, d) THEN [cprocs[p] EXCEPT !.pc = "rmrf", !.doomed = d, !.todo = @ \ {d}]
                ELSE [cprocs[p] EXCEPT !.todo = @ \ {d}])
  /\ cghost' = IF cdirs[d].guard = "empty" THEN [cghost EXCEPT !.misread = @ \cup {d}] ELSE cghost

LEMMA CheckKeeps == ASSUME CacheInv, NEW p \in Processes, check_guard(p) PROVE CacheInv'
<1>1. cprocs[p] \in Process(Len(cdirs)) /\ Len(cdirs) \in Nat /\ DOMAIN cdirs = 1..Len(cdirs)
  BY CacheFacts DEF CacheInv
<1>0. \E d \in cprocs[p].todo : CheckStep(p, d)
  BY Zenon DEF check_guard, CheckStep
<1>2. PICK d \in cprocs[p].todo : CheckStep(p, d)
  BY <1>0
<1>3. At(p, "clean") /\ UNCHANGED cdirs
  BY DEF check_guard
<1>4. d \in DOMAIN cdirs /\ cprocs[p].todo \ {d} \subseteq 1..Len(cdirs)
  BY <1>1, ProcessFields
<1>5. PICK r \in Process(Len(cdirs)) :
        /\ Becomes(p, r) /\ r.dir = cprocs[p].dir /\ r.list = cprocs[p].list /\ r.todo = cprocs[p].todo \ {d}
        /\ Stale(p, d) => r.pc = "rmrf" /\ r.doomed = d
        /\ ~Stale(p, d) => r.pc = "clean"
  <2>1. CASE Stale(p, d)
    <3> DEFINE rest == cprocs[p].todo \ {d}
               r == [cprocs[p] EXCEPT !.pc = "rmrf", !.doomed = d, !.todo = rest]
    <3>1. /\ r \in Process(Len(cdirs)) /\ r.pc = "rmrf" /\ r.doomed = d /\ r.dir = cprocs[p].dir
          /\ r.list = cprocs[p].list /\ r.todo = rest
      <4>1. rest \subseteq 1..Len(cdirs) /\ d \in 0..Len(cdirs)
        BY <1>1, <1>4
      <4> HIDE DEF rest
      <4> QED
        BY <1>1, <4>1 DEF Process, CacheLabels
    <3>2. Becomes(p, r)
      BY <1>2, <2>1 DEF CheckStep
    <3> HIDE DEF r
    <3> QED
      BY <2>1, <3>1, <3>2
  <2>2. CASE ~Stale(p, d)
    <3> DEFINE r == [cprocs[p] EXCEPT !.todo = @ \ {d}]
    <3>1. /\ r \in Process(Len(cdirs)) /\ r.pc = "clean" /\ r.dir = cprocs[p].dir
          /\ r.list = cprocs[p].list /\ r.todo = cprocs[p].todo \ {d}
      BY <1>1, <1>3, <1>4 DEF Process, CacheLabels, At
    <3>2. Becomes(p, r)
      BY <1>2, <2>2 DEF CheckStep
    <3> HIDE DEF r
    <3> QED
      BY <2>2, <3>1, <3>2
  <2> QED
    BY <2>1, <2>2
<1>6. cprocs' \in [Processes -> Process(Len(cdirs'))] /\ cprocs'[p] = r /\ Others(p)
  BY <1>3, <1>5, ProcessStep, SamePlaces DEF CacheInv
<1>7. /\ cghost.misread \subseteq cghost'.misread /\ cghost'.crashed = cghost.crashed
      /\ cghost'.stale = cghost.stale
      /\ cdirs[d].guard = "empty" => d \in cghost'.misread
      /\ cghost' \in [misread : SUBSET (DOMAIN cdirs'), crashed : SUBSET (DOMAIN cdirs'),
                     stale : [Processes -> SUBSET (DOMAIN cdirs')]]
  <2>1. CASE cdirs[d].guard = "empty"
    BY <1>2, <1>3, <1>4, <2>1 DEF CacheInv, CacheTypes, CheckStep
  <2>2. CASE cdirs[d].guard # "empty"
    BY <1>2, <1>3, <2>2 DEF CacheInv, CacheTypes, CheckStep
  <2> QED
    BY <2>1, <2>2
<1>a. r.pc \in {"rmrf", "clean"}
  BY <1>5
<1>8. QuietStep(p)
  BY <1>a, <1>3, <1>5, <1>6, <1>7 DEF QuietStep, At, Idle
<1>9. CacheTypes'
  BY <1>3, <1>6, <1>7 DEF CacheInv, CacheTypes
<1>10. \A e : Left(e)' <=> Left(e)
  BY <1>5, <1>6 DEF Left, DirOf, Others
<1>11. DoomedOf(p)'
  <2> SUFFICES ASSUME Stale(p, d), d \notin cghost'.misread PROVE Left(d)
    BY <1>3, <1>4, <1>5, <1>6, <1>10 DEF DoomedOf, At
  <2>0. cdirs[d].by \in Processes /\ cdirs[d].guard \in {"none", "empty", cdirs[d].by}
    BY <1>4, CacheFacts, DirectoryFields DEF CacheInv, OwnInv, GuardOf
  <2>1. cdirs[d].guard = cdirs[d].by /\ cdirs[d].by \in Processes
    BY <1>7, <2>0 DEF Stale
  <2> QED
    BY <1>4, <2>1, DeadLeft DEF Stale
<1>12. StaleOf(p)'
  <2> SUFFICES ASSUME NEW e \in cghost.stale[p]
               PROVE  /\ Left(e)' /\ cdirs[e].guard \notin {"none", p}
                      /\ cdirs[e].guard \in Processes => ~Live(cdirs[e].guard)'
                      /\ There(e) => \/ e \in r.todo
                                    \/ (r.pc = "rmrf" /\ e = r.doomed)
    <3>1. cghost'.stale[p] = cghost.stale[p] /\ cdirs' = cdirs
      BY <1>3, <1>7
    <3> QED
      BY <1>a, <3>1, <1>6 DEF StaleOf, At, There
  <2>1. /\ Left(e) /\ cdirs[e].guard \notin {"none", p}
        /\ cdirs[e].guard \in Processes => ~Live(cdirs[e].guard)
        /\ There(e) => e \in cprocs[p].todo
    BY <1>3 DEF CacheInv, StaleOf, At
  <2>2. e = d /\ There(e) => Stale(p, d)
    BY <2>1 DEF Stale, pid_string
  <2>3. cdirs[e].guard \in Processes => ~Live(cdirs[e].guard)'
    BY <1>3, <1>6, <2>1 DEF Live, Others
  <2> QED
    BY <1>3, <1>5, <1>10, <2>1, <2>2, <2>3
<1> QED
  BY <1>8, <1>9, <1>11, <1>12, QuietKeeps DEF CacheInv

\* A process goes on and changes nothing else.
LEMMA EnterKeeps ==
  ASSUME CacheInv, NEW p \in Processes, NEW label \in {"mkdtemp", "exit"}, Enters(p, label),
         UNCHANGED <<cdirs, cghost>>, cprocs[p].pc \in Idle,
         label = "mkdtemp" => At(p, "clean") /\ cprocs[p].todo = {}
  PROVE  CacheInv'
<1>1. cprocs[p] \in Process(Len(cdirs)) /\ Len(cdirs) \in Nat
  BY CacheFacts DEF CacheInv
<1> DEFINE r == [cprocs[p] EXCEPT !.pc = label]
<1>2. /\ r \in Process(Len(cdirs)) /\ r.pc = label /\ r.dir = cprocs[p].dir /\ r.list = cprocs[p].list
      /\ r.todo = cprocs[p].todo
  BY <1>1, Entering DEF CacheLabels
<1>3. Becomes(p, r)
  BY DEF Enters
<1> HIDE DEF r
<1>4. cprocs' \in [Processes -> Process(Len(cdirs'))] /\ cprocs'[p] = r /\ Others(p)
  BY <1>2, <1>3, ProcessStep, SamePlaces DEF CacheInv
<1>5. QuietStep(p)
  BY <1>2, <1>4 DEF QuietStep, At, Idle
<1>6. CacheTypes' /\ DoomedOf(p)'
  BY <1>2, <1>4 DEF CacheInv, CacheTypes, DoomedOf, At
<1>7. StaleOf(p)'
  BY <1>2, <1>4 DEF CacheInv, StaleOf, At, Left, DirOf, There, Live, Others
<1> QED
  BY <1>5, <1>6, <1>7, QuietKeeps DEF CacheInv

LEMMA RemoveStaleKeeps == ASSUME CacheInv, NEW p \in Processes, rmrf_stale(p) PROVE CacheInv'
<1> DEFINE d == cprocs[p].doomed
           r == [cprocs[p] EXCEPT !.pc = "clean"]
<1>1. cprocs[p] \in Process(Len(cdirs)) /\ Len(cdirs) \in Nat
  BY CacheFacts DEF CacheInv
<1>2. At(p, "rmrf") /\ d \in DOMAIN cdirs /\ rmrf(d) /\ UNCHANGED cghost /\ (d \in cghost.misread \/ Left(d))
  BY DEF CacheInv, rmrf_stale, DoomedOf
<1>3. /\ r \in Process(Len(cdirs)) /\ r.pc = "clean" /\ r.dir = cprocs[p].dir /\ r.list = cprocs[p].list
      /\ r.todo = cprocs[p].todo
  BY <1>1, Entering DEF CacheLabels
<1>4. Becomes(p, r)
  BY DEF rmrf_stale, Enters
<1> HIDE DEF r, d
<1>5. /\ cdirs' \in Seq(Directory) /\ Len(cdirs') = Len(cdirs)
      /\ \A e \in DOMAIN cdirs : cdirs'[e].by = cdirs[e].by /\ cdirs'[e].guard = cdirs[e].guard
      /\ \A e \in DOMAIN cdirs : cdirs'[e].there = IF e = d THEN FALSE ELSE cdirs[e].there
  BY <1>2, RemovedOnly DEF CacheInv
<1>6. SameDirectories
  BY <1>5 DEF SameDirectories
<1>7. /\ cprocs' \in [Processes -> Process(Len(cdirs'))] /\ cprocs'[p] = r /\ Others(p)
      /\ DOMAIN cdirs' = DOMAIN cdirs
  BY <1>3, <1>4, <1>6, ProcessStep DEF CacheInv
<1>8. CacheTypes'
  BY <1>2, <1>5, <1>6, <1>7, GhostStays DEF CacheInv, CacheTypes
<1>9. \A q \in Processes : /\ cprocs'[q].dir = cprocs[q].dir /\ cprocs'[q].list = cprocs[q].list
                            /\ \A label \in {"dead", "open", "write", "use"} : At(q, label)' <=> At(q, label)
  BY <1>2, <1>3, <1>7 DEF Others, At
<1>10. \A q \in Processes : cprocs[q].dir # 0 => cprocs[q].dir \in DOMAIN cdirs
  BY CacheFacts, ProcessFields DEF CacheInv
<1>11. \A q \in Processes : ToSet(cprocs[q].list) \subseteq DOMAIN cdirs
  <2>1. \A q \in Processes : cprocs[q].list \in Seq(DOMAIN cdirs)
    BY CacheFacts, ProcessFields DEF CacheInv
  <2> QED
    BY <2>1, ElementsOfSeq
<1>12. OwnInv'
  BY <1>5, <1>7, <1>9, <1>10, <1>11 DEF CacheInv, OwnInv, OwnOf, GuardOf, DirOf, At
<1>13. DirKept'
  BY <1>2, <1>5, <1>9, <1>10 DEF CacheInv, DirKept, There, At, Left, DirOf
<1>14. OwnedInv'
  <2> SUFFICES ASSUME NEW e \in DOMAIN cdirs, cdirs'[e].there
               PROVE  \/ e \in cghost.crashed
                      \/ e \in ToSet(cprocs'[cdirs[e].by].list)
                      \/ cprocs'[cdirs[e].by].dir = e /\ cprocs'[cdirs[e].by].pc \in {"open", "write"}
    BY <1>2, <1>5, <1>7 DEF OwnedInv, OwnedOf, DirOf, There
  <2>1. cdirs[e].by \in Processes /\ cdirs[e].there
    BY <1>5, CacheFacts, DirectoryFields DEF CacheInv
  <2> QED
    BY <1>9, <2>1 DEF CacheInv, OwnedInv, OwnedOf, DirOf, There, At
<1>15. ASSUME NEW q \in Processes PROVE DoomedOf(q)' /\ StaleOf(q)'
  <2>1. \A e : Left(e)' <=> Left(e)
    BY <1>9 DEF Left, DirOf
  <2>2. \A e \in DOMAIN cdirs : There(e)' => There(e) /\ e # d
    BY <1>5 DEF There
  <2>3. \A e : ~Live(e) /\ e \in Processes => ~Live(e)'
    BY <1>9 DEF Live, At
  <2>4. cghost.stale[q] \subseteq DOMAIN cdirs
    BY CacheFacts DEF CacheInv
  <2>5. CASE q = p
    BY <1>2, <1>3, <1>5, <1>7, <2>1, <2>2, <2>3, <2>4, <2>5 DEF CacheInv, DoomedOf, StaleOf, At, Live, d
  <2>6. CASE q # p
    BY <1>2, <1>5, <1>7, <2>1, <2>2, <2>3, <2>4, <2>6 DEF CacheInv, DoomedOf, StaleOf, At, Others, Live
  <2> QED
    BY <2>5, <2>6
<1> QED
  BY <1>8, <1>12, <1>13, <1>14, <1>15 DEF CacheInv

\* A step that disturbs only what its process owns.
OwnStep(p) ==
  /\ Others(p) /\ DOMAIN cdirs \subseteq DOMAIN cdirs'
  /\ \A d \in DOMAIN cdirs :
       /\ cdirs'[d].by = cdirs[d].by /\ (cdirs'[d].there => cdirs[d].there)
       /\ cdirs[d].by # p => cdirs'[d].there = cdirs[d].there /\ cdirs'[d].guard = cdirs[d].guard
       /\ cprocs[p].dir # d => cprocs'[p].dir # d /\ cdirs'[d].guard = cdirs[d].guard
  /\ cghost.misread \subseteq cghost'.misread /\ cghost.crashed \subseteq cghost'.crashed
  /\ \A q \in Processes \ {p} :
       /\ cghost'.stale[q] \subseteq cghost.stale[q]
       /\ \A d \in cghost'.stale[q] : cdirs[d].guard = p /\ cprocs'[p].pc # "dead" => cprocs[p].pc # "dead"

LEMMA OwnStepKeeps ==
  ASSUME CacheInv, NEW p \in Processes, OwnStep(p)
  PROVE  /\ \A q \in Processes \ {p} : OwnOf(q)' /\ DoomedOf(q)' /\ StaleOf(q)'
         /\ \A q \in Processes \ {p} : At(q, "use")' /\ DirOf(q)' # 0 =>
              There(DirOf(q))' \/ DirOf(q)' \in cghost'.misread
         /\ \A d \in DOMAIN cdirs : cdirs[d].by # p => GuardOf(d)' /\ OwnedOf(d)'
<1>1. \A q \in Processes : cprocs[q].dir # 0 => cprocs[q].dir \in DOMAIN cdirs
  BY CacheFacts, ProcessFields DEF CacheInv
<1>2. \A q \in Processes : ToSet(cprocs[q].list) \subseteq DOMAIN cdirs
  <2>1. \A q \in Processes : cprocs[q].list \in Seq(DOMAIN cdirs)
    BY CacheFacts, ProcessFields DEF CacheInv
  <2> QED
    BY <2>1, ElementsOfSeq
<1>3. \A q \in Processes : cghost.stale[q] \subseteq DOMAIN cdirs
  BY CacheFacts DEF CacheInv
<1>4. \A d \in DOMAIN cdirs : cdirs[d].by \in Processes
  BY CacheFacts, DirectoryFields DEF CacheInv
<1>5. ASSUME NEW q \in Processes \ {p} PROVE OwnOf(q)'
  BY <1>1, <1>2 DEF CacheInv, OwnInv, OwnOf, OwnStep, Others, At, DirOf
<1>6. ASSUME NEW q \in Processes \ {p}, At(q, "use")', DirOf(q)' # 0
      PROVE  There(DirOf(q))' \/ DirOf(q)' \in cghost'.misread
  BY <1>1, <1>6 DEF CacheInv, OwnInv, OwnOf, DirKept, OwnStep, Others, At, DirOf, There
<1>7. \A d \in DOMAIN cdirs : Left(d) => Left(d)'
  BY DEF Left, DirOf, OwnStep, Others
<1>8. ASSUME NEW q \in Processes \ {p} PROVE DoomedOf(q)'
  BY <1>7 DEF CacheInv, DoomedOf, OwnStep, Others, At
<1>9. ASSUME NEW q \in Processes \ {p} PROVE StaleOf(q)'
  <2> SUFFICES ASSUME cprocs[q].pc \in {"clean", "rmrf", "mkdtemp"}, NEW d \in cghost'.stale[q]
               PROVE  /\ Left(d)' /\ cdirs'[d].guard \notin {"none", q}
                      /\ cdirs'[d].guard \in Processes => cprocs'[cdirs'[d].guard].pc = "dead"
                      /\ cdirs'[d].there => \/ (cprocs[q].pc # "mkdtemp" /\ d \in cprocs[q].todo)
                                           \/ (cprocs[q].pc = "rmrf" /\ d = cprocs[q].doomed)
    BY DEF StaleOf, OwnStep, Others, At, There, Live
  <2>1. d \in cghost.stale[q] /\ d \in DOMAIN cdirs
    BY <1>3 DEF OwnStep
  <2>2. /\ Left(d) /\ cdirs[d].guard \notin {"none", q}
        /\ cdirs[d].guard \in Processes => cprocs[cdirs[d].guard].pc = "dead"
        /\ cdirs[d].there => \/ (cprocs[q].pc # "mkdtemp" /\ d \in cprocs[q].todo)
                            \/ (cprocs[q].pc = "rmrf" /\ d = cprocs[q].doomed)
    BY <2>1 DEF CacheInv, StaleOf, At, There, Live
  <2>3. cdirs'[d].guard = cdirs[d].guard
    BY <2>1, <2>2 DEF OwnStep, Left, DirOf
  <2>4. cdirs[d].guard \in Processes => cprocs'[cdirs[d].guard].pc = "dead"
    BY <2>2 DEF OwnStep, Others
  <2> QED
    BY <1>7, <2>1, <2>2, <2>3, <2>4 DEF OwnStep
<1>10. ASSUME NEW d \in DOMAIN cdirs, cdirs[d].by # p PROVE GuardOf(d)' /\ OwnedOf(d)'
  BY <1>4, <1>10 DEF CacheInv, OwnInv, GuardOf, OwnedInv, OwnedOf, OwnStep, Others, There, DirOf
<1> QED
  BY <1>5, <1>6, <1>8, <1>9, <1>10

\* What remains to be shown of such a step.
LEMMA OwnStepDone ==
  ASSUME CacheInv, NEW p \in Processes, OwnStep(p), CacheTypes', OwnOf(p)', DoomedOf(p)', StaleOf(p)',
         At(p, "use")' /\ DirOf(p)' # 0 => There(DirOf(p))' \/ DirOf(p)' \in cghost'.misread,
         \A d \in DOMAIN cdirs' : d \notin DOMAIN cdirs \/ cdirs[d].by = p => GuardOf(d)' /\ OwnedOf(d)'
  PROVE  CacheInv'
<1>1. DirKept'
  BY OwnStepKeeps DEF DirKept, DirOf
<1>2. OwnInv' /\ OwnedInv'
  BY OwnStepKeeps DEF OwnInv, OwnedInv
<1> QED
  BY <1>1, <1>2, OwnStepKeeps DEF CacheInv

\* Such a step that makes no directory and ends outside of cleaning.
LEMMA OwnMove ==
  ASSUME CacheInv, NEW p \in Processes, NEW r \in Process(Len(cdirs)), Becomes(p, r), UNCHANGED cghost, SameDirectories,
         r.pc \notin {"clean", "rmrf", "mkdtemp"}, r.pc = "dead" \/ cprocs[p].pc # "dead", r.dir \in {0, cprocs[p].dir},
         \A d \in DOMAIN cdirs :
           /\ cdirs'[d].there => cdirs[d].there
           /\ cdirs[d].by # p => cdirs'[d].there = cdirs[d].there /\ cdirs'[d].guard = cdirs[d].guard
           /\ cprocs[p].dir # d => cdirs'[d].guard = cdirs[d].guard,
         OwnOf(p)', r.pc = "use" /\ r.dir # 0 => cdirs'[r.dir].there \/ r.dir \in cghost.misread,
         \A d \in DOMAIN cdirs : cdirs[d].by = p =>
           /\ cdirs'[d].guard \in {"none", "empty", p}
           /\ cdirs'[d].there => \/ d \in cghost.crashed
                                \/ d \in ToSet(r.list)
                                \/ (r.dir = d /\ r.pc \in {"open", "write"})
  PROVE  CacheInv'
<1>1. CacheTypes /\ CacheTypes'
  BY ProcessStep, GhostStays DEF CacheInv, CacheTypes, SameDirectories
<1>2. cprocs'[p] = r /\ Others(p) /\ DOMAIN cdirs' = DOMAIN cdirs
  BY <1>1, ProcessStep
<1>3. 0 \notin DOMAIN cdirs
  BY <1>1, CacheFacts
<1>4. OwnStep(p)
  BY <1>2, <1>3 DEF OwnStep, SameDirectories
<1>5. DoomedOf(p)' /\ StaleOf(p)'
  BY <1>2 DEF DoomedOf, StaleOf, At
<1>6. \A d \in DOMAIN cdirs' : d \notin DOMAIN cdirs \/ cdirs[d].by = p => GuardOf(d)' /\ OwnedOf(d)'
  BY <1>2 DEF GuardOf, OwnedOf, There, DirOf, SameDirectories
<1>7. At(p, "use")' /\ DirOf(p)' # 0 => There(DirOf(p))' \/ DirOf(p)' \in cghost'.misread
  BY <1>2 DEF At, DirOf, There
<1> QED
  BY <1>1, <1>4, <1>5, <1>6, <1>7, OwnStepDone

\* What a process owns.
LEMMA OwnFacts ==
  ASSUME CacheInv, NEW p \in Processes
  PROVE  /\ cprocs[p] \in Process(Len(cdirs)) /\ Len(cdirs) \in Nat /\ DOMAIN cdirs = 1..Len(cdirs)
         /\ cprocs[p].dir # 0 => cprocs[p].dir \in DOMAIN cdirs /\ cdirs[cprocs[p].dir].by = p
         /\ cprocs[p].list \in Seq(DOMAIN cdirs) /\ ToSet(cprocs[p].list) \subseteq DOMAIN cdirs
         /\ \A d \in ToSet(cprocs[p].list) : cdirs[d].by = p
         /\ \A d \in DOMAIN cdirs : cdirs[d].by = p =>
              /\ cdirs[d].guard \in {"none", "empty", p}
              /\ cdirs[d].there => \/ d \in cghost.crashed
                                  \/ d \in ToSet(cprocs[p].list)
                                  \/ (cprocs[p].dir = d /\ cprocs[p].pc \in {"open", "write"})
<1>1. cprocs[p] \in Process(Len(cdirs)) /\ Len(cdirs) \in Nat /\ DOMAIN cdirs = 1..Len(cdirs)
  BY CacheFacts DEF CacheInv
<1>2. cprocs[p].dir # 0 => cprocs[p].dir \in DOMAIN cdirs /\ cdirs[cprocs[p].dir].by = p
  BY <1>1, ProcessFields DEF CacheInv, OwnInv, OwnOf, DirOf
<1>3. cprocs[p].list \in Seq(DOMAIN cdirs)
  BY <1>1, ProcessFields
<1>4. ToSet(cprocs[p].list) \subseteq DOMAIN cdirs
  BY <1>3, ElementsOfSeq
<1>5. \A d \in ToSet(cprocs[p].list) : cdirs[d].by = p
  BY DEF CacheInv, OwnInv, OwnOf
<1>6. ASSUME NEW d \in DOMAIN cdirs, cdirs[d].by = p
      PROVE  /\ cdirs[d].guard \in {"none", "empty", p}
             /\ cdirs[d].there => \/ d \in cghost.crashed
                                 \/ d \in ToSet(cprocs[p].list)
                                 \/ (cprocs[p].dir = d /\ cprocs[p].pc \in {"open", "write"})
  <2>1. GuardOf(d) /\ OwnedOf(d)
    BY DEF CacheInv, OwnInv, OwnedInv
  <2>2. cdirs[d].guard \in {"none", "empty", cdirs[d].by}
    BY <2>1 DEF GuardOf
  <2>3. cdirs[d].there => \/ d \in cghost.crashed
                          \/ d \in ToSet(cprocs[cdirs[d].by].list)
                          \/ (cprocs[cdirs[d].by].dir = d /\ cprocs[cdirs[d].by].pc \in {"open", "write"})
    BY <2>1 DEF OwnedOf, There, DirOf
  <2> QED
    BY <1>6, <2>2, <2>3
<1> QED
  BY <1>1, <1>2, <1>3, <1>4, <1>5, <1>6

\* A call of anklang_cachedir_create() fails and leaves no directory.
LEMMA FailedKeeps ==
  ASSUME CacheInv, NEW p \in Processes, CreateFailed(p), UNCHANGED cghost, cprocs[p].pc \in {"mkdtemp", "open", "write"},
         \/ (cprocs[p].dir = 0 /\ UNCHANGED cdirs)
         \/ (cprocs[p].dir # 0 /\ rmrf(cprocs[p].dir))
  PROVE  CacheInv'
<1>1. PICK label \in {"use", "out"} : Becomes(p, [cprocs[p] EXCEPT !.pc = label, !.dir = 0])
  BY DEF CreateFailed
<1> DEFINE r == [cprocs[p] EXCEPT !.pc = label, !.dir = 0]
           e == cprocs[p].dir
<1>2. /\ cprocs[p] \in Process(Len(cdirs)) /\ Len(cdirs) \in Nat /\ 0 \in 0..Len(cdirs)
  BY OwnFacts
<1>3. r \in Process(Len(cdirs)) /\ r.pc = label /\ r.dir = 0 /\ r.list = cprocs[p].list
  BY <1>2 DEF CacheLabels, Process
<1>4. Becomes(p, r)
  BY <1>1
<1> HIDE DEF r
<1>5. /\ cdirs' \in Seq(Directory) /\ Len(cdirs') = Len(cdirs) /\ DOMAIN cdirs' = DOMAIN cdirs
      /\ \A d \in DOMAIN cdirs : cdirs'[d].by = cdirs[d].by /\ cdirs'[d].guard = cdirs[d].guard
      /\ \A d \in DOMAIN cdirs : cdirs'[d].there = IF d = e THEN FALSE ELSE cdirs[d].there
  <2>1. CASE e = 0 /\ UNCHANGED cdirs
    <3>1. CacheTypes /\ cdirs' = cdirs /\ cdirs \in Seq(Directory) /\ e \notin DOMAIN cdirs
      BY <2>1, OwnFacts DEF CacheInv, CacheTypes
    <3> HIDE DEF e
    <3> QED
      BY <3>1
  <2>2. CASE e # 0 /\ rmrf(e)
    <3>1. CacheTypes /\ e \in DOMAIN cdirs
      BY <2>2, OwnFacts DEF CacheInv
    <3> HIDE DEF e
    <3>2. Len(cdirs') = Len(cdirs) /\ cdirs' \in Seq(Directory)
      BY <2>2, <3>1, RemovedOnly
    <3>3. DOMAIN cdirs' = DOMAIN cdirs
      BY <3>1, <3>2, CacheFacts
    <3> QED
      BY <2>2, <3>1, <3>2, <3>3, RemovedOnly
  <2> QED
    BY <2>1, <2>2
<1>6. SameDirectories
  BY <1>5 DEF SameDirectories
<1>7. CacheTypes
  BY DEF CacheInv
<1>8. cprocs'[p] = r
  BY <1>3, <1>4, <1>6, <1>7, ProcessStep
<1>9. OwnOf(p)'
  BY <1>3, <1>5, <1>8, OwnFacts DEF OwnOf, DirOf, At
<1>10. \A d \in DOMAIN cdirs : cdirs[d].by # p => d # e
  BY <1>5, OwnFacts
<1>11. \A d \in DOMAIN cdirs : cdirs[d].by = p =>
         /\ cdirs'[d].guard \in {"none", "empty", p}
         /\ cdirs'[d].there => d \in cghost.crashed \/ d \in ToSet(r.list)
  <2> SUFFICES ASSUME NEW d \in DOMAIN cdirs, cdirs[d].by = p
               PROVE  /\ cdirs'[d].guard \in {"none", "empty", p}
                      /\ cdirs'[d].there => d \in cghost.crashed \/ d \in ToSet(r.list)
    OBVIOUS
  <2>1. /\ cdirs[d].guard \in {"none", "empty", p}
        /\ cdirs[d].there => d \in cghost.crashed \/ d \in ToSet(cprocs[p].list) \/ e = d
    BY OwnFacts
  <2> QED
    BY <1>3, <1>5, <2>1
<1>12. \A d \in DOMAIN cdirs : cdirs'[d].there => cdirs[d].there
  BY <1>5
<1>13. /\ r.pc \notin {"clean", "rmrf", "mkdtemp"} /\ cprocs[p].pc # "dead" /\ r.dir = 0
  BY <1>3
<1> HIDE DEF e
<1> QED
  BY <1>3, <1>4, <1>5, <1>6, <1>9, <1>10, <1>11, <1>12, <1>13, OwnMove

LEMMA OpenKeeps == ASSUME CacheInv, NEW p \in Processes, open_guard(p) PROVE CacheInv'
<1> DEFINE e == cprocs[p].dir
           r == [cprocs[p] EXCEPT !.pc = "write"]
<1>1. At(p, "open") /\ UNCHANGED cghost /\ e # 0 /\ e \in DOMAIN cdirs
  BY OwnFacts DEF open_guard, CacheInv, OwnInv, OwnOf, DirOf
<1>2. CASE CreateFailed(p) /\ rmrf(e)
  BY <1>1, <1>2, FailedKeeps DEF At
<1>3. CASE Enters(p, "write") /\ cdirs' = [cdirs EXCEPT ![e].guard = "empty"]
  <2>1. r \in Process(Len(cdirs)) /\ r.pc = "write" /\ r.dir = e /\ r.list = cprocs[p].list
    BY OwnFacts, Entering DEF CacheLabels
  <2>2. Becomes(p, r)
    BY <1>3 DEF Enters
  <2> HIDE DEF r, e
  <2>3. CacheTypes
    BY DEF CacheInv
  <2>4. /\ cdirs' \in Seq(Directory) /\ Len(cdirs') = Len(cdirs)
        /\ \A d \in DOMAIN cdirs : cdirs'[d].by = cdirs[d].by /\ cdirs'[d].there = cdirs[d].there
        /\ \A d \in DOMAIN cdirs : cdirs'[d].guard = IF d = e THEN "empty" ELSE cdirs[d].guard
    BY <1>1, <1>3, <2>3, GuardedOnly
  <2>5. SameDirectories
    BY <2>4 DEF SameDirectories
  <2>6. cprocs'[p] = r
    BY <2>1, <2>2, <2>3, <2>5, ProcessStep
  <2>7. OwnOf(p)'
    BY <1>1, <2>1, <2>4, <2>6, OwnFacts DEF OwnOf, DirOf, At, e
  <2>8. \A d \in DOMAIN cdirs : cdirs[d].by # p => cdirs'[d].guard = cdirs[d].guard
    BY <1>1, <2>4, OwnFacts DEF e
  <2>9. \A d \in DOMAIN cdirs : cdirs[d].by = p =>
          /\ cdirs'[d].guard \in {"none", "empty", p}
          /\ cdirs'[d].there => \/ d \in cghost.crashed
                               \/ d \in ToSet(r.list)
                               \/ (r.dir = d /\ r.pc \in {"open", "write"})
    BY <2>1, <2>4, OwnFacts DEF e
  <2>10. r.dir = cprocs[p].dir /\ cprocs[p].pc # "dead" /\ r.pc = "write"
    BY <1>1, <2>1 DEF e, At
  <2> QED
    BY <1>1, <2>1, <2>2, <2>4, <2>5, <2>7, <2>8, <2>9, <2>10, OwnMove
<1> QED
  BY <1>2, <1>3 DEF open_guard

LEMMA WriteKeeps == ASSUME CacheInv, NEW p \in Processes, write_guard(p) PROVE CacheInv'
<1> DEFINE e == cprocs[p].dir
           r == [cprocs[p] EXCEPT !.pc = "use", !.list = Append(@, e)]
<1>1. At(p, "write") /\ UNCHANGED cghost /\ e # 0 /\ e \in DOMAIN cdirs
  BY OwnFacts DEF write_guard, CacheInv, OwnInv, OwnOf, DirOf
<1>2. CASE CreateFailed(p) /\ rmrf(e)
  BY <1>1, <1>2, FailedKeeps DEF At
<1>3. CASE There(e) /\ cdirs' = [cdirs EXCEPT ![e].guard = p] /\ Becomes(p, r)
  <2>1. r \in Process(Len(cdirs)) /\ r.pc = "use" /\ r.dir = e /\ ToSet(r.list) = ToSet(cprocs[p].list) \cup {e}
    <3> DEFINE list == Append(cprocs[p].list, e)
    <3>1. cprocs[p] \in Process(Len(cdirs)) /\ cprocs[p].list \in Seq(DOMAIN cdirs) /\ DOMAIN cdirs = 1..Len(cdirs)
      BY OwnFacts
    <3>2. list \in Seq(1..Len(cdirs)) /\ ToSet(list) = ToSet(cprocs[p].list) \cup {e}
      BY <1>1, <3>1, ElementsOfAppend
    <3>3. r = [cprocs[p] EXCEPT !.pc = "use", !.list = list]
      OBVIOUS
    <3> HIDE DEF list
    <3>4. /\ r \in Process(Len(cdirs)) /\ r.pc = "use" /\ r.dir = e /\ r.list = list
      BY <3>1, <3>2, <3>3 DEF Process, CacheLabels
    <3> QED
      BY <3>2, <3>4
  <2> HIDE DEF r, e
  <2>3. CacheTypes
    BY DEF CacheInv
  <2>4. /\ cdirs' \in Seq(Directory) /\ Len(cdirs') = Len(cdirs)
        /\ \A d \in DOMAIN cdirs : cdirs'[d].by = cdirs[d].by /\ cdirs'[d].there = cdirs[d].there
        /\ \A d \in DOMAIN cdirs : cdirs'[d].guard = IF d = e THEN p ELSE cdirs[d].guard
    BY <1>1, <1>3, <2>3, GuardedOnly
  <2>5. SameDirectories
    BY <2>4 DEF SameDirectories
  <2>6. cprocs'[p] = r
    BY <1>3, <2>1, <2>3, <2>5, ProcessStep
  <2>7. OwnOf(p)'
    BY <1>1, <2>1, <2>4, <2>6, OwnFacts DEF OwnOf, DirOf, At, e
  <2>8. \A d \in DOMAIN cdirs : cdirs[d].by # p => cdirs'[d].guard = cdirs[d].guard
    BY <1>1, <2>4, OwnFacts DEF e
  <2>9. \A d \in DOMAIN cdirs : cdirs[d].by = p =>
          /\ cdirs'[d].guard \in {"none", "empty", p}
          /\ cdirs'[d].there => \/ d \in cghost.crashed
                               \/ d \in ToSet(r.list)
    BY <2>1, <2>4, OwnFacts DEF e
  <2>10. r.dir = cprocs[p].dir /\ cprocs[p].pc # "dead" /\ r.pc = "use" /\ cdirs'[r.dir].there
    BY <1>1, <1>3, <2>1, <2>4 DEF e, At, There
  <2> QED
    BY <1>1, <1>3, <2>1, <2>4, <2>5, <2>7, <2>8, <2>9, <2>10, OwnMove
<1> QED
  BY <1>2, <1>3 DEF write_guard, pid_string

LEMMA CleanupKeeps == ASSUME CacheInv, NEW p \in Processes, cachedir_cleanup(p) PROVE CacheInv'
<1> DEFINE e == cprocs[p].dir
           r == [cprocs[p] EXCEPT !.pc = "out", !.dir = 0]
<1>1. At(p, "use") /\ UNCHANGED cghost /\ Becomes(p, r) /\ CacheTypes
  BY DEF cachedir_cleanup, CacheInv
<1>2. r \in Process(Len(cdirs)) /\ r.pc = "out" /\ r.dir = 0 /\ r.list = cprocs[p].list
  <2>1. 0 \in 0..Len(cdirs) /\ cprocs[p] \in Process(Len(cdirs))
    BY OwnFacts
  <2> QED
    BY <2>1 DEF CacheLabels, Process
<1>3. (e # 0 /\ rmrf(e)) \/ UNCHANGED cdirs
  BY DEF cachedir_cleanup
<1>4. PICK gone \in SUBSET {e} :
        /\ cdirs' \in Seq(Directory) /\ Len(cdirs') = Len(cdirs) /\ DOMAIN cdirs' = DOMAIN cdirs
        /\ gone = {} \/ e # 0
        /\ \A d \in DOMAIN cdirs : cdirs'[d].by = cdirs[d].by /\ cdirs'[d].guard = cdirs[d].guard
        /\ \A d \in DOMAIN cdirs : cdirs'[d].there = IF d \in gone THEN FALSE ELSE cdirs[d].there
  <2>1. CASE UNCHANGED cdirs
    <3>1. {} \in SUBSET {e} /\ cdirs' = cdirs /\ cdirs \in Seq(Directory)
      BY <1>1, <2>1 DEF CacheTypes
    <3> QED
      BY <3>1
  <2>2. CASE e # 0 /\ rmrf(e)
    <3>1. {e} \in SUBSET {e} /\ e \in DOMAIN cdirs
      BY <2>2, OwnFacts
    <3> HIDE DEF e
    <3>2. /\ cdirs' \in Seq(Directory) /\ Len(cdirs') = Len(cdirs) /\ DOMAIN cdirs' = DOMAIN cdirs
          /\ \A d \in DOMAIN cdirs : cdirs'[d].by = cdirs[d].by /\ cdirs'[d].guard = cdirs[d].guard
          /\ \A d \in DOMAIN cdirs : cdirs'[d].there = IF d \in {e} THEN FALSE ELSE cdirs[d].there
      <4>1. Len(cdirs') = Len(cdirs) /\ cdirs' \in Seq(Directory)
        BY <1>1, <2>2, <3>1, RemovedOnly
      <4>2. DOMAIN cdirs' = DOMAIN cdirs
        BY <1>1, <4>1, CacheFacts
      <4> QED
        BY <1>1, <2>2, <3>1, <4>1, <4>2, RemovedOnly
    <3> QED
      BY <2>2, <3>1, <3>2
  <2> QED
    BY <1>3, <2>1, <2>2
<1> HIDE DEF r
<1>6. SameDirectories
  BY <1>4 DEF SameDirectories
<1>8. cprocs'[p] = r
  BY <1>1, <1>2, <1>6, ProcessStep
<1>9. OwnOf(p)'
  <2>1. \A d \in ToSet(r.list) : cdirs'[d].by = p
    BY <1>2, <1>4, OwnFacts
  <2> QED
    BY <1>2, <1>8, <2>1 DEF OwnOf, DirOf, At
<1>10. \A d \in DOMAIN cdirs : cdirs[d].by # p => d \notin gone
  BY <1>4, OwnFacts
<1>11. \A d \in DOMAIN cdirs : cdirs[d].by = p =>
         /\ cdirs'[d].guard \in {"none", "empty", p}
         /\ cdirs'[d].there => d \in cghost.crashed \/ d \in ToSet(r.list)
  BY <1>1, <1>2, <1>4, OwnFacts DEF At
<1>12. \A d \in DOMAIN cdirs : cdirs'[d].there => cdirs[d].there
  BY <1>4
<1>13. cprocs[p].pc # "dead"
  BY <1>1 DEF At
<1> HIDE DEF e
<1> QED
  BY <1>1, <1>2, <1>4, <1>6, <1>9, <1>10, <1>11, <1>12, <1>13, OwnMove

LEMMA FrontAndLast ==
  ASSUME NEW S, NEW s \in Seq(S), s # <<>>
  PROVE  /\ Front(s) \in Seq(S) /\ Last(s) \in ToSet(s)
         /\ ToSet(Front(s)) \subseteq ToSet(s) /\ ToSet(s) \subseteq ToSet(Front(s)) \cup {Last(s)}
<1> DEFINE n == Len(s)
<1>1. n \in Nat /\ n # 0 /\ DOMAIN s = 1..n
  OBVIOUS
<1>2. Front(s) = [i \in 1..(n - 1) |-> s[i]]
  BY <1>1 DEF Front
<1> QED
  BY <1>1, <1>2 DEF Last, ToSet

LEMMA ExitKeeps == ASSUME CacheInv, NEW p \in Processes, atexit_clean_cachedirs(p) PROVE CacheInv'
<1> DEFINE list == cprocs[p].list
<1>0. At(p, "exit") /\ UNCHANGED cghost /\ CacheTypes /\ cprocs[p].dir = 0
  BY DEF atexit_clean_cachedirs, CacheInv, OwnInv, OwnOf, DirOf, At
<1>1. CASE list = <<>> /\ Becomes(p, NewProcess("dead")) /\ UNCHANGED cdirs
  <2> DEFINE r == NewProcess("dead")
  <2>1. r \in Process(Len(cdirs)) /\ r.pc = "dead" /\ r.dir = 0 /\ r.list = <<>>
    BY OwnFacts, NewProcessType DEF CacheLabels
  <2> HIDE DEF r
  <2>2. SameDirectories /\ cdirs' = cdirs
    BY <1>0, <1>1, SamePlaces
  <2>3. cprocs'[p] = r
    BY <1>0, <1>1, <2>1, <2>2, ProcessStep DEF r
  <2>4. ToSet(<<>>) = {}
    BY DEF ToSet
  <2>5. OwnOf(p)'
    BY <2>1, <2>3, <2>4 DEF OwnOf, DirOf, At
  <2>6. \A d \in DOMAIN cdirs : cdirs[d].by = p =>
          /\ cdirs'[d].guard \in {"none", "empty", p}
          /\ cdirs'[d].there => d \in cghost.crashed
    BY <1>0, <1>1, <2>2, <2>4, OwnFacts DEF At
  <2> QED
    BY <1>0, <1>1, <2>1, <2>2, <2>5, <2>6, OwnMove DEF r
<1>2. CASE list # <<>> /\ rmrf(Last(list)) /\ Becomes(p, [cprocs[p] EXCEPT !.list = Front(@)])
  <2> DEFINE e == Last(list)
             front == Front(list)
             r == [cprocs[p] EXCEPT !.list = front]
  <2>1. list \in Seq(1..Len(cdirs)) /\ DOMAIN cdirs = 1..Len(cdirs) /\ \A d \in ToSet(list) : cdirs[d].by = p
    BY OwnFacts
  <2>2. /\ front \in Seq(1..Len(cdirs)) /\ e \in ToSet(list)
        /\ ToSet(front) \subseteq ToSet(list) /\ ToSet(list) \subseteq ToSet(front) \cup {e}
    BY <1>2, <2>1, FrontAndLast
  <2>3. e \in DOMAIN cdirs /\ cdirs[e].by = p
    BY <2>1, <2>2, OwnFacts
  <2>4. Becomes(p, r)
    BY <1>2
  <2> HIDE DEF front
  <2>5. r \in Process(Len(cdirs)) /\ r.pc = "exit" /\ r.dir = 0 /\ r.list = front
    <3>1. cprocs[p] \in Process(Len(cdirs))
      BY OwnFacts
    <3> QED
      BY <1>0, <2>2, <3>1 DEF Process, At
  <2> HIDE DEF r, e
  <2>6. /\ cdirs' \in Seq(Directory) /\ Len(cdirs') = Len(cdirs)
        /\ \A d \in DOMAIN cdirs : cdirs'[d].by = cdirs[d].by /\ cdirs'[d].guard = cdirs[d].guard
        /\ \A d \in DOMAIN cdirs : cdirs'[d].there = IF d = e THEN FALSE ELSE cdirs[d].there
    BY <1>0, <1>2, <2>3, RemovedOnly DEF e
  <2>7. SameDirectories
    BY <2>6 DEF SameDirectories
  <2>8. cprocs'[p] = r
    BY <1>0, <2>4, <2>5, <2>7, ProcessStep
  <2>9. OwnOf(p)'
    <3>1. \A d \in ToSet(r.list) : cdirs'[d].by = p
      BY <2>1, <2>2, <2>5, <2>6, OwnFacts
    <3> QED
      BY <2>5, <2>8, <3>1 DEF OwnOf, DirOf, At
  <2>10. ASSUME NEW d \in DOMAIN cdirs, cdirs[d].by = p
         PROVE  /\ cdirs'[d].guard \in {"none", "empty", p}
                /\ cdirs'[d].there => d \in cghost.crashed \/ d \in ToSet(r.list)
    <3>1. /\ cdirs[d].guard \in {"none", "empty", p}
          /\ cdirs[d].there => d \in cghost.crashed \/ d \in ToSet(list)
      BY <1>0, <2>10, OwnFacts DEF At
    <3> QED
      BY <2>2, <2>5, <2>6, <3>1
  <2>11. \A d \in DOMAIN cdirs : cdirs'[d].there => cdirs[d].there
    BY <2>6
  <2>12. \A d \in DOMAIN cdirs : cdirs[d].by # p => cdirs'[d].there = cdirs[d].there
    BY <2>3, <2>6
  <2>13. cprocs[p].pc # "dead"
    BY <1>0 DEF At
  <2> QED
    BY <1>0, <2>4, <2>5, <2>6, <2>7, <2>9, <2>10, <2>11, <2>12, <2>13, OwnMove
<1> QED
  BY <1>1, <1>2 DEF atexit_clean_cachedirs

\* A process starts or dies.
LEMMA RenewKeeps ==
  ASSUME CacheInv, NEW p \in Processes, NEW label \in {"dead", "out"}, Becomes(p, NewProcess(label)), UNCHANGED cdirs,
         cghost' \in [misread : SUBSET (DOMAIN cdirs), crashed : SUBSET (DOMAIN cdirs),
                      stale : [Processes -> SUBSET (DOMAIN cdirs)]],
         cghost'.misread = cghost.misread, cghost.crashed \subseteq cghost'.crashed,
         \A q \in Processes \ {p} :
           /\ cghost'.stale[q] \subseteq cghost.stale[q]
           /\ At(p, "dead") => \A d \in cghost'.stale[q] : cdirs[d].guard # p,
         \A d \in DOMAIN cdirs : cdirs[d].by = p /\ There(d) => d \in cghost'.crashed
  PROVE  CacheInv'
<1> DEFINE r == NewProcess(label)
<1>1. r \in Process(Len(cdirs)) /\ r.pc = label /\ r.dir = 0 /\ r.list = <<>>
  BY OwnFacts, NewProcessType DEF CacheLabels
<1>2. Becomes(p, r) /\ CacheTypes /\ cdirs' = cdirs
  BY DEF CacheInv
<1> HIDE DEF r
<1>3. cprocs' \in [Processes -> Process(Len(cdirs'))] /\ cprocs'[p] = r /\ Others(p)
  BY <1>1, <1>2, ProcessStep, SamePlaces
<1>4. CacheTypes'
  BY <1>2, <1>3 DEF CacheTypes
<1>5. OwnStep(p)
  <2>1. 0 \notin DOMAIN cdirs
    BY <1>2, CacheFacts
  <2> QED
    BY <1>1, <1>2, <1>3, <2>1 DEF OwnStep, At
<1>6. ToSet(<<>>) = {}
  BY DEF ToSet
<1>7. OwnOf(p)' /\ DoomedOf(p)' /\ StaleOf(p)'
  BY <1>1, <1>3, <1>6 DEF OwnOf, DoomedOf, StaleOf, DirOf, At
<1>8. ASSUME NEW d \in DOMAIN cdirs', cdirs[d].by = p PROVE GuardOf(d)' /\ OwnedOf(d)'
  BY <1>2, <1>8 DEF CacheInv, OwnInv, GuardOf, OwnedOf, There
<1>9. ~At(p, "use")'
  BY <1>1, <1>3 DEF At
<1> QED
  BY <1>2, <1>4, <1>5, <1>7, <1>8, <1>9, OwnStepDone

LEMMA StartKeeps == ASSUME CacheInv, NEW p \in Processes, StartProcess(p) PROVE CacheInv'
<1>1. At(p, "dead") /\ Becomes(p, NewProcess("out")) /\ UNCHANGED cdirs /\ CacheTypes
  BY DEF StartProcess, CacheInv
<1> DEFINE stale == [q \in Processes |-> IF q = p THEN {} ELSE cghost.stale[q] \ GuardedBy(p)]
<1>2. cghost' = [cghost EXCEPT !.stale = stale]
  BY DEF StartProcess
<1>3. /\ stale \in [Processes -> SUBSET (DOMAIN cdirs)]
      /\ \A q \in Processes \ {p} :
           stale[q] \subseteq cghost.stale[q] /\ \A d \in stale[q] : cdirs[d].guard # p
  BY <1>1, CacheFacts DEF GuardedBy, pid_string
<1> HIDE DEF stale
<1>4. /\ cghost' \in [misread : SUBSET (DOMAIN cdirs), crashed : SUBSET (DOMAIN cdirs),
                      stale : [Processes -> SUBSET (DOMAIN cdirs)]]
      /\ cghost'.misread = cghost.misread /\ cghost'.crashed = cghost.crashed /\ cghost'.stale = stale
  BY <1>1, <1>2, <1>3 DEF CacheTypes
<1>5. \A d \in DOMAIN cdirs : cdirs[d].by = p /\ There(d) => d \in cghost'.crashed
  <2>1. ToSet(<<>>) = {}
    BY DEF ToSet
  <2>2. cprocs[p].list = <<>> /\ cprocs[p].pc = "dead"
    BY <1>1 DEF CacheInv, OwnInv, OwnOf, At
  <2> QED
    BY <1>4, <2>1, <2>2, OwnFacts DEF There
<1> QED
  BY <1>1, <1>3, <1>4, <1>5, RenewKeeps

LEMMA CrashKeeps == ASSUME CacheInv, NEW p \in Processes, CrashProcess(p) PROVE CacheInv'
<1> DEFINE crashed == cghost.crashed \cup {d \in DOMAIN cdirs : There(d) /\ cdirs[d].by = p}
<1>1. /\ ~At(p, "dead") /\ Becomes(p, NewProcess("dead")) /\ UNCHANGED cdirs /\ CacheTypes
      /\ cghost' = [cghost EXCEPT !.crashed = crashed]
  BY DEF CrashProcess, CacheInv, Live, At
<1>2. crashed \subseteq DOMAIN cdirs
  BY <1>1, CacheFacts
<1>3. \A d \in DOMAIN cdirs : cdirs[d].by = p /\ There(d) => d \in crashed
  OBVIOUS
<1> HIDE DEF crashed
<1>4. /\ cghost' \in [misread : SUBSET (DOMAIN cdirs), crashed : SUBSET (DOMAIN cdirs),
                      stale : [Processes -> SUBSET (DOMAIN cdirs)]]
      /\ cghost'.misread = cghost.misread /\ cghost'.crashed = crashed /\ cghost'.stale = cghost.stale
  BY <1>1, <1>2 DEF CacheTypes
<1>5. cghost.crashed \subseteq crashed
  BY DEF crashed
<1> QED
  BY <1>1, <1>3, <1>4, <1>5, RenewKeeps

LEMMA CreateKeeps == ASSUME CacheInv, NEW p \in Processes, mkdtemp(p) PROVE CacheInv'
<1> DEFINE n == Len(cdirs)
           new == [there |-> TRUE, by |-> p, guard |-> "none"]
           dir == n + 1
           r == [cprocs[p] EXCEPT !.pc = "open", !.dir = dir]
<1>1. At(p, "mkdtemp") /\ UNCHANGED cghost /\ CacheTypes /\ cprocs[p].dir = 0
  BY DEF mkdtemp, CacheInv, OwnInv, OwnOf, DirOf, At
<1>2. CASE CreateFailed(p) /\ UNCHANGED cdirs
  BY <1>1, <1>2, FailedKeeps DEF At
<1>3. CASE cdirs' = Append(cdirs, new) /\ Becomes(p, [cprocs[p] EXCEPT !.pc = "open", !.dir = Len(cdirs')])
  <2>1. new \in Directory /\ new.by = p /\ new.guard = "none"
    BY DEF Directory
  <2>2. cdirs \in Seq(Directory)
    BY <1>1 DEF CacheTypes
  <2> HIDE DEF new
  <2>3. /\ cdirs' \in Seq(Directory) /\ Len(cdirs') = dir /\ cdirs'[dir] = new
        /\ \A d \in 1..n : cdirs'[d] = cdirs[d]
    BY <1>3, <2>1, <2>2
  <2>4. n \in Nat /\ DOMAIN cdirs = 1..n
    BY <2>2
  <2>5. DOMAIN cdirs' = 1..(n + 1)
    BY <2>3
  <2>6. DOMAIN cdirs \subseteq DOMAIN cdirs' /\ DOMAIN cdirs' = DOMAIN cdirs \cup {dir} /\ dir \notin DOMAIN cdirs
    BY <2>4, <2>5
  <2>7. Becomes(p, r)
    BY <1>3, <2>3
  <2>8. \A q \in Processes : cprocs[q] \in Process(n + 1)
    BY <1>1, <2>4, CacheFacts, ProcessGrows
  <2>9. r \in Process(n + 1) /\ r.pc = "open" /\ r.dir = dir /\ r.list = cprocs[p].list
    <3>1. cprocs[p] \in Process(n + 1) /\ n + 1 \in 0..(n + 1)
      BY <2>4, <2>8
    <3> QED
      BY <3>1 DEF Process, CacheLabels
  <2> HIDE DEF r
  <2>10. cprocs' \in [Processes -> Process(n + 1)] /\ cprocs'[p] = r /\ Others(p)
    BY <1>1, <2>7, <2>8, <2>9 DEF CacheTypes, Becomes, Others
  <2>11. CacheTypes'
    <3>1. cghost' \in [misread : SUBSET (DOMAIN cdirs'), crashed : SUBSET (DOMAIN cdirs'),
                      stale : [Processes -> SUBSET (DOMAIN cdirs')]]
      BY <1>1, <2>6 DEF CacheTypes
    <3> QED
      BY <2>3, <2>10, <3>1 DEF CacheTypes
  <2> HIDE DEF dir
  <2>12. OwnStep(p)
    BY <1>1, <2>3, <2>4, <2>6, <2>9, <2>10 DEF OwnStep, At
  <2>13. OwnOf(p)'
    <3>1. \A d \in ToSet(r.list) : cdirs'[d].by = p
      BY <2>3, <2>4, <2>9, OwnFacts
    <3> QED
      BY <2>1, <2>3, <2>4, <2>9, <2>10, <3>1 DEF OwnOf, DirOf, At, dir
  <2>14. DoomedOf(p)' /\ StaleOf(p)' /\ ~At(p, "use")'
    BY <2>9, <2>10 DEF DoomedOf, StaleOf, At
  <2>15. ASSUME NEW d, d = dir PROVE GuardOf(d)' /\ OwnedOf(d)'
    BY <2>1, <2>3, <2>9, <2>10, <2>15 DEF GuardOf, OwnedOf, DirOf
  <2>16. ASSUME NEW d \in DOMAIN cdirs, cdirs[d].by = p PROVE GuardOf(d)' /\ OwnedOf(d)'
    <3>1. /\ cdirs[d].guard \in {"none", "empty", p}
          /\ cdirs[d].there => d \in cghost.crashed \/ d \in ToSet(cprocs[p].list)
      BY <1>1, <2>16, OwnFacts DEF At
    <3> QED
      BY <1>1, <2>3, <2>4, <2>9, <2>10, <2>16, <3>1 DEF GuardOf, OwnedOf, There
  <2> QED
    BY <2>6, <2>11, <2>12, <2>13, <2>14, <2>15, <2>16, OwnStepDone
<1> QED
  BY <1>2, <1>3 DEF mkdtemp

LEMMA CacheStart == CacheInit => CacheInv
<1> SUFFICES ASSUME CacheInit PROVE CacheInv
  OBVIOUS
<1>1. cdirs = <<>> /\ Len(cdirs) = 0 /\ DOMAIN cdirs = {} /\ cdirs \in Seq(Directory)
  BY DEF CacheInit
<1>2. /\ NewProcess("dead") \in Process(0)
      /\ NewProcess("dead").pc = "dead" /\ NewProcess("dead").dir = 0 /\ NewProcess("dead").list = <<>>
  BY NewProcessType DEF CacheLabels
<1>3. cprocs = [p \in Processes |-> NewProcess("dead")]
  BY DEF CacheInit
<1>4. cprocs \in [Processes -> Process(Len(cdirs))]
  BY <1>1, <1>2, <1>3
<1>5. cghost \in [misread : SUBSET (DOMAIN cdirs), crashed : SUBSET (DOMAIN cdirs),
                  stale : [Processes -> SUBSET (DOMAIN cdirs)]]
  BY <1>1 DEF CacheInit
<1>6. \A p \in Processes : cprocs[p].pc = "dead" /\ cprocs[p].dir = 0 /\ cprocs[p].list = <<>>
  BY <1>2, <1>3
<1>7. ToSet(<<>>) = {}
  BY DEF ToSet
<1>8. \A p \in Processes : OwnOf(p) /\ DoomedOf(p) /\ StaleOf(p)
  BY <1>6, <1>7 DEF OwnOf, DoomedOf, StaleOf, DirOf, At
<1>9. DirKept
  BY <1>6 DEF DirKept, At
<1> QED
  BY <1>1, <1>4, <1>5, <1>8, <1>9 DEF CacheInv, CacheTypes, OwnInv, OwnedInv

LEMMA CacheKeep == ASSUME CacheInv, [CacheNext]_cacheVars PROVE CacheInv'
<1>1. CASE UNCHANGED cacheVars
  <2>1. cdirs' = cdirs /\ cprocs' = cprocs /\ cghost' = cghost
    BY <1>1 DEF cacheVars
  <2> QED
    BY <2>1 DEF CacheInv, CacheTypes, OwnInv, OwnOf, GuardOf, DirKept, OwnedInv, OwnedOf, DoomedOf, StaleOf, DirOf,
                Left, At, There, Live
<1>2. ASSUME NEW p \in Processes, clean_done(p) PROVE CacheInv'
  BY <1>2, EnterKeeps DEF clean_done, At, Idle
<1>3. ASSUME NEW p \in Processes, exit(p) PROVE CacheInv'
  BY <1>3, EnterKeeps DEF exit, At, Idle
<1> QED
  BY <1>1, <1>2, <1>3, StartKeeps, SnapshotKeeps, CleanKeeps, CheckKeeps, RemoveStaleKeeps, CreateKeeps, OpenKeeps,
     WriteKeeps, CleanupKeeps, ExitKeeps, CrashKeeps DEF CacheNext

\* What the invariant says of directories.
LEMMA CacheAgrees == CacheInv => DirKept /\ StaleRemoved /\ ExitClean
<1> SUFFICES ASSUME CacheInv PROVE DirKept /\ StaleRemoved /\ ExitClean
  OBVIOUS
<1>1. StaleRemoved
  BY DEF CacheInv, StaleOf, StaleRemoved, At
<1>2. ExitClean
  <2> SUFFICES ASSUME NEW d \in DOMAIN cdirs, There(d), ~Live(cdirs[d].by) PROVE d \in cghost.crashed
    BY DEF ExitClean
  <2>1. cdirs[d].by \in Processes
    BY CacheFacts, DirectoryFields DEF CacheInv
  <2>2. cprocs[cdirs[d].by].pc = "dead" /\ cprocs[cdirs[d].by].list = <<>>
    BY <2>1 DEF CacheInv, OwnInv, OwnOf, Live, At
  <2>3. ToSet(<<>>) = {}
    BY DEF ToSet
  <2> QED
    BY <2>1, <2>2, <2>3, OwnFacts DEF There
<1> QED
  BY <1>1, <1>2 DEF CacheInv

-----------------------------------------------------------------------------
(* The components together *)

ProjectInv ==
  /\ component = "files" => FilesInv
  /\ component = "cache" => CacheInv

LEMMA ProjectStarts == ProjectInit => ProjectInv
  BY FilesStart, CacheStart DEF ProjectInit, ProjectInv

\* A step of MCProject is a step of the component, files do not change in others.
LEMMA ProjectSteps ==
  ASSUME [ProjectNext]_projectVars
  PROVE  /\ component' = component
         /\ component = "files" => [FilesNext]_filesVars
         /\ component = "cache" => [CacheNext]_cacheVars
         /\ component # "files" => UNCHANGED filesVars
<1>1. component' = component
  BY DEF ProjectNext, projectVars
<1>2. ASSUME component = "files" PROVE [FilesNext]_filesVars
  BY <1>2 DEF ProjectNext, StoreNext, projectVars, storageVars
<1>3. ASSUME component = "cache" PROVE [CacheNext]_cacheVars
  BY <1>3 DEF ProjectNext, StoreNext, projectVars, storageVars
<1>4. ASSUME component # "files" PROVE UNCHANGED filesVars
  BY <1>4 DEF ProjectNext, StoreNext, projectVars, storageVars
<1> QED
  BY <1>1, <1>2, <1>3, <1>4

LEMMA ProjectKeeps == ASSUME ProjectInv, [ProjectNext]_projectVars PROVE ProjectInv'
  BY ProjectSteps, FilesKeep, CacheKeep DEF ProjectInv

(* However a save is cut off or fails, the version saved before is the      *)
(* project file or a backup unless the user was warned, and the samples of  *)
(* saved documents are there.  A cache directory in use is not removed,     *)
(* unless its guard was read before it was written; stale ones are removed, *)
(* and only a process that crashed leaves one.                              *)

THEOREM FilesAlwaysSound == ProjectSpec => []FilesSound
<1>1. ProjectInv => FilesSound
  BY SavedFound, CacheAgrees DEF ProjectInv, FilesSound, FilesInv, FilesTypes, SamplesInv
<1>2. ProjectInv /\ [ProjectNext]_projectVars => ProjectInv'
  BY ProjectKeeps
<1> QED
  BY <1>1, <1>2, ProjectStarts, PTL DEF ProjectSpec

(* Whatever is saved, fails or crashes: a sample that is completely in the  *)
(* project directory is never changed.                                      *)

THEOREM SamplesAlwaysKept == ProjectSpec => SamplesKept
<1>1. ProjectInv /\ [ProjectNext]_projectVars => [\A i \in 0..MaxCopies : Whole(copies[i]) => copies'[i] = copies[i]]_filesVars
  <2> SUFFICES ASSUME ProjectInv, [ProjectNext]_projectVars
               PROVE  [\A i \in 0..MaxCopies : Whole(copies[i]) => copies'[i] = copies[i]]_filesVars
    OBVIOUS
  <2>1. CASE component = "files"
    <3>1. \A i \in 0..MaxCopies : Whole(copies[i]) => copies'[i] = copies[i]
      BY <2>1, ProjectSteps, CopiesKept DEF ProjectInv, FilesInv
    <3> QED
      BY <3>1
  <2>2. CASE component # "files"
    BY <2>2, ProjectSteps
  <2> QED
    BY <2>1, <2>2
<1>2. ProjectInv /\ [ProjectNext]_projectVars => ProjectInv'
  BY ProjectKeeps
<1> QED
  BY <1>1, <1>2, ProjectStarts, PTL DEF ProjectSpec, SamplesKept
=============================================================================
