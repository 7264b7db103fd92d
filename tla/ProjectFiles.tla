---------------------------- MODULE ProjectFiles ----------------------------
(* Saving a project (ProjectImpl::save_project in src/ase/project.cc) with    *)
(* the archive writer of src/ase/storage.cc and the file helpers of           *)
(* src/ase/path.cc.  Every call into the file system is a step: it may fail,  *)
(* and the process may die between any two of them.  One project directory    *)
(* is modelled, with its marker file .anklang.project, the project file, the  *)
(* backups and the samples collected from elsewhere, which all have the same  *)
(* base name: copy 0 is samples/x.wav, copy i is samples/x(i).wav.  Contents  *)
(* stand for hashes.  At the end: the cache directories by which processes    *)
(* hand the files of their plugins to the archive.                            *)
EXTENDS Integers, Sequences, FiniteSets, SequencesExt

CONSTANTS Contents,        \* of sample files outside the project directory
          MaxVersion,      \* bound: edits of the project
          MaxClock,        \* bound: seconds that pass
          MaxCopies,       \* bound: files named x(i).wav
          bmax,            \* number of backups kept, 24 in the code
          Processes,       \* process ids; a new process may get the id of an old one
          MaxDirs          \* bound: cache directories made

ASSUME ProjectFilesAssumption ==
  /\ MaxVersion \in Nat /\ MaxClock \in Nat /\ MaxCopies \in Nat /\ bmax \in Nat \ {0, 1}
  /\ {"none", "partial"} \cap Contents = {}
  /\ MaxDirs \in Nat /\ {"none", "empty"} \cap Processes = {}

VARIABLES
  marker,         \* .anklang.project exists
  file,           \* the project file: NoFile, PartialFile or the saved document
  backups,        \* seconds -> document, the name of a backup is its time
  copies,         \* 0..MaxCopies -> "none", "partial" or a content
  clock,          \* now_strftime
  doc,            \* the project in memory: its version and the samples it uses
  pc,             \* the next step of save_project, "idle" outside
  storage,        \* PStorage: hashes and relative names, the hashes that plugins got
                  \* for their resources, and the samples still to collect
  saved,          \* the last version save_project() reported as saved
  warned,         \* the user was told that the backup failed
  crashes         \* how often the process died since the project was saved
filesVars == <<marker, file, backups, copies, clock, doc, pc, storage, saved, warned, crashes>>

NoStorage == [asset_hashes |-> <<>>, resources |-> <<>>, todo |-> <<>>, dest |-> -1]
NoFile == [version |-> -1, resources |-> <<>>, asset_hashes |-> <<>>]
PartialFile == [NoFile EXCEPT !.version = 0]
Document(version, st) == [version |-> version, resources |-> st.resources, asset_hashes |-> st.asset_hashes]
Complete(f) == f.version > 0
Exists(f) == f # NoFile
Whole(copy) == copy \notin {"none", "partial"}
Hashes(f) == ToSet(f.resources)

FilesTypeOK ==
  /\ marker \in BOOLEAN /\ clock \in 0..MaxClock /\ warned \in BOOLEAN
  /\ copies \in [0..MaxCopies -> Contents \cup {"none", "partial"}]
  /\ DOMAIN backups \subseteq 0..MaxClock /\ saved \in 0..MaxVersion
  /\ pc \in {"idle", "mkdirs", "marker", "backup", "open", "collect", "copy", "store", "close", "remove"}

FilesInit ==
  /\ marker = FALSE /\ file = NoFile /\ backups = <<>> /\ copies = [i \in 0..MaxCopies |-> "none"]
  /\ clock = 0 /\ pc = "idle" /\ storage = NoStorage /\ saved = 0 /\ warned = FALSE /\ crashes = 0
  /\ doc = [version |-> 0, uses |-> <<>>]

Tick == clock < MaxClock /\ clock' = clock + 1 /\ UNCHANGED <<marker, file, backups, copies, doc, pc, storage, saved, warned, crashes>>
\* The user changes the project and the samples its plugins refer to.
Edit ==
  /\ pc = "idle" /\ doc.version < MaxVersion
  /\ \E uses \in {<<>>} \cup {<<c>> : c \in Contents} \cup (Contents \X Contents) :
       doc' = [version |-> doc.version + 1, uses |-> uses]
  /\ UNCHANGED <<marker, file, backups, copies, clock, pc, storage, saved, warned, crashes>>

-----------------------------------------------------------------------------
(* save_project                                                              *)

Goto(label) == pc' = label

\* An existing file must be in a directory with a marker, NO_PROJECT_DIR.
SaveStart ==
  /\ pc = "idle" /\ doc.version > 0
  /\ IF Exists(file) /\ ~marker THEN UNCHANGED <<pc, storage>>
     ELSE Goto("mkdirs") /\ storage' = [NoStorage EXCEPT !.todo = doc.uses]
  /\ UNCHANGED <<marker, file, backups, copies, clock, doc, saved, warned, crashes>>
mkdirs ==
  /\ pc = "mkdirs"
  /\ Goto("marker") \/ Goto("idle")
  /\ UNCHANGED <<marker, file, backups, copies, clock, doc, storage, saved, warned, crashes>>
\* memwrite() removes the file it could not write completely, and leaves the
\* file alone that it could not open.
make_anklang_dir ==
  /\ pc = "marker"
  /\ \/ Goto("backup") /\ marker' = TRUE
     \/ Goto("idle") /\ marker' \in {marker, FALSE}
  /\ UNCHANGED <<file, backups, copies, clock, doc, storage, saved, warned, crashes>>

\* The newest bmax backups; the names sort by time.
PrunedOldest(times) == {t \in times : Cardinality({u \in times : u <= t}) <= bmax}
Pruned(times) == {t \in times : Cardinality({u \in times : u >= t}) <= bmax}
Backup ==
  /\ pc = "backup"
  /\ CASE ~Exists(file) -> Goto("open") /\ UNCHANGED <<file, backups, warned>>
       [] OTHER ->
            \/ Goto("idle") /\ UNCHANGED <<file, backups, warned>>          \* no directory for backups
            \/ Goto("open") /\ warned' = TRUE /\ UNCHANGED <<file, backups>>  \* rename failed
            \/ /\ Goto("open") /\ file' = NoFile
               /\ LET times == DOMAIN backups \cup {clock} IN
                  backups' = [t \in Pruned(times) |-> IF t = clock THEN file ELSE backups[t]]
               /\ UNCHANGED warned
  /\ UNCHANGED <<marker, copies, clock, doc, storage, saved, crashes>>

\* open_with_mimetype(): a file that cannot be created is unlinked.
OpenWriter ==
  /\ pc = "open"
  /\ \/ Goto("collect") /\ file' = PartialFile
     \/ Goto("idle") /\ file' = NoFile
  /\ UNCHANGED <<marker, backups, copies, clock, doc, storage, saved, warned, crashes>>

Taken(i, content) == copies[i] # "none" /\ copies[i] # content
\* writer_collect(): the first name that is free or has the content already.
DestOverwrites(content) == 0
Dest(content) == CHOOSE i \in 0..MaxCopies : ~Taken(i, content) /\ \A k \in 0..(i - 1) : Taken(k, content)
HasDest(content) == \E i \in 0..MaxCopies : ~Taken(i, content)
Known(content) == \E i \in DOMAIN storage.asset_hashes : storage.asset_hashes[i].hash = content
\* The relative name that is stored with the hash is still that of copy 0 when
\* the destination got a counter.
Collected(content) ==
  [storage EXCEPT !.asset_hashes = Append(@, [hash |-> content, relpath |-> 0]),
                  !.resources = Append(@, content), !.todo = Tail(@), !.dest = -1]
writer_collect ==
  /\ pc = "collect" /\ storage.todo # <<>>
  /\ LET content == Head(storage.todo) IN
     IF Known(content)
     THEN storage' = [storage EXCEPT !.resources = Append(@, content), !.todo = Tail(@)] /\ UNCHANGED <<copies, pc>>
     ELSE /\ HasDest(content)
          /\ IF copies[Dest(content)] = content
             THEN storage' = Collected(content) /\ UNCHANGED <<copies, pc>>
             ELSE /\ storage' = [storage EXCEPT !.dest = Dest(content)]
                  /\ copies' = [copies EXCEPT ![Dest(content)] = "partial"] /\ Goto("copy")
  /\ UNCHANGED <<marker, file, backups, clock, doc, saved, warned, crashes>>
\* copy_file(): when cloning fails its target is removed, when copying fails
\* the target stays as it is.  A sample that could not be collected is only
\* noted and left out.
copy_file ==
  /\ pc = "copy" /\ Goto("collect")
  /\ \/ /\ copies' = [copies EXCEPT ![storage.dest] = Head(storage.todo)]
        /\ storage' = Collected(Head(storage.todo))
     \/ /\ \E rest \in {"none", "partial"} : copies' = [copies EXCEPT ![storage.dest] = rest]
        /\ storage' = [storage EXCEPT !.todo = Tail(@), !.dest = -1]
  /\ UNCHANGED <<marker, file, backups, clock, doc, saved, warned, crashes>>
Serialized ==
  /\ pc = "collect" /\ storage.todo = <<>> /\ Goto("store")
  /\ UNCHANGED <<marker, file, backups, copies, clock, doc, storage, saved, warned, crashes>>

\* store_file_data() and store_file().
store_file_data ==
  /\ pc = "store"
  /\ Goto("close") \/ Goto("remove")
  /\ UNCHANGED <<marker, file, backups, copies, clock, doc, storage, saved, warned, crashes>>
\* A file that could not be completed is unlinked, otherwise it is the project's.
CloseWriter ==
  /\ pc = "close" /\ Goto("idle") /\ storage' = NoStorage
  /\ \/ /\ file' = Document(doc.version, storage)
        /\ saved' = doc.version /\ warned' = FALSE /\ crashes' = 0
     \/ file' = NoFile /\ UNCHANGED <<saved, warned, crashes>>
  /\ UNCHANGED <<marker, backups, copies, clock, doc>>
remove_opened ==
  /\ pc = "remove" /\ Goto("idle") /\ file' = NoFile /\ storage' = NoStorage
  /\ UNCHANGED <<marker, backups, copies, clock, doc, saved, warned, crashes>>

\* The process ends: what it had in memory is gone, the files stay.  Starting
\* it again takes a second, and it does not die bmax times in a row.
Crash ==
  /\ pc # "idle" /\ clock < MaxClock /\ crashes < bmax - 1
  /\ Goto("idle") /\ storage' = NoStorage /\ clock' = clock + 1 /\ crashes' = crashes + 1
  /\ UNCHANGED <<marker, file, backups, copies, doc, saved, warned>>
\* load_project(): the archive must be complete.  The samples are looked up by
\* their hashes when the plugins ask for them.
load_project ==
  /\ pc = "idle" /\ Complete(file)
  /\ doc' = [version |-> file.version, uses |-> file.resources]
  /\ doc' # doc
  /\ UNCHANGED <<marker, file, backups, copies, clock, pc, storage, saved, warned, crashes>>
loader_resolve(f, hash) ==
  LET hits == {i \in DOMAIN f.asset_hashes : f.asset_hashes[i].hash = hash}
  IN  IF hits = {} THEN "none" ELSE copies[f.asset_hashes[CHOOSE i \in hits : \A k \in hits : i <= k].relpath]

FilesNext ==
  \/ Tick \/ Edit \/ SaveStart \/ mkdirs \/ make_anklang_dir \/ Backup \/ OpenWriter \/ writer_collect
  \/ copy_file \/ Serialized \/ store_file_data \/ CloseWriter \/ remove_opened \/ Crash \/ load_project
FilesSpec == FilesInit /\ [][FilesNext]_filesVars

-----------------------------------------------------------------------------
Documents == {file} \cup {backups[t] : t \in DOMAIN backups}

\* Whatever fails and whenever the process dies during a later save, the version
\* that was saved last can be loaded: from the project file or from a backup.
\* Only after the user was told that the backup failed it may be overwritten.
SavedSurvives == saved > 0 => warned \/ \E d \in Documents : Complete(d) /\ d.version = saved

\* Collecting never changes a sample that is completely in the project
\* directory, although all samples have the same base name.
SamplesKept == [][\A i \in 0..MaxCopies : Whole(copies[i]) => copies'[i] = copies[i]]_filesVars

\* The project directory has every sample that a saved document refers to.
SamplesPresent == \A d \in Documents : Complete(d) => \A h \in Hashes(d) : \E i \in 0..MaxCopies : copies[i] = h

-----------------------------------------------------------------------------
(* Cache directories (src/ase/storage.cc).  Every save and every snapshot of *)
(* a project makes one, guarded by a file with the id of its process, so     *)
(* that another process can tell which ones are stale.  mkdtemp() never      *)
(* gives the same name twice.  A process runs one save at a time.            *)

VARIABLES
  cdirs,       \* 1..MaxDirs -> [there, by, guard]: guard.pid is missing ("none"), "empty", or names a process
  cprocs,      \* Processes -> [pc, todo, doomed, dir, list]: directories still to check and the one to be
               \* removed by clean_stale, the directory of the current save, cachedirs_list
  cghost       \* history: directories whose guard was read too early, those of processes that
               \* crashed, and for each process the ones it has to remove
cacheVars == <<cdirs, cprocs, cghost>>

pid_string(p) == p
Live(p) == cprocs[p].pc # "dead"
There(d) == cdirs[d].there
NewProcess(label) == [pc |-> label, todo |-> {}, doomed |-> 0, dir |-> 0, list |-> <<>>]

CacheInit ==
  /\ cdirs = <<>> /\ cprocs = [p \in Processes |-> NewProcess("dead")]
  /\ cghost = [misread |-> {}, crashed |-> {}, stale |-> [p \in Processes |-> {}]]

At(p, label) == cprocs[p].pc = label
Becomes(p, proc) == cprocs' = [cprocs EXCEPT ![p] = proc]
Enters(p, label) == Becomes(p, [cprocs[p] EXCEPT !.pc = label])
rmrf(d) == cdirs' = [cdirs EXCEPT ![d].there = FALSE]
GuardedBy(p) == {d \in DOMAIN cdirs : cdirs[d].guard = pid_string(p)}

StartProcess(p) ==
  /\ At(p, "dead") /\ Becomes(p, NewProcess("out"))
  /\ cghost' = [cghost EXCEPT !.stale = [q \in Processes |-> IF q = p THEN {} ELSE @[q] \ GuardedBy(p)]]
  /\ UNCHANGED cdirs

\* save_project() cleans up first, snapshot_project() does not.
snapshot_project(p) ==
  /\ At(p, "out") /\ Enters(p, "mkdtemp") /\ cghost' = [cghost EXCEPT !.stale[p] = {}] /\ UNCHANGED cdirs
clean_stale(p) ==
  LET found == {d \in DOMAIN cdirs : There(d)}
      stale == {d \in found : ~Live(cdirs[d].by) /\ cdirs[d].guard # "none"}
  IN  /\ At(p, "out") /\ Becomes(p, [cprocs[p] EXCEPT !.pc = "clean", !.todo = found])
      /\ cghost' = [cghost EXCEPT !.stale[p] = stale] /\ UNCHANGED cdirs
\* Without a guard file a directory is left alone.  kill (pid, 0) finds live ones.
Stale(p, d) ==
  /\ There(d) /\ cdirs[d].guard \notin {"none", pid_string(p)}
  /\ cdirs[d].guard \in Processes => ~Live(cdirs[d].guard)
check_guard(p) ==
  /\ At(p, "clean")
  /\ \E d \in cprocs[p].todo :
       /\ Becomes(p, IF Stale(p, d) THEN [cprocs[p] EXCEPT !.pc = "rmrf", !.doomed = d, !.todo = @ \ {d}]
                     ELSE [cprocs[p] EXCEPT !.todo = @ \ {d}])
       /\ cghost' = IF cdirs[d].guard = "empty" THEN [cghost EXCEPT !.misread = @ \cup {d}] ELSE cghost
  /\ UNCHANGED cdirs
rmrf_stale(p) == At(p, "rmrf") /\ rmrf(cprocs[p].doomed) /\ Enters(p, "clean") /\ UNCHANGED cghost
clean_done(p) == At(p, "clean") /\ cprocs[p].todo = {} /\ Enters(p, "mkdtemp") /\ UNCHANGED <<cdirs, cghost>>

\* anklang_cachedir_create(), of which each call may fail.  A save goes on
\* without a directory then, a snapshot ends.
CreateFailed(p) == \E label \in {"use", "out"} : Becomes(p, [cprocs[p] EXCEPT !.pc = label, !.dir = 0])
mkdtemp(p) ==
  /\ At(p, "mkdtemp")
  /\ \/ CreateFailed(p) /\ UNCHANGED cdirs
     \/ /\ Len(cdirs) < MaxDirs
        /\ cdirs' = Append(cdirs, [there |-> TRUE, by |-> p, guard |-> "none"])
        /\ Becomes(p, [cprocs[p] EXCEPT !.pc = "open", !.dir = Len(cdirs')])
  /\ UNCHANGED cghost
open_guard(p) ==
  /\ At(p, "open")
  /\ \/ CreateFailed(p) /\ rmrf(cprocs[p].dir)
     \/ Enters(p, "write") /\ cdirs' = [cdirs EXCEPT ![cprocs[p].dir].guard = "empty"]
  /\ UNCHANGED cghost
write_guard(p) ==
  LET d == cprocs[p].dir IN
  /\ At(p, "write")
  /\ \/ CreateFailed(p) /\ rmrf(d)
     \/ /\ There(d) /\ cdirs' = [cdirs EXCEPT ![d].guard = pid_string(p)]
        /\ Becomes(p, [cprocs[p] EXCEPT !.pc = "use", !.list = Append(@, d)])
  /\ UNCHANGED cghost

\* At the end of a save.  The directory stays in the list.
cachedir_cleanup(p) ==
  LET d == cprocs[p].dir IN
  /\ At(p, "use") /\ Becomes(p, [cprocs[p] EXCEPT !.pc = "out", !.dir = 0])
  /\ IF d # 0 /\ There(d) /\ cdirs[d].guard = pid_string(p) THEN rmrf(d) ELSE UNCHANGED cdirs
  /\ UNCHANGED cghost
exit(p) == At(p, "out") /\ Enters(p, "exit") /\ UNCHANGED <<cdirs, cghost>>
atexit_clean_cachedirs(p) ==
  /\ At(p, "exit") /\ UNCHANGED cghost
  /\ IF cprocs[p].list = <<>> THEN Becomes(p, NewProcess("dead")) /\ UNCHANGED cdirs
     ELSE rmrf(Last(cprocs[p].list)) /\ Becomes(p, [cprocs[p] EXCEPT !.list = Front(@)])
CrashProcess(p) ==
  /\ Live(p) /\ Becomes(p, NewProcess("dead")) /\ UNCHANGED cdirs
  /\ cghost' = [cghost EXCEPT !.crashed = @ \cup {d \in DOMAIN cdirs : There(d) /\ cdirs[d].by = p}]

CacheNext ==
  \E p \in Processes :
    \/ StartProcess(p) \/ snapshot_project(p) \/ clean_stale(p) \/ check_guard(p) \/ rmrf_stale(p) \/ clean_done(p)
    \/ mkdtemp(p) \/ open_guard(p) \/ write_guard(p) \/ cachedir_cleanup(p) \/ exit(p) \/ atexit_clean_cachedirs(p)
    \/ CrashProcess(p)

\* A directory stays while it is used, unless another process read its guard
\* between its creation and the write of the process id.
DirKept == \A p \in Processes : At(p, "use") /\ cprocs[p].dir # 0 => There(cprocs[p].dir) \/ cprocs[p].dir \in cghost.misread

\* Cleaning removes every guarded directory of processes that had ended before,
\* unless another process got the id.
StaleRemoved == \A p \in Processes : At(p, "mkdtemp") => \A d \in cghost.stale[p] : ~There(d)

\* A process that ends leaves no directory, and one that crashes only those
\* that a later one removes, apart from those without a guard.
ExitClean ==
  \A d \in DOMAIN cdirs : There(d) => Live(cdirs[d].by) \/ d \in cghost.crashed
=============================================================================
