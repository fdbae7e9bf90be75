---------------------------- MODULE DurableErase ----------------------------
(***************************************************************************)
(* higgaion_key_erase_durable (src/src/pqc_crypto.c:242-286), system call   *)
(* by system call, over a file system that can lose what was not synced.    *)
(*                                                                         *)
(* The caller of the function on handle h is a thread of its own: threads   *)
(* erase concurrently, each on its handle, and the handles may share a key  *)
(* object or a marker path.  The process may die and the machine may lose   *)
(* power between any two steps; the code has no recovery procedure, so what *)
(* the files say afterwards is all there is.                               *)
(*                                                                         *)
(* File system: a directory maps the two names of a path (wal, tmp) to      *)
(* inodes, an inode has a content.  disk[i] holds the contents a power loss *)
(* may leave in inode i, and dirs the directories it may leave.  Directory  *)
(* changes are atomic and ordered (a journal); O_SYNC makes a completed     *)
(* write durable.                                                          *)
(***************************************************************************)
EXTENDS KeyHandles

CONSTANTS
  Path, PathOf,       \* PathOf[h]: the wal_path thread h passes
  Slashed,            \* the paths with a '/' after their first character
  Inode, NoFile,
  SyncCommitsEntry,   \* a synced write also persists the file's new name
  MaxFaults,          \* bound on failing system calls
  MaxCrashes          \* bound on process deaths and power losses

ASSUME EraseConstants ==
  /\ PathOf \in [Handle -> Path]
  /\ Slashed \subseteq Path
  /\ NoFile \notin Inode
  /\ SyncCommitsEntry \in BOOLEAN
  /\ MaxFaults \in Nat /\ MaxCrashes \in Nat

VARIABLES
  pc,        \* pc[h]: where the call on h stands, "idle" outside a call
  fd,        \* fd[h]: the inode open in the call
  result,    \* result[h]: what the last call on h returned
  data,      \* data[i]: content of inode i as a reader sees it
  disk, dir, dirs,
  destroyed, \* history: paths for which a call got past the destruction
  latest,    \* history: how far the latest call on a path got
  lost,      \* history: objects a reference to which was overwritten
  faults, crashes

files == <<fd, data, disk, dir, dirs>>
history == <<destroyed, latest, lost>>
eraseVars ==
  <<pkey, refs, pc, fd, result, data, disk, dir, dirs, destroyed, latest, lost, faults, crashes>>

Content == {"empty", "torn", "ERASING", "ERASED"}
Names == [wal : Inode \cup {NoFile}, tmp : Inode \cup {NoFile}]
PC == {"idle", "opened", "marked", "destroyed", "rewritten", "renamed"}

-----------------------------------------------------------------------------
(* State functions *)

Inodes(d) == {d[p].wal : p \in Path} \cup {d[p].tmp : p \in Path}
FreeInodes == Inode \ ((UNION {Inodes(d) : d \in dirs}) \cup {fd[h] : h \in Handle})

(* What a power loss now could leave under a name: contents of file n of p. *)
Outcomes(p, n) ==
  UNION {IF d[p][n] = NoFile THEN {"absent"} ELSE disk[d[p][n]] : d \in dirs}

DurablyErased(p) == Outcomes(p, "wal") = {"ERASED"}

Busy(h) == pc[h] # "idle"

-----------------------------------------------------------------------------
(* Steps of a call *)

GoTo(h, label) == pc' = [pc EXCEPT ![h] = label] /\ result' = [result EXCEPT ![h] = "none"]
Return(h, r) ==
  /\ pc' = [pc EXCEPT ![h] = "idle"]
  /\ result' = [result EXCEPT ![h] = r]
  /\ fd' = [fd EXCEPT ![h] = NoFile]

Fault == faults < MaxFaults /\ faults' = faults + 1
NoFault == UNCHANGED faults

(* A completed write of a seven-byte marker at offset 0, under O_SYNC.      *)
WriteMarker(h, marker) ==
  /\ data' = [data EXCEPT ![fd[h]] = marker]
  /\ disk' = [disk EXCEPT ![fd[h]] = {marker}]
  /\ dirs' = IF SyncCommitsEntry THEN {dir} ELSE dirs

(* A write that returns short or -1, and the call that gives up on it.      *)
WriteFails(h) ==
  /\ \E c \in {data[fd[h]], "torn"} :
       /\ data' = [data EXCEPT ![fd[h]] = c]
       /\ disk' = [disk EXCEPT ![fd[h]] = @ \cup {c}]
  /\ UNCHANGED <<dir, dirs>>
  /\ Return(h, "false")

(* open(name, O_CREAT | O_TRUNC): an existing file is emptied in place.     *)
OpenTruncated(h, n) ==
  LET p == PathOf[h]
      old == dir[p][n]
  IN \/ /\ old # NoFile
        /\ fd' = [fd EXCEPT ![h] = old]
        /\ data' = [data EXCEPT ![old] = "empty"]
        /\ disk' = [disk EXCEPT ![old] = @ \cup {"empty"}]
        /\ UNCHANGED <<dir, dirs>>
     \/ /\ old = NoFile
        /\ \E new \in FreeInodes :
             /\ fd' = [fd EXCEPT ![h] = new]
             /\ data' = [data EXCEPT ![new] = "empty"]
             /\ disk' = [disk EXCEPT ![new] = {"empty"}]
             /\ dir' = [dir EXCEPT ![p][n] = new]
             /\ dirs' = dirs \cup {dir'}

(* Mutated: no temporary file, the marker file itself is rewritten. *)
OpenWal(h) == OpenTruncated(h, "wal")

OpenTmp(h) == OpenTruncated(h, "tmp")

EraseOpen(h) ==
  /\ ~Busy(h) /\ Live(h)
  /\ OpenTmp(h)
  /\ GoTo(h, "opened")
  /\ NoFault
  /\ latest' = [latest EXCEPT ![PathOf[h]] = "started"]
  /\ UNCHANGED <<pkey, refs, destroyed, lost, crashes>>

(* The path does not fit tmp_path, or open fails.                           *)
EraseOpenFails(h) ==
  /\ ~Busy(h) /\ Live(h)
  /\ Fault
  /\ Return(h, "false")
  /\ UNCHANGED <<pkey, refs, data, disk, dir, dirs, history, crashes>>

(* The guard: no key in the handle, so nothing is attempted.                *)
EraseRefused(h) ==
  /\ ~Busy(h) /\ pkey[h] = NULL
  /\ Return(h, "false")
  /\ UNCHANGED <<pkey, refs, data, disk, dir, dirs, history, faults, crashes>>

(* One write of a marker, which may fail. *)
Write(h, marker, next) ==
  /\ \/ WriteMarker(h, marker) /\ GoTo(h, next) /\ NoFault /\ UNCHANGED <<fd, dir>>
     \/ WriteFails(h) /\ Fault
  /\ UNCHANGED <<pkey, refs, history, crashes>>

WriteErasing(h) == pc[h] = "opened" /\ Write(h, "ERASING", "marked")

(* The key is released, and the two histories record it.                    *)
Destruction(h) ==
  /\ EraseDestroys(h)
  /\ GoTo(h, "destroyed")
  /\ destroyed' = destroyed \cup {PathOf[h]}
  /\ latest' = [latest EXCEPT ![PathOf[h]] = "destroyed"]
  /\ UNCHANGED <<files, lost, faults, crashes>>

(* Mutated: destruction before the ERASING marker is written. *)
EraseDestroyEarly(h) == pc[h] \in {"opened", "marked"} /\ Destruction(h)

EraseDestroy(h) == pc[h] = "marked" /\ Destruction(h)

(* Mutated: the ERASED marker written without waiting for the destruction. *)
WriteErasedEarly(h) == pc[h] \in {"marked", "destroyed"} /\ Write(h, "ERASED", "rewritten")

(* Mutated: no O_SYNC and no fsync behind the ERASED marker. *)
WriteErasedUnsynced(h) ==
  /\ pc[h] = "destroyed"
  /\ data' = [data EXCEPT ![fd[h]] = "ERASED"]
  /\ disk' = [disk EXCEPT ![fd[h]] = @ \cup {"torn", "ERASED"}]
  /\ GoTo(h, "rewritten")
  /\ UNCHANGED <<pkey, refs, fd, dir, dirs, history, faults, crashes>>

WriteErased(h) == pc[h] = "destroyed" /\ Write(h, "ERASED", "rewritten")

(* close(fd), then rename(tmp, wal) by name: whatever tmp names by now.     *)
RenameTmp(p) ==
  /\ dir[p].tmp # NoFile
  /\ dir' = [dir EXCEPT ![p] = [wal |-> dir[p].tmp, tmp |-> NoFile]]
  /\ dirs' = dirs \cup {dir'}

EraseRename(h) ==
  /\ pc[h] = "rewritten"
  /\ \/ RenameTmp(PathOf[h]) /\ fd' = [fd EXCEPT ![h] = NoFile] /\ GoTo(h, "renamed") /\ NoFault
     \/ dir[PathOf[h]].tmp = NoFile /\ Return(h, "false") /\ NoFault /\ UNCHANGED <<dir, dirs>>
     \/ Fault /\ Return(h, "false") /\ UNCHANGED <<dir, dirs>>
  /\ UNCHANGED <<pkey, refs, data, disk, history, crashes>>

(* Mutated: no directory fsync, as before HIG-009. *)
EraseSyncNothing(h) ==
  /\ pc[h] = "renamed"
  /\ Return(h, "true")
  /\ UNCHANGED <<pkey, refs, data, disk, dir, dirs, history, faults, crashes>>

(* The directory is synced when the path names one and it can be opened; a  *)
(* failure is not reported.                                                *)
EraseSyncDir(h) ==
  /\ pc[h] = "renamed"
  /\ \/ PathOf[h] \in Slashed /\ dirs' = {dir} /\ NoFault
     \/ PathOf[h] \in Slashed /\ UNCHANGED dirs /\ Fault
     \/ PathOf[h] \notin Slashed /\ UNCHANGED dirs /\ NoFault
  /\ Return(h, "true")
  /\ UNCHANGED <<pkey, refs, data, disk, dir, history, crashes>>

EraseStep(h) ==
  \/ EraseOpen(h) \/ EraseOpenFails(h) \/ EraseRefused(h)
  \/ WriteErasing(h) \/ EraseDestroy(h) \/ WriteErased(h)
  \/ EraseRename(h) \/ EraseSyncDir(h)

-----------------------------------------------------------------------------
(* The rest of the process, and its ends *)

(* The struct h is overwritten: a key it held loses a reference nobody will  *)
(* give back.                                                              *)
Overwrites(h) == lost' = lost \cup ({pkey[h]} \cap Obj)

(* Handles outside a call are used through every other operation, those that *)
(* overwrite a struct without a release included.                          *)
UseHandles ==
  /\ \/ \E h \in Handle : ~Busy(h) /\ (KeyInit(h) \/ Retire(h) \/ KeyFree(h)) /\ UNCHANGED lost
     \/ \E h \in Handle, alg \in Alg :
          ~Busy(h) /\ (GenerateFails(h, alg) \/ GenerateOk(h, alg)) /\ UNCHANGED lost
     \/ \E h \in Handle, alg \in Alg : ~Busy(h) /\ GenerateRejected(h, alg) /\ Overwrites(h)
     \/ \E dst, src \in Handle : ~Busy(dst) /\ KeyUpRef(dst, src) /\ Overwrites(dst)
  /\ UNCHANGED <<pc, result, files, destroyed, latest, faults, crashes>>

(* The process dies: memory is lost, the kernel keeps its files.            *)
Die ==
  /\ crashes < MaxCrashes
  /\ crashes' = crashes + 1
  /\ pkey' = [h \in Handle |-> Raw]
  /\ refs' = [o \in Obj |-> 0]
  /\ pc' = [h \in Handle |-> "idle"]
  /\ result' = [h \in Handle |-> "none"]
  /\ fd' = [h \in Handle |-> NoFile]
  /\ lost' = {}
  /\ UNCHANGED <<destroyed, latest, faults>>

ProcessCrash == Die /\ UNCHANGED <<data, disk, dir, dirs>>

PowerLoss ==
  /\ Die
  /\ dir' \in dirs /\ dirs' = {dir'}
  /\ data' \in {f \in [Inode -> Content] : \A i \in Inode : f[i] \in disk[i]}
  /\ disk' = [i \in Inode |-> {data'[i]}]

-----------------------------------------------------------------------------
EraseInit ==
  /\ Init
  /\ pc = [h \in Handle |-> "idle"]
  /\ fd = [h \in Handle |-> NoFile]
  /\ result = [h \in Handle |-> "none"]
  /\ data = [i \in Inode |-> "empty"]
  /\ disk = [i \in Inode |-> {"empty"}]
  /\ dir = [p \in Path |-> [wal |-> NoFile, tmp |-> NoFile]]
  /\ dirs = {dir}
  /\ destroyed = {}
  /\ latest = [p \in Path |-> "none"]
  /\ lost = {}
  /\ faults = 0 /\ crashes = 0

EraseNext ==
  \/ \E h \in Handle : EraseStep(h)
  \/ UseHandles
  \/ ProcessCrash \/ PowerLoss

EraseSpec == EraseInit /\ [][EraseNext]_eraseVars

(* A thread inside a call is scheduled; nothing obliges it to call again.   *)
CallsProgress == \A h \in Handle : WF_eraseVars(EraseStep(h) /\ Busy(h))
(* A caller that got false tries again.                                     *)
Retries == \A h \in Handle : WF_eraseVars((EraseOpen(h) \/ EraseRefused(h)) /\ result[h] = "false")

CallsSpec == EraseSpec /\ CallsProgress
FairEraseSpec == CallsSpec /\ Retries

-----------------------------------------------------------------------------
(* Properties *)

EraseTypeOK ==
  /\ TypeOK
  /\ pc \in [Handle -> PC]
  /\ fd \in [Handle -> Inode \cup {NoFile}]
  /\ result \in [Handle -> {"none", "true", "false"}]
  /\ data \in [Inode -> Content]
  /\ disk \in [Inode -> (SUBSET Content) \ {{}}]
  /\ dir \in [Path -> Names]
  /\ dirs \in SUBSET [Path -> Names] /\ dir \in dirs
  /\ destroyed \in SUBSET Path
  /\ latest \in [Path -> {"none", "started", "destroyed"}]
  /\ lost \in SUBSET Obj
  /\ faults \in 0..MaxFaults /\ crashes \in 0..MaxCrashes

(* However the machine stops, a file that says ERASED, under either name,   *)
(* means a call on its path destroyed the key it was given first            *)
(* (pqc_crypto.c:258-264).                                                 *)
MarkerFollowsDestruction ==
  \A p \in Path :
    "ERASED" \in Outcomes(p, "wal") \cup Outcomes(p, "tmp") => p \in destroyed

(* However the machine stops, wal_path is absent or says ERASED: the intent *)
(* and half-written markers only ever live in the tmp file                 *)
(* (pqc_crypto.c:246-268).                                                 *)
WalIsAbsentOrErased ==
  \A p \in Path : Outcomes(p, "wal") \subseteq {"absent", "ERASED"}

(* Write-ahead: a key destroyed by the latest call on a path left a marker  *)
(* (ERASING, ERASED or a torn one) that no power loss can take away         *)
(* (pqc_crypto.c:255-260).                                                 *)
DestructionLeavesTrace ==
  \A p \in Path :
    latest[p] = "destroyed" =>
      \A d \in dirs : \E i \in {d[p].wal, d[p].tmp} \ {NoFile} : "empty" \notin disk[i]

(* While no system call has failed, a call that returned true left a marker *)
(* no power loss can take away (pqc_crypto.c:246, 270-284); a directory that *)
(* cannot be opened is a failure the code does not report.                  *)
TrueMeansDurable ==
  faults = 0 => \A h \in Handle : result[h] = "true" => DurablyErased(PathOf[h])

(* Once no power loss can take the ERASED marker away, no later call does   *)
(* either: the "monotonic marker" of pqc_crypto.c:262.                      *)
ErasedIsForever ==
  [][\A p \in Path : DurablyErased(p) => DurablyErased(p)']_eraseVars

(* After the destruction inside a call nothing is left of the key           *)
(* (pqc_crypto.c:258 "Destroy key material").                               *)
DestructionIsFinal ==
  [][\A h \in Handle : pc[h] = "marked" /\ pc'[h] = "destroyed" => refs'[pkey[h]] = 0]_eraseVars

(* What the destruction leaves of the key is one reference for each other    *)
(* owner, nothing when there is none, exactly when none of its references    *)
(* was overwritten before: by a refused regeneration or by an up_ref into a  *)
(* struct that held it.  Sharing, freeing, failing regenerations and reuse   *)
(* of the address make no difference (pqc_crypto.c:185-237, 258-260, 290-304). *)
DestructionLeavesOwners ==
  [][\A h \in Handle :
       pc[h] = "marked" /\ pc'[h] = "destroyed" =>
         (refs'[pkey[h]] = Cardinality(Holders(pkey[h]) \ {h}) <=> pkey[h] \notin lost)]_eraseVars

(* With calls that go on, a destroyed key ends up durably recorded, unless  *)
(* a system call failed or the process died on the way.                    *)
DestroyedIsRecorded ==
  \A p \in Path : p \in destroyed ~> DurablyErased(p) \/ faults + crashes > 0

(* The weaker form, where a caller that got false tries again and a reader  *)
(* of wal_path need only see ERASED once the faults are over.              *)
DestroyedIsMarked ==
  \A p \in Path :
    p \in destroyed ~> dir[p].wal # NoFile /\ data[dir[p].wal] = "ERASED"

(* The code implements the log: destruction, then a record that stays.      *)
Log == INSTANCE ErasureLog
         WITH gone <- destroyed, recorded <- {p \in Path : DurablyErased(p)}
ImplementsLog == Log!Spec
=============================================================================
