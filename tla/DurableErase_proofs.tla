------------------------- MODULE DurableErase_proofs ------------------------
(***************************************************************************)
(* What the files of an erasure can say, for any number of threads, paths,     *)
(* inodes, faults and crashes.  An inode that a path's names or open files may  *)
(* reach is reached by no other path, so an ERASED in it was written by a call  *)
(* on that path, after its destruction.                                      *)
(***************************************************************************)
EXTENDS DurableErase, KeyHandles_proofs

(* Inode i is, or after a power loss may be, under a name of p, or open for p.  *)
Reaches(p, i) ==
  \/ \E d \in dirs : d[p].wal = i \/ d[p].tmp = i
  \/ \E h \in Handle : PathOf[h] = p /\ fd[h] = i

FilesTyped ==
  /\ pc \in [Handle -> PC]
  /\ fd \in [Handle -> Inode \cup {NoFile}]
  /\ data \in [Inode -> Content]
  /\ disk \in [Inode -> SUBSET Content]
  /\ dirs \in SUBSET [Path -> Names] /\ dir \in dirs
  /\ destroyed \in SUBSET Path

Progress ==
  \A h \in Handle :
    /\ pc[h] \in {"opened", "marked", "destroyed", "rewritten"} => fd[h] \in Inode
    /\ pc[h] \in {"destroyed", "rewritten", "renamed"} => PathOf[h] \in destroyed

Separate ==
  \A p, q \in Path : \A i \in Inode : Reaches(p, i) /\ Reaches(q, i) => p = q

Truthful ==
  \A p \in Path : \A i \in Inode :
    Reaches(p, i) /\ (data[i] = "ERASED" \/ "ERASED" \in disk[i]) => p \in destroyed

FInv == FilesTyped /\ Progress /\ Separate /\ Truthful

-----------------------------------------------------------------------------
(* What a step does to the files *)

OpenFile(h, i) == fd' = [fd EXCEPT ![h] = i]
CloseFile(h) == fd' = [fd EXCEPT ![h] = NoFile]
To(h, label) == pc' = [pc EXCEPT ![h] = label]
Notes(h, how) == latest' = [latest EXCEPT ![PathOf[h]] = how]

Truncates(h) ==
  LET old == dir[PathOf[h]].tmp
  IN /\ old \in Inode /\ OpenFile(h, old) /\ To(h, "opened")
     /\ data' = [data EXCEPT ![old] = "empty"]
     /\ disk' = [disk EXCEPT ![old] = disk[old] \cup {"empty"}]
     /\ Notes(h, "started")
     /\ UNCHANGED <<dir, dirs, destroyed>>

Creates(h) ==
  \E new \in Inode :
     /\ \A p \in Path : ~Reaches(p, new)
     /\ OpenFile(h, new) /\ To(h, "opened")
     /\ data' = [data EXCEPT ![new] = "empty"]
     /\ disk' = [disk EXCEPT ![new] = {"empty"}]
     /\ dir' \in [Path -> Names]
     /\ dir[PathOf[h]].tmp = NoFile
     /\ \A p \in Path : p # PathOf[h] => dir'[p] = dir[p]
     /\ dir'[PathOf[h]].wal = dir[PathOf[h]].wal /\ dir'[PathOf[h]].tmp = new
     /\ dirs' = dirs \cup {dir'}
     /\ Notes(h, "started")
     /\ UNCHANGED destroyed

Marks(h, marker, from, to) ==
  /\ pc[h] = from /\ To(h, to)
  /\ data' = [data EXCEPT ![fd[h]] = marker]
  /\ disk' = [disk EXCEPT ![fd[h]] = {marker}]
  /\ dirs' = IF SyncCommitsEntry THEN {dir} ELSE dirs
  /\ UNCHANGED <<fd, dir, destroyed, latest>>

Tears(h) ==
  /\ pc[h] \in {"opened", "destroyed"} /\ To(h, "idle") /\ CloseFile(h)
  /\ \E c \in {data[fd[h]], "torn"} :
       /\ data' = [data EXCEPT ![fd[h]] = c]
       /\ disk' = [disk EXCEPT ![fd[h]] = disk[fd[h]] \cup {c}]
  /\ UNCHANGED <<dir, dirs, destroyed, latest>>

Destroys(h) ==
  /\ pc[h] = "marked" /\ To(h, "destroyed")
  /\ destroyed' = destroyed \cup {PathOf[h]} /\ Notes(h, "destroyed")
  /\ UNCHANGED <<fd, data, disk, dir, dirs>>

Renames(h) ==
  /\ pc[h] = "rewritten" /\ To(h, "renamed") /\ CloseFile(h)
  /\ dir[PathOf[h]].tmp \in Inode
  /\ dir' \in [Path -> Names]
  /\ \A p \in Path : p # PathOf[h] => dir'[p] = dir[p]
  /\ dir'[PathOf[h]].wal = dir[PathOf[h]].tmp /\ dir'[PathOf[h]].tmp = NoFile
  /\ dirs' = dirs \cup {dir'}
  /\ UNCHANGED <<data, disk, destroyed, latest>>

(* A call ends, perhaps after it synced the directory. *)
Ends(h) ==
  /\ To(h, "idle") /\ CloseFile(h)
  /\ dirs' \in {dirs, {dir}}
  /\ UNCHANGED <<data, disk, dir, destroyed, latest>>

Stops ==
  /\ pc' = [h \in Handle |-> "idle"] /\ fd' = [h \in Handle |-> NoFile]
  /\ UNCHANGED <<destroyed, latest>>
  /\ \/ UNCHANGED <<data, disk, dir, dirs>>
     \/ /\ dir' \in dirs /\ dirs' = {dir'}
        /\ data' \in [Inode -> Content] /\ \A i \in Inode : data'[i] \in disk[i]
        /\ disk' = [i \in Inode |-> {data'[i]}]

Rests == UNCHANGED <<pc, fd, data, disk, dir, dirs, destroyed, latest>>

Effect ==
  \/ \E h \in Handle :
       \/ Truncates(h) \/ Creates(h) \/ Tears(h) \/ Destroys(h) \/ Renames(h) \/ Ends(h)
       \/ Marks(h, "ERASING", "opened", "marked")
       \/ Marks(h, "ERASED", "destroyed", "rewritten")
  \/ Stops \/ Rests

(* Every step of the machine has one of these effects. *)
LEMMA StepHasEffect ==
  ASSUME FInv, [EraseNext]_eraseVars
  PROVE  Effect
<1>1. /\ dir \in [Path -> Names] /\ PathOf \in [Handle -> Path] /\ NoFile \notin Inode
      /\ \A p \in Path : /\ dir[p].wal \in Inode \cup {NoFile}
                         /\ dir[p].tmp \in Inode \cup {NoFile}
  BY EraseConstants DEF FInv, FilesTyped, Names
<1>2. ASSUME NEW h \in Handle, EraseOpen(h) PROVE Truncates(h) \/ Creates(h)
  <2> DEFINE p == PathOf[h]
  <2>1. CASE dir[p].tmp # NoFile
    BY <1>1, <1>2, <2>1 DEF EraseOpen, OpenTmp, OpenTruncated, GoTo, Truncates, OpenFile, To, Notes
  <2>2. CASE dir[p].tmp = NoFile
    <3>1. PICK new \in FreeInodes :
            /\ fd' = [fd EXCEPT ![h] = new] /\ pc' = [pc EXCEPT ![h] = "opened"]
            /\ data' = [data EXCEPT ![new] = "empty"]
            /\ disk' = [disk EXCEPT ![new] = {"empty"}]
            /\ dir' = [dir EXCEPT ![p]["tmp"] = new]
            /\ dirs' = dirs \cup {dir'} /\ Notes(h, "started") /\ UNCHANGED destroyed
      BY <1>2, <2>2 DEF EraseOpen, OpenTmp, OpenTruncated, GoTo, Notes
    <3>2. new \in Inode /\ \A q \in Path : ~Reaches(q, new)
      <4>1. new \in Inode /\ \A k \in Handle : fd[k] # new
        BY DEF FreeInodes
      <4>2. ASSUME NEW d \in dirs, NEW q \in Path PROVE d[q].wal # new /\ d[q].tmp # new
        <5>1. new \notin Inodes(d)
          BY DEF FreeInodes
        <5>2. QED
          BY <5>1 DEF Inodes
      <4>3. QED
        BY <4>1, <4>2 DEF Reaches
    <3>3. /\ dir' \in [Path -> Names]
          /\ \A q \in Path : q # p => dir'[q] = dir[q]
          /\ dir'[p].wal = dir[p].wal /\ dir'[p].tmp = new
      BY <1>1, <3>1, <3>2 DEF Names
    <3>4. QED
      BY <2>2, <3>1, <3>2, <3>3 DEF Creates, OpenFile, To
  <2>3. QED
    BY <2>1, <2>2
<1>3. ASSUME NEW h \in Handle, EraseOpenFails(h) PROVE Ends(h)
  BY <1>3 DEF EraseOpenFails, Return, Ends, To, CloseFile, history
<1>4. ASSUME NEW h \in Handle, EraseRefused(h) PROVE Ends(h)
  BY <1>4 DEF EraseRefused, Return, Ends, To, CloseFile, history
<1>5. ASSUME NEW h \in Handle, WriteErasing(h)
      PROVE  Tears(h) \/ Marks(h, "ERASING", "opened", "marked")
  BY <1>5 DEF WriteErasing, Write, WriteMarker, WriteFails, GoTo, Return, Tears, Marks, To,
              CloseFile, history
<1>6. ASSUME NEW h \in Handle, WriteErased(h)
      PROVE  Tears(h) \/ Marks(h, "ERASED", "destroyed", "rewritten")
  BY <1>6 DEF WriteErased, Write, WriteMarker, WriteFails, GoTo, Return, Tears, Marks, To,
              CloseFile, history
<1>7. ASSUME NEW h \in Handle, EraseDestroy(h) PROVE Destroys(h)
  BY <1>7 DEF EraseDestroy, Destruction, GoTo, Destroys, To, Notes, files
<1>8. ASSUME NEW h \in Handle, EraseRename(h) PROVE Renames(h) \/ Ends(h)
  <2> DEFINE p == PathOf[h]
  <2>1. CASE RenameTmp(p) /\ fd' = [fd EXCEPT ![h] = NoFile] /\ GoTo(h, "renamed")
    <3>1. dir' = [dir EXCEPT ![p] = [wal |-> dir[p].tmp, tmp |-> NoFile]] /\ dir[p].tmp \in Inode
      BY <1>1, <2>1 DEF RenameTmp
    <3>2. /\ dir' \in [Path -> Names]
          /\ \A q \in Path : q # p => dir'[q] = dir[q]
          /\ dir'[p].wal = dir[p].tmp /\ dir'[p].tmp = NoFile
      BY <1>1, <3>1 DEF Names
    <3>3. QED
      BY <1>8, <2>1, <3>1, <3>2
      DEF EraseRename, RenameTmp, GoTo, Renames, To, CloseFile, history
  <2>2. CASE Return(h, "false") /\ UNCHANGED <<dir, dirs>>
    BY <1>8, <2>2 DEF EraseRename, Return, Ends, To, CloseFile, history
  <2>3. QED
    BY <1>8, <2>1, <2>2 DEF EraseRename
<1>9. ASSUME NEW h \in Handle, EraseSyncDir(h) PROVE Ends(h)
  BY <1>9 DEF EraseSyncDir, Return, Ends, To, CloseFile, history
<1>10. ASSUME ProcessCrash \/ PowerLoss PROVE Stops
  BY <1>10 DEF ProcessCrash, PowerLoss, Die, Stops, history
<1>11. ASSUME UseHandles \/ UNCHANGED eraseVars PROVE Rests
  BY <1>11 DEF UseHandles, eraseVars, Rests, files, history
<1>12. QED
  BY <1>2, <1>3, <1>4, <1>5, <1>6, <1>7, <1>8, <1>9, <1>10, <1>11
  DEF EraseNext, EraseStep, Effect

-----------------------------------------------------------------------------
(* The invariant is kept by every effect *)

LEMMA EffectKeepsTypes ==
  ASSUME FInv, Effect
  PROVE  FilesTyped'
<1>1. /\ PathOf \in [Handle -> Path] /\ NoFile \notin Inode
      /\ FilesTyped /\ Progress
  BY EraseConstants DEF FInv
<1>2. ASSUME NEW h \in Handle, Truncates(h) PROVE FilesTyped'
  BY <1>1, <1>2 DEF Truncates, OpenFile, To, FilesTyped, PC, Content
<1>3. ASSUME NEW h \in Handle, Creates(h) PROVE FilesTyped'
  BY <1>1, <1>3 DEF Creates, OpenFile, To, FilesTyped, PC, Content
<1>4. ASSUME NEW h \in Handle, Tears(h) PROVE FilesTyped'
  <2>1. fd[h] \in Inode
    BY <1>1, <1>4 DEF Tears, Progress
  <2>2. QED
    BY <1>1, <1>4, <2>1 DEF Tears, CloseFile, To, FilesTyped, PC, Content
<1>5. ASSUME NEW h \in Handle, Destroys(h) PROVE FilesTyped'
  BY <1>1, <1>5 DEF Destroys, To, FilesTyped, PC
<1>6. ASSUME NEW h \in Handle, Renames(h) PROVE FilesTyped'
  BY <1>1, <1>6 DEF Renames, CloseFile, To, FilesTyped, PC
<1>7. ASSUME NEW h \in Handle, Ends(h) PROVE FilesTyped'
  BY <1>1, <1>7 DEF Ends, CloseFile, To, FilesTyped, PC
<1>8. ASSUME NEW h \in Handle, NEW marker \in {"ERASING", "ERASED"}, NEW from,
             NEW to \in PC, from \in {"opened", "destroyed"}, Marks(h, marker, from, to)
      PROVE FilesTyped'
  <2>1. fd[h] \in Inode
    BY <1>1, <1>8 DEF Marks, Progress
  <2>2. QED
    BY <1>1, <1>8, <2>1 DEF Marks, To, FilesTyped, Content
<1>9. ASSUME Stops PROVE FilesTyped'
  BY <1>1, <1>9 DEF Stops, FilesTyped, PC, Content
<1>10. ASSUME Rests PROVE FilesTyped'
  BY <1>1, <1>10 DEF Rests, FilesTyped
<1>11. QED
  BY <1>2, <1>3, <1>4, <1>5, <1>6, <1>7, <1>8, <1>9, <1>10 DEF Effect, PC

LEMMA EffectKeepsProgress ==
  ASSUME FInv, Effect
  PROVE  Progress'
<1>1. /\ PathOf \in [Handle -> Path] /\ NoFile \notin Inode
      /\ FilesTyped /\ Progress
  BY EraseConstants DEF FInv
<1>2. ASSUME NEW h \in Handle, Truncates(h) PROVE Progress'
  BY <1>1, <1>2 DEF Truncates, OpenFile, To, FilesTyped, Progress
<1>3. ASSUME NEW h \in Handle, Creates(h) PROVE Progress'
  BY <1>1, <1>3 DEF Creates, OpenFile, To, FilesTyped, Progress
<1>4. ASSUME NEW h \in Handle, Tears(h) PROVE Progress'
  BY <1>1, <1>4 DEF Tears, CloseFile, To, FilesTyped, Progress
<1>5. ASSUME NEW h \in Handle, Destroys(h) PROVE Progress'
  BY <1>1, <1>5 DEF Destroys, To, FilesTyped, Progress
<1>6. ASSUME NEW h \in Handle, Renames(h) PROVE Progress'
  BY <1>1, <1>6 DEF Renames, CloseFile, To, FilesTyped, Progress
<1>7. ASSUME NEW h \in Handle, Ends(h) PROVE Progress'
  BY <1>1, <1>7 DEF Ends, CloseFile, To, FilesTyped, Progress
<1>8. ASSUME NEW h \in Handle, \/ Marks(h, "ERASING", "opened", "marked")
                              \/ Marks(h, "ERASED", "destroyed", "rewritten")
      PROVE Progress'
  BY <1>1, <1>8 DEF Marks, To, FilesTyped, Progress
<1>9. ASSUME Stops \/ Rests PROVE Progress'
  BY <1>1, <1>9 DEF Stops, Rests, Progress
<1>10. QED
  BY <1>2, <1>3, <1>4, <1>5, <1>6, <1>7, <1>8, <1>9 DEF Effect

(* An effect gives a path at most the new inode of its own call. *)
LEMMA EffectKeepsSeparate ==
  ASSUME FInv, Effect
  PROVE  Separate'
<1>1. /\ PathOf \in [Handle -> Path] /\ NoFile \notin Inode
      /\ FilesTyped /\ Progress /\ Separate
  BY EraseConstants DEF FInv
<1>2. ASSUME \A p \in Path : \A i \in Inode : Reaches(p, i)' => Reaches(p, i)
      PROVE Separate'
  BY <1>1, <1>2 DEF Separate
<1>3. ASSUME NEW h \in Handle, Creates(h) PROVE Separate'
  <2>1. PICK new \in Inode :
          /\ \A p \in Path : ~Reaches(p, new)
          /\ OpenFile(h, new)
          /\ \A p \in Path : p # PathOf[h] => dir'[p] = dir[p]
          /\ dir'[PathOf[h]].wal = dir[PathOf[h]].wal /\ dir'[PathOf[h]].tmp = new
          /\ dirs' = dirs \cup {dir'}
    BY <1>3 DEF Creates
  <2>2. ASSUME NEW p \in Path, NEW i \in Inode, Reaches(p, i)'
        PROVE Reaches(p, i) \/ (i = new /\ p = PathOf[h])
    BY <1>1, <2>1, <2>2 DEF Reaches, OpenFile, FilesTyped
  <2>3. QED
    BY <1>1, <2>1, <2>2 DEF Separate
<1>4. ASSUME NEW h \in Handle, Truncates(h) PROVE Separate'
  <2>1. ASSUME NEW p \in Path, NEW i \in Inode, Reaches(p, i)' PROVE Reaches(p, i)
    BY <1>1, <1>4, <2>1 DEF Reaches, Truncates, OpenFile, FilesTyped
  <2>2. QED
    BY <1>2, <2>1
<1>5. ASSUME NEW h \in Handle, Renames(h) PROVE Separate'
  <2>1. ASSUME NEW p \in Path, NEW i \in Inode, Reaches(p, i)' PROVE Reaches(p, i)
    BY <1>1, <1>5, <2>1 DEF Reaches, Renames, CloseFile, FilesTyped
  <2>2. QED
    BY <1>2, <2>1
<1>6. ASSUME NEW h \in Handle, Tears(h) \/ Destroys(h) \/ Ends(h) PROVE Separate'
  <2>1. ASSUME NEW p \in Path, NEW i \in Inode, Reaches(p, i)' PROVE Reaches(p, i)
    BY <1>1, <1>6, <2>1 DEF Reaches, Tears, Destroys, Ends, CloseFile, FilesTyped
  <2>2. QED
    BY <1>2, <2>1
<1>7. ASSUME NEW h \in Handle, NEW marker, NEW from, NEW to, Marks(h, marker, from, to)
      PROVE Separate'
  <2>1. ASSUME NEW p \in Path, NEW i \in Inode, Reaches(p, i)' PROVE Reaches(p, i)
    BY <1>1, <1>7, <2>1 DEF Reaches, Marks, FilesTyped
  <2>2. QED
    BY <1>2, <2>1
<1>8. ASSUME Stops \/ Rests PROVE Separate'
  <2>1. ASSUME NEW p \in Path, NEW i \in Inode, Reaches(p, i)' PROVE Reaches(p, i)
    BY <1>1, <1>8, <2>1 DEF Reaches, Stops, Rests, FilesTyped
  <2>2. QED
    BY <1>2, <2>1
<1>9. QED
  BY <1>3, <1>4, <1>5, <1>6, <1>7, <1>8 DEF Effect

(* Inode i says, or after a power loss may say, ERASED. *)
Claims(i) == data[i] = "ERASED" \/ "ERASED" \in disk[i]

LEMMA EffectKeepsTruthful ==
  ASSUME FInv, Effect
  PROVE  Truthful'
<1>1. /\ PathOf \in [Handle -> Path] /\ NoFile \notin Inode
      /\ FilesTyped /\ Progress /\ Separate /\ Truthful
  BY EraseConstants DEF FInv
<1>2. ASSUME \A p \in Path : \A i \in Inode :
               Reaches(p, i)' /\ Claims(i)' => Reaches(p, i) /\ Claims(i),
             destroyed \subseteq destroyed'
      PROVE Truthful'
  BY <1>1, <1>2 DEF Truthful, Claims
<1>3. ASSUME NEW h \in Handle, Creates(h) PROVE Truthful'
  <2>1. PICK new \in Inode :
          /\ OpenFile(h, new)
          /\ \A p \in Path : p # PathOf[h] => dir'[p] = dir[p]
          /\ dir'[PathOf[h]].wal = dir[PathOf[h]].wal /\ dir'[PathOf[h]].tmp = new
          /\ dirs' = dirs \cup {dir'}
          /\ data' = [data EXCEPT ![new] = "empty"]
          /\ disk' = [disk EXCEPT ![new] = {"empty"}]
          /\ destroyed' = destroyed
    BY <1>3 DEF Creates
  <2>2. ASSUME NEW p \in Path, NEW i \in Inode, Reaches(p, i)', i # new
        PROVE Reaches(p, i)
    BY <1>1, <2>1, <2>2 DEF Reaches, OpenFile, FilesTyped
  <2>3. ASSUME NEW i \in Inode, Claims(i)' PROVE i # new /\ Claims(i)
    BY <1>1, <2>1, <2>3 DEF Claims, FilesTyped
  <2>4. QED
    BY <1>2, <2>1, <2>2, <2>3
<1>4. ASSUME NEW h \in Handle, Truncates(h) PROVE Truthful'
  <2>1. ASSUME NEW p \in Path, NEW i \in Inode, Reaches(p, i)' PROVE Reaches(p, i)
    BY <1>1, <1>4, <2>1 DEF Reaches, Truncates, OpenFile, FilesTyped
  <2>2. ASSUME NEW i \in Inode, Claims(i)' PROVE Claims(i)
    BY <1>1, <1>4, <2>2 DEF Claims, Truncates, FilesTyped
  <2>3. QED
    BY <1>2, <1>4, <2>1, <2>2 DEF Truncates
<1>5. ASSUME NEW h \in Handle, Renames(h) \/ Ends(h) PROVE Truthful'
  <2>1. ASSUME NEW p \in Path, NEW i \in Inode, Reaches(p, i)' PROVE Reaches(p, i)
    BY <1>1, <1>5, <2>1 DEF Reaches, Renames, Ends, CloseFile, FilesTyped
  <2>2. ASSUME NEW i \in Inode, Claims(i)' PROVE Claims(i)
    BY <1>5, <2>2 DEF Claims, Renames, Ends
  <2>3. QED
    BY <1>2, <1>5, <2>1, <2>2 DEF Renames, Ends
<1>6. ASSUME NEW h \in Handle, Destroys(h) PROVE Truthful'
  BY <1>1, <1>2, <1>6 DEF Destroys, Reaches, Claims
<1>7. ASSUME NEW h \in Handle, Tears(h) PROVE Truthful'
  <2>1. ASSUME NEW p \in Path, NEW i \in Inode, Reaches(p, i)' PROVE Reaches(p, i)
    BY <1>1, <1>7, <2>1 DEF Reaches, Tears, CloseFile, FilesTyped
  <2>2. ASSUME NEW i \in Inode, Claims(i)' PROVE Claims(i)
    <3>1. fd[h] \in Inode
      BY <1>1, <1>7 DEF Tears, Progress
    <3>2. QED
      BY <1>1, <1>7, <2>2, <3>1 DEF Claims, Tears, FilesTyped
  <2>3. QED
    BY <1>2, <1>7, <2>1, <2>2 DEF Tears
<1>8. ASSUME NEW h \in Handle, NEW marker, NEW from, NEW to, Marks(h, marker, from, to),
             from \in {"opened", "destroyed"}, marker = "ERASED" => from = "destroyed"
      PROVE Truthful'
  <2>1. fd[h] \in Inode /\ Reaches(PathOf[h], fd[h])
    BY <1>1, <1>8 DEF Marks, Progress, Reaches
  <2>2. ASSUME NEW p \in Path, NEW i \in Inode, Reaches(p, i)' PROVE Reaches(p, i)
    BY <1>1, <1>8, <2>2 DEF Reaches, Marks, FilesTyped
  <2>3. CASE marker = "ERASED"
    <3>1. PathOf[h] \in destroyed
      BY <1>1, <1>8, <2>3 DEF Marks, Progress
    <3>2. ASSUME NEW p \in Path, NEW i \in Inode, Reaches(p, i)', Claims(i)', i # fd[h]
          PROVE p \in destroyed
      <4>1. Claims(i)
        BY <1>1, <1>8, <3>2 DEF Claims, Marks, FilesTyped
      <4>2. QED
        BY <1>1, <2>2, <3>2, <4>1 DEF Truthful, Claims
    <3>3. ASSUME NEW p \in Path, NEW i \in Inode, Reaches(p, i)', i = fd[h]
          PROVE p \in destroyed
      <4>1. Reaches(p, fd[h])
        BY <2>1, <2>2, <3>3
      <4>2. PathOf[h] \in Path /\ PathOf[h] = p
        BY <1>1, <2>1, <4>1 DEF Separate
      <4>3. QED
        BY <3>1, <4>2
    <3>4. QED
      BY <1>8, <3>2, <3>3 DEF Truthful, Claims, Marks
  <2>4. CASE marker # "ERASED"
    <3>1. ASSUME NEW i \in Inode, Claims(i)' PROVE Claims(i)
      BY <1>1, <1>8, <2>1, <2>4, <3>1 DEF Claims, Marks, FilesTyped
    <3>2. QED
      BY <1>2, <1>8, <2>2, <3>1 DEF Marks
  <2>5. QED
    BY <2>3, <2>4
<1>9. ASSUME Stops \/ Rests PROVE Truthful'
  <2>1. ASSUME NEW p \in Path, NEW i \in Inode, Reaches(p, i)' PROVE Reaches(p, i)
    BY <1>1, <1>9, <2>1 DEF Reaches, Stops, Rests, FilesTyped
  <2>2. ASSUME NEW i \in Inode, Claims(i)' PROVE Claims(i)
    BY <1>1, <1>9, <2>2 DEF Claims, Stops, Rests, FilesTyped
  <2>3. QED
    BY <1>2, <1>9, <2>1, <2>2 DEF Stops, Rests
<1>10. QED
  BY <1>3, <1>4, <1>5, <1>6, <1>7, <1>8, <1>9 DEF Effect

LEMMA FilesInvariant == EraseSpec => []FInv
<1>1. EraseInit => FInv
  <2>1. ASSUME EraseInit PROVE FilesTyped /\ Progress
    BY <2>1 DEF EraseInit, FilesTyped, Progress, PC, Content, Names
  <2>2. ASSUME EraseInit PROVE Separate /\ Truthful
    <3>1. \A p \in Path : \A i \in Inode : ~Reaches(p, i)
      BY <2>2, EraseConstants DEF EraseInit, Reaches
    <3>2. QED
      BY <3>1 DEF Separate, Truthful
  <2>3. QED
    BY <2>1, <2>2 DEF FInv
<1>2. FInv /\ [EraseNext]_eraseVars => FInv'
  BY StepHasEffect, EffectKeepsTypes, EffectKeepsProgress, EffectKeepsSeparate,
     EffectKeepsTruthful DEF FInv
<1>3. QED
  BY <1>1, <1>2, PTL DEF EraseSpec

(* However the machine stops, a file that says ERASED, under either name, means *)
(* a call on its path destroyed the key it was given first                     *)
(* (src/src/pqc_crypto.c:258-264): for any number of concurrent calls, also on  *)
(* one path, and any faults, crashes and power losses.                        *)
THEOREM MarkersAreTrue == EraseSpec => []MarkerFollowsDestruction
<1>1. ASSUME FInv PROVE MarkerFollowsDestruction
  <2>1. SUFFICES ASSUME NEW p \in Path, NEW n \in {"wal", "tmp"}, "ERASED" \in Outcomes(p, n)
                 PROVE  p \in destroyed
    BY DEF MarkerFollowsDestruction
  <2>2. PICK d \in dirs : d[p][n] # NoFile /\ "ERASED" \in disk[d[p][n]]
    BY <2>1 DEF Outcomes
  <2>3. d[p][n] \in Inode /\ Reaches(p, d[p][n])
    BY <1>1, <2>2 DEF FInv, FilesTyped, Names, Reaches
  <2>4. QED
    BY <1>1, <2>2, <2>3 DEF FInv, Truthful
<1>2. QED
  BY <1>1, FilesInvariant, PTL

-----------------------------------------------------------------------------
(* One caller per path *)

(* No two threads erase under one path: the runs of DurableErase_together show  *)
(* that the rest fails without it.                                            *)
OneCallPerPath == \A h, k \in Handle : PathOf[h] = PathOf[k] => h = k

(* The file of a call that has not renamed yet is the temporary file. *)
OpenIsTmp ==
  \A h \in Handle :
    /\ pc[h] \in {"opened", "marked", "destroyed", "rewritten"} => fd[h] = dir[PathOf[h]].tmp
    /\ pc[h] = "rewritten" => disk[fd[h]] = {"ERASED"}

(* Neither the temporary file of the directory in use nor the one a power loss  *)
(* brings back is a marker file.                                             *)
TmpIsNoWal ==
  \A p \in Path : \A d \in dirs :
    /\ dir[p].tmp # NoFile => d[p].wal # dir[p].tmp
    /\ d[p].tmp # NoFile => d[p].wal # d[p].tmp

WalSaysErased ==
  \A p \in Path : \A d \in dirs : d[p].wal # NoFile => disk[d[p].wal] = {"ERASED"}

WalInv == OpenIsTmp /\ TmpIsNoWal /\ WalSaysErased

(* What Marks and Tears have in common: contents c for the file open in h.      *)
Touches(h, c) ==
  /\ pc[h] \in {"opened", "marked", "destroyed", "rewritten"}
  /\ disk' = [disk EXCEPT ![fd[h]] = c]
  /\ \A k \in Handle : k # h => pc'[k] = pc[k] /\ fd'[k] = fd[k]
  /\ \/ pc'[h] = "idle"
     \/ fd'[h] = fd[h] /\ (pc'[h] = "rewritten" => c = {"ERASED"})
  /\ dir' = dir /\ dirs' \in {dirs, {dir}}

LEMMA EffectKeepsWal ==
  ASSUME OneCallPerPath, FInv, WalInv, Effect
  PROVE  WalInv'
<1>1. /\ PathOf \in [Handle -> Path] /\ NoFile \notin Inode
      /\ FilesTyped /\ Progress /\ Separate
      /\ OpenIsTmp /\ TmpIsNoWal /\ WalSaysErased /\ dir \in dirs
      /\ \A p \in Path : \A d \in dirs : /\ d[p].wal \in Inode \cup {NoFile}
                                      /\ d[p].tmp \in Inode \cup {NoFile}
  BY EraseConstants DEF FInv, WalInv, FilesTyped, Names
(* A file open in a call is no other path's, and no marker file. *)
<1>2. ASSUME NEW h \in Handle, NEW i \in Inode, i = dir[PathOf[h]].tmp, NEW p \in Path
      PROVE  /\ \A d \in dirs : d[p].wal # i
             /\ p # PathOf[h] => dir[p].tmp # i
  <2>1. PathOf[h] \in Path /\ Reaches(PathOf[h], i)
    BY <1>1, <1>2 DEF Reaches
  <2>2. CASE p = PathOf[h]
    BY <1>1, <1>2, <2>2 DEF TmpIsNoWal
  <2>3. CASE p # PathOf[h]
    <3>1. ~Reaches(p, i)
      BY <1>1, <2>1, <2>3 DEF Separate
    <3>2. QED
      BY <1>1, <3>1 DEF Reaches
  <2>4. QED
    BY <2>2, <2>3
<1>3. ASSUME NEW h \in Handle, Truncates(h) PROVE WalInv'
  <2>1. PICK i \in Inode :
          /\ i = dir[PathOf[h]].tmp
          /\ fd' = [fd EXCEPT ![h] = i] /\ pc' = [pc EXCEPT ![h] = "opened"]
          /\ disk' = [disk EXCEPT ![i] = disk[i] \cup {"empty"}]
          /\ dir' = dir /\ dirs' = dirs
    BY <1>3 DEF Truncates, OpenFile, To
  <2>2. OpenIsTmp'
    <3>1. ASSUME NEW k \in Handle, k # h, pc[k] = "rewritten" PROVE fd[k] # i /\ fd[k] \in Inode
      <4>1. PathOf[k] \in Path /\ PathOf[k] # PathOf[h]
        BY <1>1, <3>1 DEF OneCallPerPath
      <4>2. QED
        BY <1>1, <1>2, <2>1, <3>1, <4>1 DEF OpenIsTmp, Progress
    <3>2. QED
      BY <1>1, <2>1, <3>1 DEF OpenIsTmp, FilesTyped
  <2>3. TmpIsNoWal'
    BY <1>1, <2>1 DEF TmpIsNoWal
  <2>4. WalSaysErased'
    BY <1>1, <1>2, <2>1 DEF WalSaysErased, FilesTyped
  <2>5. QED
    BY <2>2, <2>3, <2>4 DEF WalInv
<1>4. ASSUME NEW h \in Handle, Creates(h) PROVE WalInv'
  <2>1. PICK i \in Inode :
          /\ \A p \in Path : ~Reaches(p, i)
          /\ fd' = [fd EXCEPT ![h] = i] /\ pc' = [pc EXCEPT ![h] = "opened"]
          /\ disk' = [disk EXCEPT ![i] = {"empty"}]
          /\ \A p \in Path : p # PathOf[h] => dir'[p] = dir[p]
          /\ dir'[PathOf[h]].wal = dir[PathOf[h]].wal /\ dir'[PathOf[h]].tmp = i
          /\ dirs' = dirs \cup {dir'}
    BY <1>4 DEF Creates, OpenFile, To
  <2>2. \A p \in Path : \A d \in dirs : d[p].wal # i /\ d[p].tmp # i
    BY <2>1 DEF Reaches
  <2>3. OpenIsTmp'
    <3>1. ASSUME NEW k \in Handle, k # h
          PROVE PathOf[k] \in Path /\ dir'[PathOf[k]] = dir[PathOf[k]] /\ fd[k] # i
      <4>1. PathOf[k] \in Path /\ PathOf[k] # PathOf[h]
        BY <1>1, <3>1 DEF OneCallPerPath
      <4>2. QED
        BY <2>1, <4>1 DEF Reaches
    <3>2. QED
      BY <1>1, <2>1, <3>1 DEF OpenIsTmp, FilesTyped, Progress
  <2>4. \A p \in Path : dir'[p].wal = dir[p].wal
    BY <2>1
  <2>5. TmpIsNoWal'
    <3>1. ASSUME NEW p \in Path, NEW d \in dirs
          PROVE /\ dir'[p].tmp # NoFile => d[p].wal # dir'[p].tmp
                /\ d[p].tmp # NoFile => d[p].wal # d[p].tmp
      BY <1>1, <2>1, <2>2 DEF TmpIsNoWal
    <3>2. QED
      BY <1>1, <2>1, <2>4, <3>1 DEF TmpIsNoWal
  <2>6. WalSaysErased'
    <3>1. ASSUME NEW p \in Path, NEW d \in dirs', d[p].wal # NoFile
          PROVE  disk'[d[p].wal] = {"ERASED"}
      <4>1. PICK e \in dirs : d[p].wal = e[p].wal
        BY <1>1, <2>1, <2>4
      <4>2. e[p].wal \in Inode /\ e[p].wal # i /\ disk[e[p].wal] = {"ERASED"}
        BY <1>1, <2>2, <3>1, <4>1 DEF WalSaysErased
      <4>3. QED
        BY <1>1, <2>1, <4>1, <4>2 DEF FilesTyped
    <3>2. QED
      BY <3>1 DEF WalSaysErased
  <2>7. QED
    BY <2>3, <2>5, <2>6 DEF WalInv
<1>5. ASSUME NEW h \in Handle, NEW c, Touches(h, c)
      PROVE WalInv'
  <2>1. fd[h] \in Inode /\ fd[h] = dir[PathOf[h]].tmp
    BY <1>1, <1>5 DEF Touches, OpenIsTmp, Progress
  <2>2. OpenIsTmp'
    <3>1. ASSUME NEW k \in Handle, k # h, pc[k] = "rewritten" PROVE fd[k] # fd[h]
      <4>1. PathOf[k] \in Path /\ PathOf[k] # PathOf[h]
        BY <1>1, <3>1 DEF OneCallPerPath
      <4>2. QED
        BY <1>1, <1>2, <2>1, <3>1, <4>1 DEF OpenIsTmp
    <3>2. ASSUME NEW k \in Handle, k # h
          PROVE /\ pc'[k] \in {"opened", "marked", "destroyed", "rewritten"}
                     => fd'[k] = dir'[PathOf[k]].tmp
                /\ pc'[k] = "rewritten" => disk'[fd'[k]] = {"ERASED"}
      BY <1>1, <1>5, <3>1, <3>2 DEF Touches, OpenIsTmp, Progress, FilesTyped
    <3>3. /\ pc'[h] \in {"opened", "marked", "destroyed", "rewritten"}
              => fd'[h] = dir'[PathOf[h]].tmp
          /\ pc'[h] = "rewritten" => disk'[fd'[h]] = {"ERASED"}
      BY <1>1, <1>5, <2>1 DEF Touches, FilesTyped
    <3>4. QED
      BY <3>2, <3>3 DEF OpenIsTmp
  <2>3. dirs' \subseteq dirs
    BY <1>1, <1>5 DEF Touches
  <2>4. TmpIsNoWal'
    BY <1>1, <1>5, <2>3 DEF Touches, TmpIsNoWal
  <2>5. WalSaysErased'
    BY <1>1, <1>2, <1>5, <2>1, <2>3 DEF Touches, WalSaysErased, FilesTyped
  <2>6. QED
    BY <2>2, <2>4, <2>5 DEF WalInv
<1>6. ASSUME NEW h \in Handle, Tears(h) PROVE WalInv'
  <2>1. PICK c : disk' = [disk EXCEPT ![fd[h]] = c]
    BY <1>6 DEF Tears
  <2>2. /\ pc[h] \in {"opened", "destroyed"} /\ pc'[h] = "idle"
        /\ \A k \in Handle : k # h => pc'[k] = pc[k] /\ fd'[k] = fd[k]
        /\ dir' = dir /\ dirs' = dirs
    BY <1>1, <1>6 DEF Tears, To, CloseFile, FilesTyped
  <2>3. Touches(h, c)
    BY <2>1, <2>2 DEF Touches
  <2>4. QED
    BY <1>5, <2>3
<1>7. ASSUME NEW h \in Handle, \/ Marks(h, "ERASING", "opened", "marked")
                              \/ Marks(h, "ERASED", "destroyed", "rewritten")
      PROVE WalInv'
  <2>1. PICK c :
          /\ disk' = [disk EXCEPT ![fd[h]] = c]
          /\ pc[h] \in {"opened", "destroyed"} /\ (pc'[h] = "rewritten" => c = {"ERASED"})
    BY <1>1, <1>7 DEF Marks, To, FilesTyped
  <2>2. /\ fd'[h] = fd[h]
        /\ \A k \in Handle : k # h => pc'[k] = pc[k] /\ fd'[k] = fd[k]
        /\ dir' = dir /\ dirs' \in {dirs, {dir}}
    BY <1>1, <1>7 DEF Marks, To, FilesTyped
  <2>3. Touches(h, c)
    BY <2>1, <2>2 DEF Touches
  <2>4. QED
    BY <1>5, <2>3
<1>8. ASSUME NEW h \in Handle, Destroys(h) PROVE WalInv'
  BY <1>1, <1>8 DEF Destroys, To, FilesTyped, WalInv, OpenIsTmp, TmpIsNoWal, WalSaysErased
<1>9. ASSUME NEW h \in Handle, Renames(h) PROVE WalInv'
  <2>1. /\ dir[PathOf[h]].tmp \in Inode
        /\ pc' = [pc EXCEPT ![h] = "renamed"] /\ fd' = [fd EXCEPT ![h] = NoFile]
        /\ \A p \in Path : p # PathOf[h] => dir'[p] = dir[p]
        /\ dir'[PathOf[h]].wal = dir[PathOf[h]].tmp /\ dir'[PathOf[h]].tmp = NoFile
        /\ dirs' = dirs \cup {dir'} /\ disk' = disk
    BY <1>9 DEF Renames, To, CloseFile
  <2>2. disk[dir[PathOf[h]].tmp] = {"ERASED"}
    BY <1>1, <1>9 DEF Renames, OpenIsTmp
  <2>3. OpenIsTmp'
    <3>1. ASSUME NEW k \in Handle, k # h
          PROVE PathOf[k] \in Path /\ dir'[PathOf[k]] = dir[PathOf[k]]
      BY <1>1, <2>1, <3>1 DEF OneCallPerPath
    <3>2. QED
      BY <1>1, <2>1, <3>1 DEF OpenIsTmp, FilesTyped
  <2>4. TmpIsNoWal'
    <3>1. ASSUME NEW p \in Path, NEW d \in dirs
          PROVE /\ dir'[p].tmp # NoFile => d[p].wal # dir'[p].tmp
                /\ d[p].tmp # NoFile => d[p].wal # d[p].tmp
                /\ dir'[p].tmp # NoFile => dir'[p].wal # dir'[p].tmp
      BY <1>1, <2>1 DEF TmpIsNoWal
    <3>2. QED
      BY <2>1, <3>1, <1>1 DEF TmpIsNoWal
  <2>5. WalSaysErased'
    BY <1>1, <2>1, <2>2 DEF WalSaysErased
  <2>6. QED
    BY <2>3, <2>4, <2>5 DEF WalInv
<1>10. ASSUME NEW h \in Handle, Ends(h) PROVE WalInv'
  <2>1. dirs' \subseteq dirs /\ dir' = dir /\ disk' = disk
    BY <1>1, <1>10 DEF Ends
  <2>2. QED
    BY <1>1, <1>10, <2>1
    DEF Ends, To, CloseFile, FilesTyped, WalInv, OpenIsTmp, TmpIsNoWal, WalSaysErased
<1>11. ASSUME Stops PROVE WalInv'
  <2>1. CASE UNCHANGED <<data, disk, dir, dirs>>
    BY <1>1, <1>11, <2>1 DEF Stops, WalInv, OpenIsTmp, TmpIsNoWal, WalSaysErased
  <2>2. CASE /\ dir' \in dirs /\ dirs' = {dir'}
             /\ \A i \in Inode : data'[i] \in disk[i]
             /\ disk' = [i \in Inode |-> {data'[i]}]
    <3>1. OpenIsTmp'
      BY <1>11 DEF Stops, OpenIsTmp
    <3>2. TmpIsNoWal'
      BY <1>1, <2>2 DEF TmpIsNoWal
    <3>3. WalSaysErased'
      BY <1>1, <2>2 DEF WalSaysErased
    <3>4. QED
      BY <3>1, <3>2, <3>3 DEF WalInv
  <2>3. QED
    BY <1>11, <2>1, <2>2 DEF Stops
<1>12. ASSUME Rests PROVE WalInv'
  BY <1>1, <1>12 DEF Rests, WalInv, OpenIsTmp, TmpIsNoWal, WalSaysErased
<1>13. QED
  BY <1>3, <1>4, <1>6, <1>7, <1>8, <1>9, <1>10, <1>11, <1>12 DEF Effect

LEMMA WalInvariant == ASSUME OneCallPerPath PROVE EraseSpec => [](FInv /\ WalInv)
<1>1. EraseInit => WalInv
  BY EraseConstants DEF EraseInit, WalInv, OpenIsTmp, TmpIsNoWal, WalSaysErased
<1>2. FInv /\ WalInv /\ [EraseNext]_eraseVars => WalInv'
  BY OneCallPerPath, StepHasEffect, EffectKeepsWal
<1>3. QED
  BY <1>1, <1>2, FilesInvariant, PTL DEF EraseSpec

(* The marker file is absent or says ERASED (src/src/pqc_crypto.c:246-268), when *)
(* no two threads erase under one path.                                       *)
THEOREM WalNeverTorn ==
  ASSUME OneCallPerPath PROVE EraseSpec => []WalIsAbsentOrErased
<1>1. ASSUME WalInv PROVE WalIsAbsentOrErased
  BY <1>1 DEF WalInv, WalSaysErased, WalIsAbsentOrErased, Outcomes
<1>2. QED
  BY <1>1, WalInvariant, PTL

(* Durably erased: every directory a power loss may leave has the marker file.  *)
LEMMA DurableMeansNamed ==
  ASSUME FInv, WalInv, NEW p \in Path
  PROVE  DurablyErased(p) <=> \A d \in dirs : d[p].wal # NoFile
<1>1. dir \in dirs
  BY DEF FInv, FilesTyped
<1>2. ASSUME NEW d \in dirs, DurablyErased(p) PROVE d[p].wal # NoFile
  BY <1>2 DEF DurablyErased, Outcomes
<1>3. ASSUME \A d \in dirs : d[p].wal # NoFile PROVE DurablyErased(p)
  <2>1. \A d \in dirs : disk[d[p].wal] = {"ERASED"}
    BY <1>3 DEF WalInv, WalSaysErased
  <2>2. QED
    BY <1>1, <1>3, <2>1 DEF DurablyErased, Outcomes
<1>4. QED
  BY <1>2, <1>3

LEMMA EffectKeepsRecords ==
  ASSUME OneCallPerPath, FInv, WalInv, Effect, NEW p \in Path, DurablyErased(p)
  PROVE  DurablyErased(p)'
<1>1. /\ FInv' /\ WalInv'
      /\ \A d \in dirs : d[p].wal # NoFile
      /\ dir \in dirs /\ NoFile \notin Inode
  BY EffectKeepsTypes, EffectKeepsProgress, EffectKeepsSeparate, EffectKeepsTruthful,
     EffectKeepsWal, DurableMeansNamed, EraseConstants DEF FInv, FilesTyped
<1>2. \A d \in dirs' : d[p].wal # NoFile
  <2>1. ASSUME NEW h \in Handle, Creates(h) \/ Renames(h) PROVE \A d \in dirs' : d[p].wal # NoFile
    <3>1. dirs' = dirs \cup {dir'} /\ dir'[p].wal # NoFile
      BY <1>1, <2>1 DEF Creates, Renames
    <3>2. QED
      BY <1>1, <3>1
  <2>2. CASE dirs' \subseteq dirs
    BY <1>1, <2>2
  <2>3. QED
    BY <1>1, <2>1, <2>2 DEF Effect, Truncates, Tears, Destroys, Ends, Marks, Stops, Rests
<1>3. QED
  <2>1. dir' \in dirs'
    BY <1>1 DEF FInv, FilesTyped
  <2>2. \A d \in dirs' : disk'[d[p].wal] = {"ERASED"}
    BY <1>1, <1>2 DEF WalInv, WalSaysErased
  <2>3. QED
    BY <1>2, <2>1, <2>2 DEF DurablyErased, Outcomes

(* The monotonic marker (src/src/pqc_crypto.c:262): no step takes a durable      *)
(* record back, when no two threads erase under one path.                     *)
THEOREM RecordsStay ==
  ASSUME OneCallPerPath PROVE EraseSpec => ErasedIsForever
<1>1. FInv /\ WalInv /\ [EraseNext]_eraseVars
      => [\A p \in Path : DurablyErased(p) => DurablyErased(p)']_eraseVars
  BY OneCallPerPath, StepHasEffect, EffectKeepsRecords
<1>2. QED
  BY <1>1, WalInvariant, PTL DEF EraseSpec, ErasedIsForever

(* The code implements the log (src/src/pqc_crypto.c:242-286): a path is         *)
(* recorded only after its destruction, and the record is never withdrawn.     *)
THEOREM FilesImplementLog ==
  ASSUME OneCallPerPath PROVE EraseSpec => ImplementsLog
<1> DEFINE recorded == {p \in Path : DurablyErased(p)}
<1>1. EraseInit => Log!Init
  <2>1. SUFFICES ASSUME EraseInit PROVE \A p \in Path : ~DurablyErased(p)
    BY <2>1 DEF EraseInit, Log!Init
  <2>2. \A p \in Path : Outcomes(p, "wal") = {"absent"}
    BY <2>1 DEF EraseInit, Outcomes
  <2>3. QED
    BY <2>2 DEF DurablyErased
<1>2. ASSUME FInv, WalInv, Effect PROVE [Log!Next]_(Log!logVars)
  <2>1. FInv'
    BY <1>2, EffectKeepsTypes, EffectKeepsProgress, EffectKeepsSeparate, EffectKeepsTruthful
    DEF FInv
  <2>2. recorded' \subseteq destroyed'
    <3>1. ASSUME NEW p \in Path, DurablyErased(p)' PROVE p \in destroyed'
      <4>1. PICK d \in dirs' : d[p].wal # NoFile /\ "ERASED" \in disk'[d[p].wal]
        BY <3>1 DEF DurablyErased, Outcomes
      <4>2. d[p].wal \in Inode /\ Reaches(p, d[p].wal)'
        BY <2>1, <4>1 DEF FInv, FilesTyped, Names, Reaches
      <4>3. QED
        BY <2>1, <4>1, <4>2 DEF FInv, Truthful
    <3>2. QED
      BY <3>1
  <2>3. recorded \subseteq recorded'
    BY <1>2, OneCallPerPath, EffectKeepsRecords
  <2>4. CASE destroyed' = destroyed
    <3>1. Log!Record(recorded')
      BY <2>2, <2>3, <2>4 DEF Log!Record
    <3>2. recorded' \in SUBSET Path
      OBVIOUS
    <3>3. QED
      BY <3>1, <3>2 DEF Log!Next
  <2>5. ASSUME NEW h \in Handle, Destroys(h) PROVE Log!Destroy(PathOf[h]) /\ PathOf[h] \in Path
    <3>1. recorded' = recorded
      BY <2>5 DEF Destroys, DurablyErased, Outcomes
    <3>2. QED
      BY <2>5, <3>1, EraseConstants DEF Destroys, Log!Destroy
  <2>6. QED
    BY <1>2, <2>4, <2>5
    DEF Effect, Truncates, Creates, Tears, Renames, Ends, Marks, Stops, Rests, Log!Next
<1>3. FInv /\ WalInv /\ [EraseNext]_eraseVars => [Log!Next]_(Log!logVars)
  BY <1>2, StepHasEffect
<1>4. QED
  BY <1>1, <1>3, WalInvariant, PTL DEF EraseSpec, ImplementsLog, Log!Spec

-----------------------------------------------------------------------------
(* What a destruction leaves behind, and what "true" means *)

(* The last write to a file is among the contents a power loss may leave in it. *)
DiskHoldsData == \A i \in Inode : data[i] \in disk[i]

(* From the ERASING marker to the rename, every directory a power loss may       *)
(* leave has the call's file as its temporary file, and it cannot come back     *)
(* empty.                                                                    *)
MarkerCommitted ==
  \A h \in Handle : pc[h] \in {"marked", "destroyed", "rewritten"} =>
    \A d \in dirs : d[PathOf[h]].tmp = fd[h] /\ "empty" \notin disk[fd[h]]

(* A call that has renamed its file finds it under the marker name.             *)
RenamedHasWal == \A h \in Handle : pc[h] = "renamed" => dir[PathOf[h]].wal # NoFile

Trace(p) == \A d \in dirs : \E i \in {d[p].wal, d[p].tmp} \ {NoFile} : "empty" \notin disk[i]

LEMMA EffectKeepsDiskData ==
  ASSUME FInv, DiskHoldsData, Effect
  PROVE  DiskHoldsData'
<1>1. FilesTyped /\ Progress
  BY DEF FInv
<1>2. ASSUME NEW h \in Handle, Truncates(h) \/ Creates(h) PROVE DiskHoldsData'
  BY <1>1, <1>2 DEF Truncates, Creates, FilesTyped, DiskHoldsData
<1>3. ASSUME NEW h \in Handle, Tears(h) PROVE DiskHoldsData'
  BY <1>1, <1>3 DEF Tears, FilesTyped, DiskHoldsData
<1>4. ASSUME NEW h \in Handle, NEW marker, NEW from, NEW to, Marks(h, marker, from, to)
      PROVE DiskHoldsData'
  BY <1>1, <1>4 DEF Marks, FilesTyped, DiskHoldsData
<1>5. ASSUME NEW h \in Handle, Destroys(h) \/ Renames(h) \/ Ends(h) PROVE DiskHoldsData'
  BY <1>5 DEF Destroys, Renames, Ends, DiskHoldsData
<1>6. ASSUME Stops \/ Rests PROVE DiskHoldsData'
  BY <1>6 DEF Stops, Rests, DiskHoldsData
<1>7. QED
  BY <1>2, <1>3, <1>4, <1>5, <1>6 DEF Effect

LEMMA EffectKeepsRenamed ==
  ASSUME FInv, RenamedHasWal, Effect
  PROVE  RenamedHasWal'
<1>1. /\ FilesTyped /\ NoFile \notin Inode /\ PathOf \in [Handle -> Path]
  BY EraseConstants DEF FInv
<1>2. ASSUME NEW h \in Handle, Truncates(h) \/ Destroys(h) \/ Tears(h) \/ Ends(h)
      PROVE RenamedHasWal'
  BY <1>1, <1>2 DEF Truncates, Destroys, Tears, Ends, To, FilesTyped, RenamedHasWal
<1>3. ASSUME NEW h \in Handle, \/ Marks(h, "ERASING", "opened", "marked")
                              \/ Marks(h, "ERASED", "destroyed", "rewritten")
      PROVE RenamedHasWal'
  BY <1>1, <1>3 DEF Marks, To, FilesTyped, RenamedHasWal
<1>4. ASSUME NEW h \in Handle, Creates(h) PROVE RenamedHasWal'
  <2>1. \A p \in Path : dir'[p].wal = dir[p].wal
    BY <1>4 DEF Creates
  <2>2. QED
    BY <1>1, <1>4, <2>1 DEF Creates, To, FilesTyped, RenamedHasWal
<1>5. ASSUME NEW h \in Handle, Renames(h) PROVE RenamedHasWal'
  <2>1. \A p \in Path : dir[p].wal # NoFile \/ p = PathOf[h] => dir'[p].wal # NoFile
    BY <1>1, <1>5 DEF Renames
  <2>2. \A k \in Handle : k # h => pc'[k] = pc[k]
    BY <1>1, <1>5 DEF Renames, To, FilesTyped
  <2>3. QED
    BY <1>1, <2>1, <2>2 DEF RenamedHasWal
<1>6. ASSUME Stops \/ Rests PROVE RenamedHasWal'
  BY <1>6 DEF Stops, Rests, RenamedHasWal
<1>7. QED
  BY <1>2, <1>3, <1>4, <1>5, <1>6 DEF Effect

LEMMA EffectKeepsMarker ==
  ASSUME OneCallPerPath, SyncCommitsEntry, FInv, OpenIsTmp, MarkerCommitted, Effect
  PROVE  MarkerCommitted'
<1> DEFINE Late == {"marked", "destroyed", "rewritten"}
           Secured(k) == \A d \in dirs : d[PathOf[k]].tmp = fd[k] /\ "empty" \notin disk[fd[k]]
<1>1. /\ PathOf \in [Handle -> Path] /\ NoFile \notin Inode
      /\ FilesTyped /\ Progress /\ Separate /\ dir \in dirs
  BY EraseConstants DEF FInv, FilesTyped
(* The files open for two paths are two files. *)
<1>2. ASSUME NEW h \in Handle, NEW k \in Handle, k # h, pc[k] \in Late
      PROVE  /\ PathOf[k] \in Path /\ PathOf[k] # PathOf[h] /\ fd[k] \in Inode
             /\ Secured(k)
             /\ \A i \in Inode : Reaches(PathOf[h], i) => i # fd[k]
  <2>1. PathOf[k] \in Path /\ PathOf[h] \in Path /\ PathOf[k] # PathOf[h]
    BY <1>1, <1>2 DEF OneCallPerPath
  <2>2. fd[k] \in Inode /\ Reaches(PathOf[k], fd[k])
    BY <1>1, <1>2 DEF Progress, Reaches
  <2>3. QED
    BY <1>1, <1>2, <2>1, <2>2 DEF Separate, MarkerCommitted
<1>3. ASSUME NEW h \in Handle,
             \A k \in Handle : k # h => pc'[k] = pc[k] /\ fd'[k] = fd[k],
             \A k \in Handle : k # h /\ pc[k] \in Late =>
               /\ disk'[fd[k]] = disk[fd[k]]
               /\ \A d \in dirs' : \E e \in dirs : d[PathOf[k]] = e[PathOf[k]],
             pc'[h] \in Late => Secured(h)'
      PROVE  MarkerCommitted'
  <2>1. ASSUME NEW k \in Handle, k # h, pc'[k] \in Late PROVE Secured(k)'
    BY <1>2, <1>3, <2>1
  <2>2. QED
    BY <1>3, <2>1 DEF MarkerCommitted
<1>4. ASSUME NEW h \in Handle, Truncates(h) PROVE MarkerCommitted'
  <2>1. Reaches(PathOf[h], dir[PathOf[h]].tmp)
    BY <1>1 DEF Reaches
  <2>2. QED
    BY <1>1, <1>2, <1>3, <1>4, <2>1 DEF Truncates, OpenFile, To, FilesTyped
<1>5. ASSUME NEW h \in Handle, Creates(h) PROVE MarkerCommitted'
  <2>1. PICK new \in Inode :
          /\ \A p \in Path : ~Reaches(p, new)
          /\ fd' = [fd EXCEPT ![h] = new] /\ pc' = [pc EXCEPT ![h] = "opened"]
          /\ disk' = [disk EXCEPT ![new] = {"empty"}]
          /\ \A p \in Path : p # PathOf[h] => dir'[p] = dir[p]
          /\ dirs' = dirs \cup {dir'}
    BY <1>5 DEF Creates, OpenFile, To
  <2>2. ASSUME NEW k \in Handle, k # h, pc[k] \in Late
        PROVE  /\ disk'[fd[k]] = disk[fd[k]]
               /\ \A d \in dirs' : \E e \in dirs : d[PathOf[k]] = e[PathOf[k]]
    <3>1. fd[k] # new
      BY <1>1, <1>2, <2>1, <2>2 DEF Reaches
    <3>2. QED
      BY <1>1, <1>2, <2>1, <2>2, <3>1 DEF FilesTyped
  <2>3. QED
    BY <1>1, <1>3, <2>1, <2>2 DEF FilesTyped
<1>6. ASSUME NEW h \in Handle, NEW marker \in {"ERASING", "ERASED"}, NEW to,
             NEW from \in {"opened", "destroyed"}, Marks(h, marker, from, to)
      PROVE MarkerCommitted'
  <2>1. fd[h] \in Inode /\ dir[PathOf[h]].tmp = fd[h] /\ Reaches(PathOf[h], fd[h])
    BY <1>1, <1>6 DEF Marks, Progress, OpenIsTmp, Reaches
  <2>2. dirs' = {dir} /\ fd' = fd /\ disk'[fd[h]] = {marker}
    BY <1>1, <1>6, <2>1 DEF Marks, FilesTyped
  <2>3. QED
    BY <1>1, <1>2, <1>3, <1>6, <2>1, <2>2 DEF Marks, To, FilesTyped
<1>7. ASSUME NEW h \in Handle, Tears(h) PROVE MarkerCommitted'
  <2>1. Reaches(PathOf[h], fd[h]) /\ fd[h] \in Inode
    BY <1>1, <1>7 DEF Tears, Progress, Reaches
  <2>2. QED
    BY <1>1, <1>2, <1>3, <1>7, <2>1 DEF Tears, CloseFile, To, FilesTyped
<1>8. ASSUME NEW h \in Handle, Destroys(h) PROVE MarkerCommitted'
  BY <1>1, <1>8 DEF Destroys, To, FilesTyped, MarkerCommitted
<1>9. ASSUME NEW h \in Handle, Renames(h) PROVE MarkerCommitted'
  <2>1. ASSUME NEW k \in Handle, k # h, pc[k] \in Late, NEW d \in dirs'
        PROVE  \E e \in dirs : d[PathOf[k]] = e[PathOf[k]]
    BY <1>1, <1>2, <1>9, <2>1 DEF Renames
  <2>2. QED
    BY <1>1, <1>3, <1>9, <2>1 DEF Renames, CloseFile, To, FilesTyped
<1>10. ASSUME NEW h \in Handle, Ends(h) PROVE MarkerCommitted'
  <2>1. dirs' \subseteq dirs
    BY <1>1, <1>10 DEF Ends
  <2>2. QED
    BY <1>1, <1>3, <1>10, <2>1 DEF Ends, CloseFile, To, FilesTyped
<1>11. ASSUME Stops \/ Rests PROVE MarkerCommitted'
  BY <1>11 DEF Stops, Rests, MarkerCommitted
<1>12. QED
  BY <1>4, <1>5, <1>6, <1>7, <1>8, <1>9, <1>10, <1>11 DEF Effect

LatestTyped == latest \in [Path -> {"none", "started", "destroyed"}]

LEMMA EffectKeepsLatest ==
  ASSUME FInv, LatestTyped, Effect
  PROVE  LatestTyped'
BY EraseConstants DEF LatestTyped, Effect, Truncates, Creates, Tears, Destroys, Renames, Ends,
                      Marks, Stops, Rests, Notes

(* What a completed destruction left is not taken away until the next call on    *)
(* the path begins.                                                          *)
LEMMA EffectKeepsTrace ==
  ASSUME FInv, LatestTyped, DiskHoldsData, MarkerCommitted, Effect,
         NEW p \in Path, latest[p] = "destroyed" => Trace(p), latest'[p] = "destroyed"
  PROVE  Trace(p)'
<1>1. /\ PathOf \in [Handle -> Path] /\ NoFile \notin Inode
      /\ FilesTyped /\ Progress /\ Separate /\ dir \in dirs
      /\ \A d \in dirs : d[p].wal \in Inode \cup {NoFile} /\ d[p].tmp \in Inode \cup {NoFile}
  BY EraseConstants DEF FInv, FilesTyped, Names
<1>2. ASSUME Trace(p),
             \A d \in dirs' : \E e \in dirs : d[p] = e[p],
             \A i \in Inode : Reaches(p, i) /\ "empty" \notin disk[i] => "empty" \notin disk'[i]
      PROVE  Trace(p)'
  <2>1. ASSUME NEW d \in dirs'
        PROVE  \E i \in {d[p].wal, d[p].tmp} \ {NoFile} : "empty" \notin disk'[i]
    <3>1. PICK e \in dirs : d[p] = e[p]
      BY <1>2
    <3>2. PICK i \in {e[p].wal, e[p].tmp} \ {NoFile} : "empty" \notin disk[i]
      BY <1>2 DEF Trace
    <3>3. i \in Inode /\ Reaches(p, i)
      BY <1>1, <3>2 DEF Reaches
    <3>4. QED
      BY <1>2, <3>1, <3>2, <3>3
  <2>2. QED
    BY <2>1 DEF Trace
<1>3. ASSUME NEW h \in Handle, Truncates(h) PROVE Trace(p)'
  <2>1. p # PathOf[h] /\ Trace(p)
    BY <1>1, <1>3 DEF Truncates, Notes, LatestTyped
  <2>2. Reaches(PathOf[h], dir[PathOf[h]].tmp) /\ PathOf[h] \in Path
    BY <1>1 DEF Reaches
  <2>3. \A i \in Inode : Reaches(p, i) => i # dir[PathOf[h]].tmp
    BY <1>1, <2>1, <2>2 DEF Separate
  <2>4. QED
    BY <1>1, <1>2, <1>3, <2>1, <2>3 DEF Truncates, FilesTyped
<1>4. ASSUME NEW h \in Handle, Creates(h) PROVE Trace(p)'
  <2>1. PICK new \in Inode :
          /\ ~Reaches(p, new)
          /\ disk' = [disk EXCEPT ![new] = {"empty"}]
          /\ p # PathOf[h] => dir'[p] = dir[p]
          /\ dirs' = dirs \cup {dir'}
          /\ Notes(h, "started")
    BY <1>4 DEF Creates
  <2>2. p # PathOf[h] /\ Trace(p)
    BY <1>1, <2>1 DEF Notes, LatestTyped
  <2>3. QED
    BY <1>1, <1>2, <2>1, <2>2 DEF FilesTyped
<1>5. ASSUME NEW h \in Handle, NEW marker \in {"ERASING", "ERASED"}, NEW from, NEW to,
             Marks(h, marker, from, to)
      PROVE Trace(p)'
  <2>1. Trace(p) /\ dirs' \subseteq dirs
    BY <1>1, <1>5 DEF Marks
  <2>2. QED
    BY <1>1, <1>2, <1>5, <2>1 DEF Marks, FilesTyped
<1>6. ASSUME NEW h \in Handle, Tears(h) PROVE Trace(p)'
  <2>1. Trace(p) /\ dirs' = dirs
    BY <1>6 DEF Tears
  <2>2. PICK c \in {data[fd[h]], "torn"} : disk' = [disk EXCEPT ![fd[h]] = disk[fd[h]] \cup {c}]
    BY <1>6 DEF Tears
  <2>3. ASSUME NEW i \in Inode, "empty" \notin disk[i] PROVE "empty" \notin disk'[i]
    BY <1>1, <2>2, <2>3 DEF FilesTyped, DiskHoldsData
  <2>4. QED
    BY <1>2, <2>1, <2>3
<1>7. ASSUME NEW h \in Handle, Destroys(h) PROVE Trace(p)'
  <2>1. CASE p = PathOf[h]
    <3>1. fd[h] \in Inode /\ \A d \in dirs : d[p].tmp = fd[h] /\ "empty" \notin disk[fd[h]]
      BY <1>1, <1>7, <2>1 DEF Destroys, Progress, MarkerCommitted
    <3>2. QED
      BY <1>1, <1>7, <3>1 DEF Destroys, Trace
  <2>2. CASE p # PathOf[h]
    BY <1>1, <1>7, <2>2 DEF Destroys, Notes, LatestTyped, Trace
  <2>3. QED
    BY <2>1, <2>2
<1>8. ASSUME NEW h \in Handle, Renames(h) PROVE Trace(p)'
  <2>1. Trace(p) /\ dirs' = dirs \cup {dir'} /\ disk' = disk
    BY <1>8 DEF Renames
  <2>2. CASE p = PathOf[h]
    <3>1. /\ dir'[p].wal = dir[p].tmp /\ dir[p].tmp \in Inode
          /\ "empty" \notin disk[dir[p].tmp]
      BY <1>1, <1>8, <2>2 DEF Renames, MarkerCommitted
    <3>2. QED
      BY <1>1, <2>1, <3>1 DEF Trace
  <2>3. CASE p # PathOf[h]
    <3>1. dir'[p] = dir[p]
      BY <1>8, <2>3 DEF Renames
    <3>2. QED
      BY <1>1, <1>2, <2>1, <3>1
  <2>4. QED
    BY <2>2, <2>3
<1>9. ASSUME NEW h \in Handle, Ends(h) PROVE Trace(p)'
  <2>1. Trace(p) /\ dirs' \subseteq dirs /\ disk' = disk
    BY <1>1, <1>9 DEF Ends
  <2>2. QED
    BY <1>2, <2>1
<1>10. ASSUME Stops PROVE Trace(p)'
  <2>1. Trace(p)
    BY <1>10 DEF Stops
  <2>2. CASE UNCHANGED <<data, disk, dir, dirs>>
    BY <2>1, <2>2 DEF Trace
  <2>3. CASE /\ dir' \in dirs /\ dirs' = {dir'}
             /\ \A i \in Inode : data'[i] \in disk[i]
             /\ disk' = [i \in Inode |-> {data'[i]}]
    <3>1. \A i \in Inode : "empty" \notin disk[i] => "empty" \notin disk'[i]
      BY <2>3
    <3>2. QED
      BY <1>2, <2>1, <2>3, <3>1
  <2>4. QED
    BY <1>10, <2>2, <2>3 DEF Stops
<1>11. ASSUME Rests PROVE Trace(p)'
  BY <1>11 DEF Rests, Trace
<1>12. QED
  BY <1>3, <1>4, <1>5, <1>6, <1>7, <1>8, <1>9, <1>10, <1>11 DEF Effect

(* Write-ahead (src/src/pqc_crypto.c:255-260): a key destroyed by the latest call *)
(* on a path left a marker that no power loss takes away.  The file's name must  *)
(* become durable with its synced content, for the code syncs the directory     *)
(* only after the destruction, and no two threads may erase under one path.     *)
THEOREM DestructionIsTraced ==
  ASSUME OneCallPerPath, SyncCommitsEntry PROVE EraseSpec => []DestructionLeavesTrace
<1> DEFINE TInv == LatestTyped /\ DiskHoldsData /\ MarkerCommitted /\ DestructionLeavesTrace
<1>1. EraseInit => TInv
  BY DEF EraseInit, LatestTyped, DiskHoldsData, MarkerCommitted, DestructionLeavesTrace
<1>2. FInv /\ WalInv /\ TInv /\ [EraseNext]_eraseVars => TInv'
  <2>1. SUFFICES ASSUME FInv, OpenIsTmp, TInv, Effect PROVE TInv'
    BY StepHasEffect DEF WalInv
  <2>2. LatestTyped' /\ DiskHoldsData' /\ MarkerCommitted'
    BY <2>1, OneCallPerPath, SyncCommitsEntry, EffectKeepsLatest, EffectKeepsDiskData,
       EffectKeepsMarker
  <2>3. ASSUME NEW p \in Path, latest'[p] = "destroyed" PROVE Trace(p)'
    <3>1. latest[p] = "destroyed" => Trace(p)
      BY <2>1 DEF DestructionLeavesTrace, Trace
    <3>2. QED
      BY <2>1, <2>3, <3>1, EffectKeepsTrace
  <2>4. DestructionLeavesTrace'
    BY <2>3 DEF DestructionLeavesTrace, Trace
  <2>5. QED
    BY <2>2, <2>4
<1>3. QED
  BY <1>1, <1>2, WalInvariant, PTL DEF EraseSpec

(* How a call comes to return true. *)
LEMMA StepReturnsTrue ==
  ASSUME [EraseNext]_eraseVars, result \in [Handle -> {"none", "true", "false"}],
         faults \in Nat, NEW h \in Handle, result'[h] = "true"
  PROVE  \/ result[h] = "true"
         \/ /\ pc[h] = "renamed" /\ dir' = dir
            /\ PathOf[h] \in Slashed /\ faults' = faults => dirs' = {dir}
<1> USE DEF GoTo, Return, NoFault
<1>1. ASSUME NEW k \in Handle, EraseStep(k), ~EraseSyncDir(k) PROVE result[h] = "true"
  BY <1>1 DEF EraseStep, EraseOpen, EraseOpenFails, EraseRefused, WriteErasing, WriteErased,
              Write, WriteFails, EraseDestroy, Destruction, EraseRename
<1>2. ASSUME NEW k \in Handle, EraseSyncDir(k), k # h PROVE result[h] = "true"
  BY <1>2 DEF EraseSyncDir
<1>3. Fault => faults' # faults
  BY DEF Fault
<1>4. CASE EraseSyncDir(h)
  BY <1>3, <1>4 DEF EraseSyncDir
<1>5. ASSUME UseHandles \/ ProcessCrash \/ PowerLoss \/ UNCHANGED eraseVars
      PROVE  result[h] = "true"
  BY <1>5 DEF UseHandles, ProcessCrash, PowerLoss, Die, eraseVars
<1>6. QED
  BY <1>1, <1>2, <1>4, <1>5 DEF EraseNext

CallsTyped ==
  /\ result \in [Handle -> {"none", "true", "false"}]
  /\ faults \in 0..MaxFaults /\ crashes \in 0..MaxCrashes
  /\ lost \subseteq Obj

LEMMA StepKeepsCalls ==
  ASSUME CallsTyped, [EraseNext]_eraseVars
  PROVE  CallsTyped' /\ faults <= faults'
<1> USE EraseConstants DEF CallsTyped
<1>1. ASSUME NEW h \in Handle, EraseStep(h)
      PROVE  /\ \E r \in {"none", "true", "false"} : result' = [result EXCEPT ![h] = r]
             /\ NoFault \/ Fault
             /\ UNCHANGED <<crashes, lost>>
  BY <1>1 DEF EraseStep, EraseOpen, EraseOpenFails, EraseRefused, WriteErasing, WriteErased,
              Write, WriteFails, EraseDestroy, Destruction, EraseRename, EraseSyncDir, GoTo,
              Return, NoFault, history
<1>2. ASSUME NEW h \in Handle, EraseStep(h) PROVE CallsTyped' /\ faults <= faults'
  <2>1. faults' \in 0..MaxFaults /\ faults <= faults'
    BY <1>1, <1>2 DEF NoFault, Fault
  <2>2. result' \in [Handle -> {"none", "true", "false"}]
    BY <1>1, <1>2
  <2>3. QED
    BY <1>1, <1>2, <2>1, <2>2
<1>3. ASSUME UseHandles \/ UNCHANGED eraseVars PROVE CallsTyped' /\ faults <= faults'
  BY <1>3 DEF UseHandles, Overwrites, eraseVars
<1>4. ASSUME Die PROVE CallsTyped' /\ faults <= faults'
  BY <1>4 DEF Die
<1>5. QED
  BY <1>2, <1>3, <1>4 DEF EraseNext, ProcessCrash, PowerLoss

LEMMA CallsInvariant == EraseSpec => []CallsTyped
<1>1. EraseInit => CallsTyped
  BY EraseConstants DEF EraseInit, CallsTyped
<1>2. CallsTyped /\ [EraseNext]_eraseVars => CallsTyped'
  BY StepKeepsCalls
<1>3. QED
  BY <1>1, <1>2, PTL DEF EraseSpec

(* While no system call has failed, a call that returned true left a marker no    *)
(* power loss can take away (src/src/pqc_crypto.c:246, 270-284), whether or not  *)
(* a synced write commits the file's name: the directory sync does it, so the   *)
(* path must name a directory.                                                *)
THEOREM TrueIsDurable ==
  ASSUME OneCallPerPath, \A h \in Handle : PathOf[h] \in Slashed
  PROVE  EraseSpec => []TrueMeansDurable
<1> DEFINE RInv == RenamedHasWal /\ TrueMeansDurable
<1>1. EraseInit => RInv
  BY DEF EraseInit, RenamedHasWal, TrueMeansDurable
<1>2. FInv /\ WalInv /\ FInv' /\ WalInv' /\ CallsTyped /\ RInv /\ [EraseNext]_eraseVars => RInv'
  <2>1. SUFFICES ASSUME FInv, WalInv, FInv', WalInv', CallsTyped, RInv,
                        [EraseNext]_eraseVars, Effect
                 PROVE  RInv'
    BY StepHasEffect
  <2>2. RenamedHasWal'
    BY <2>1, EffectKeepsRenamed
  <2>3. ASSUME faults' = 0, NEW h \in Handle, result'[h] = "true"
        PROVE  DurablyErased(PathOf[h])'
    <3>1. PathOf[h] \in Path /\ PathOf[h] \in Slashed
      BY EraseConstants
    <3>2. faults = 0
      BY <2>1, <2>3, StepKeepsCalls, EraseConstants DEF CallsTyped
    <3>3. CASE result[h] = "true"
      <4>1. DurablyErased(PathOf[h])
        BY <2>1, <3>2, <3>3 DEF TrueMeansDurable
      <4>2. QED
        BY <2>1, <3>1, <4>1, OneCallPerPath, EffectKeepsRecords
    <3>4. CASE result[h] # "true"
      <4>1. pc[h] = "renamed" /\ dir' = dir /\ dirs' = {dir}
        BY <2>1, <2>3, <3>1, <3>2, <3>4, StepReturnsTrue, EraseConstants DEF CallsTyped
      <4>2. dir'[PathOf[h]].wal # NoFile
        BY <2>1, <4>1 DEF RenamedHasWal
      <4>3. disk'[dir'[PathOf[h]].wal] = {"ERASED"}
        BY <2>1, <3>1, <4>1, <4>2 DEF WalInv, WalSaysErased
      <4>4. QED
        BY <4>1, <4>2, <4>3 DEF DurablyErased, Outcomes
    <3>5. QED
      BY <3>3, <3>4
  <2>4. TrueMeansDurable'
    BY <2>3 DEF TrueMeansDurable
  <2>5. QED
    BY <2>2, <2>4
<1>3. QED
  BY <1>1, <1>2, WalInvariant, CallsInvariant, PTL DEF EraseSpec

(* The counters of KeyHandles under the calls, and what a crash makes of them.   *)
LEMMA EraseKeepsOwners == EraseSpec => []Inv
<1>1. EraseInit => Inv
  BY InitInv DEF EraseInit
<1>2. Inv /\ [EraseNext]_eraseVars => Inv'
  <2>1. SUFFICES ASSUME Inv, [EraseNext]_eraseVars PROVE Inv'
    OBVIOUS
  <2>2. ASSUME NEW h \in Handle, EraseStep(h) PROVE [Next]_vars
    <3>1. EraseDestroys(h) \/ UNCHANGED vars
      BY <2>2 DEF EraseStep, EraseOpen, EraseOpenFails, EraseRefused, WriteErasing, WriteErased,
                  Write, EraseDestroy, Destruction, EraseRename, EraseSyncDir, vars
    <3>2. QED
      BY <3>1 DEF Next
  <2>3. ASSUME UseHandles PROVE [Next]_vars
    BY <2>3 DEF UseHandles, Next, Generate
  <2>4. ASSUME Die PROVE Inv'
    <3>1. TypeOK'
      BY <2>4 DEF Die, TypeOK
    <3>2. ASSUME NEW o \in Obj PROVE Holders(o)' = {}
      BY <2>4, <3>2, PointerValues DEF Die, Holders
    <3>3. ASSUME NEW o \in Obj PROVE Cardinality(Holders(o)') <= refs'[o]
      BY <2>4, <3>2, <3>3, FS_EmptySet DEF Die
    <3>4. QED
      BY <3>1, <3>3 DEF Inv, EveryOwnerCounted
  <2>5. UNCHANGED eraseVars => [Next]_vars
    BY DEF eraseVars, vars
  <2>6. QED
    BY <2>1, <2>2, <2>3, <2>4, <2>5, NextKeepsInv
    DEF EraseNext, ProcessCrash, PowerLoss
<1>3. QED
  BY <1>1, <1>2, PTL DEF EraseSpec

(* The state of a durable erasure, its files and its callers is well typed       *)
(* (src/src/pqc_crypto.c:242-286).                                            *)
THEOREM EraseTypes == EraseSpec => []EraseTypeOK
<1> DEFINE Types == LatestTyped /\ DiskHoldsData
<1>1. EraseInit => Types
  BY DEF EraseInit, LatestTyped, DiskHoldsData
<1>2. FInv /\ Types /\ [EraseNext]_eraseVars => Types'
  BY StepHasEffect, EffectKeepsLatest, EffectKeepsDiskData
<1>3. FInv /\ Types /\ CallsTyped /\ Inv => EraseTypeOK
  <2>1. SUFFICES ASSUME FInv, Types, CallsTyped, Inv PROVE EraseTypeOK
    OBVIOUS
  <2>2. disk \in [Inode -> (SUBSET Content) \ {{}}]
    BY <2>1 DEF FInv, FilesTyped, DiskHoldsData
  <2>3. QED
    BY <2>1, <2>2 DEF FInv, FilesTyped, LatestTyped, CallsTyped, Inv, EraseTypeOK
<1>4. QED
  BY <1>1, <1>2, <1>3, FilesInvariant, CallsInvariant, EraseKeepsOwners, PTL DEF EraseSpec

(* The history of overwritten references is exact: an object is in it when, and   *)
(* only when, somebody can no longer give a reference to it back.               *)
Accounted == \A o \in Obj : Leaked(o) > 0 <=> o \in lost

(* A step that loses nothing, and one that overwrites struct h.                  *)
LEMMA NothingLost ==
  ASSUME Accounted, \A o \in Obj : Leaked(o)' = Leaked(o), UNCHANGED lost
  PROVE  Accounted'
BY DEF Accounted

LEMMA OverwriteAccounted ==
  ASSUME Inv, Accounted, NEW h \in Handle, Overwrites(h),
         \A o \in Obj : Leaked(o)' = Leaked(o) + One(pkey[h], o)
  PROVE  Accounted'
<1> SUFFICES ASSUME NEW o \in Obj PROVE Leaked(o)' > 0 <=> o \in lost'
  BY DEF Accounted
<1>1. Leaked(o) \in Nat
  BY HoldersFinite DEF Inv, TypeOK, EveryOwnerCounted, Leaked
<1>2. Leaked(o)' = Leaked(o) + One(pkey[h], o)
  OBVIOUS
<1>3. Leaked(o)' > 0 <=> Leaked(o) > 0 \/ pkey[h] = o
  BY <1>1, <1>2 DEF One
<1>4. o \in lost' <=> o \in lost \/ pkey[h] = o
  BY DEF Overwrites
<1>5. QED
  BY <1>3, <1>4 DEF Accounted

LEMMA EraseAccountsReferences == EraseSpec => []Accounted
<1>1. EraseInit => Accounted
  <2> SUFFICES ASSUME EraseInit, NEW o \in Obj PROVE Leaked(o) = 0 /\ o \notin lost
    BY DEF Accounted
  <2>1. Holders(o) = {} /\ refs[o] = 0 /\ lost = {}
    BY PointerValues DEF EraseInit, Init, Holders
  <2>2. QED
    BY <2>1, FS_EmptySet DEF Leaked
<1>2. Inv /\ Accounted /\ [EraseNext]_eraseVars => Accounted'
  <2> SUFFICES ASSUME Inv, Accounted, [EraseNext]_eraseVars PROVE Accounted'
    OBVIOUS
  <2>1. ASSUME UNCHANGED <<pkey, refs, lost>> PROVE Accounted'
    BY <2>1 DEF Accounted, Leaked, Holders
  <2>2. ASSUME NEW h \in Handle, EraseStep(h) PROVE Accounted'
    <3>1. /\ EraseDestroys(h) \/ UNCHANGED <<pkey, refs>>
          /\ UNCHANGED lost
      BY <2>2 DEF EraseStep, EraseOpen, EraseOpenFails, EraseRefused, WriteErasing, WriteErased,
                  Write, EraseDestroy, Destruction, EraseRename, EraseSyncDir, history
    <3>2. QED
      BY <2>1, <3>1, ReleaseLosesNothing, NothingLost DEF EraseDestroys
  <2>3. ASSUME UseHandles PROVE Accounted'
    <3>1. ASSUME NEW h \in Handle, NEW p \in {NULL, Raw}, pkey[h] \notin Obj,
                 Point(h, p), UNCHANGED <<refs, lost>>
          PROVE  Accounted'
      <4>1. ASSUME NEW o \in Obj PROVE Leaked(o)' = Leaked(o)
        <5>1. refs'[o] = refs[o] + 0 /\ One(pkey[h], o) = 0 /\ One(p, o) = 0 /\ 0 \in Int
          BY <3>1, PointerValues DEF One, Inv, TypeOK
        <5>2. Leaked(o)' = Leaked(o) + 0 + One(pkey[h], o) - One(p, o)
          BY <3>1, <5>1, LeakedAfterPoint
        <5>3. Leaked(o) \in Int
          BY HoldersFinite DEF Inv, TypeOK, Leaked
        <5>4. QED
          BY <5>1, <5>2, <5>3
      <4>2. QED
        BY <3>1, <4>1, NothingLost
    <3>2. ASSUME NEW h \in Handle, KeyInit(h) \/ Retire(h), UNCHANGED lost PROVE Accounted'
      BY <3>1, <3>2, PointerValues DEF KeyInit, Retire
    <3>3. ASSUME NEW h \in Handle, KeyFree(h), UNCHANGED lost PROVE Accounted'
      BY <3>3, ReleaseLosesNothing, NothingLost DEF KeyFree
    <3>4. ASSUME NEW h \in Handle, NEW alg \in Alg, GenerateFails(h, alg) \/ GenerateOk(h, alg),
                 UNCHANGED lost
          PROVE  Accounted'
      BY <3>4, ReleaseLosesNothing, GenerateOkLosesNothing, NothingLost DEF GenerateFails
    <3>5. ASSUME NEW h \in Handle, NEW alg \in Alg, GenerateRejected(h, alg), Overwrites(h)
          PROVE  Accounted'
      BY <3>5, OverwriteLosesOne, OverwriteAccounted
    <3>6. ASSUME NEW dst \in Handle, NEW src \in Handle, KeyUpRef(dst, src), Overwrites(dst)
          PROVE  Accounted'
      BY <3>6, OverwriteLosesOne, OverwriteAccounted
    <3>7. QED
      BY <2>3, <3>2, <3>3, <3>4, <3>5, <3>6 DEF UseHandles
  <2>4. ASSUME Die PROVE Accounted'
    <3>1. ASSUME NEW o \in Obj PROVE Leaked(o)' = 0 /\ o \notin lost'
      <4>1. Holders(o)' = {} /\ refs'[o] = 0 /\ lost' = {}
        BY <2>4, PointerValues DEF Die, Holders
      <4>2. QED
        BY <4>1, FS_EmptySet DEF Leaked
    <3>2. QED
      BY <3>1 DEF Accounted
  <2>5. QED
    BY <2>1, <2>2, <2>3, <2>4 DEF EraseNext, eraseVars, ProcessCrash, PowerLoss
<1>3. QED
  BY <1>1, <1>2, EraseKeepsOwners, PTL DEF EraseSpec

(* An erasure takes exactly the reference of its own handle: the material goes   *)
(* with the last owner and stays while there is another, unless a reference was *)
(* overwritten before, by a refused regeneration or by an up_ref into a struct  *)
(* that held the key, and then one stays that no owner accounts for             *)
(* (src/src/pqc_crypto.c:185-192, 258-260, 290-304).                          *)
THEOREM ErasureLeavesOtherOwners == EraseSpec => DestructionLeavesOwners
<1> DEFINE Step == \A h \in Handle :
                     pc[h] = "marked" /\ pc'[h] = "destroyed" =>
                       (refs'[pkey[h]] = Cardinality(Holders(pkey[h]) \ {h})
                          <=> pkey[h] \notin lost)
<1>1. FInv /\ Inv /\ Accounted /\ [EraseNext]_eraseVars => [Step]_eraseVars
  <2> SUFFICES ASSUME FInv, Inv, Accounted, EraseNext, NEW h \in Handle,
                      pc[h] = "marked", pc'[h] = "destroyed"
               PROVE  refs'[pkey[h]] = Cardinality(Holders(pkey[h]) \ {h})
                        <=> pkey[h] \notin lost
    OBVIOUS
  <2>1. EraseDestroys(h)
    BY DEF EraseNext, EraseStep, EraseOpen, EraseOpenFails, EraseRefused, WriteErasing,
           WriteErased, Write, WriteFails, EraseDestroy, Destruction, EraseRename, EraseSyncDir,
           GoTo, Return, UseHandles, ProcessCrash, PowerLoss, Die, FInv, FilesTyped
  <2>2. PICK o \in Obj : o = pkey[h] /\ h \in Holders(o)
    BY <2>1 DEF EraseDestroys, Live, Holders
  <2>3. refs'[o] = refs[o] - 1
    BY <2>1, <2>2 DEF EraseDestroys, AfterRelease
  <2>4. /\ refs[o] \in Nat /\ Cardinality(Holders(o)) \in Nat
        /\ Cardinality(Holders(o)) <= refs[o]
    BY HoldersFinite DEF Inv, TypeOK, EveryOwnerCounted
  <2>5. refs[o] - Cardinality(Holders(o)) > 0 <=> o \in lost
    BY DEF Accounted, Leaked
  <2>6. Cardinality(Holders(o) \ {h}) = Cardinality(Holders(o)) - 1
    BY <2>2, HoldersFinite, FS_RemoveElement
  <2>7. refs'[o] = Cardinality(Holders(o) \ {h}) <=> o \notin lost
    BY <2>3, <2>4, <2>5, <2>6
  <2>8. QED
    BY <2>2, <2>7
<1>2. QED
  BY <1>1, FilesInvariant, EraseKeepsOwners, EraseAccountsReferences, PTL
     DEF EraseSpec, DestructionLeavesOwners
=============================================================================
