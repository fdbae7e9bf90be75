------------------------ MODULE MigrationWal_proofs -------------------------
(***************************************************************************)
(* Proofs about MigrationWal, for every set of keys, every table size, any    *)
(* number of crashes and any damage to the log.                             *)
(*                                                                         *)
(* That a record which says PQC_ONLY belongs to a destroyed key is not         *)
(* inductive: it has to hold of the log too, for every record a later replay   *)
(* may accept, and an import of the key after its destruction takes the        *)
(* destruction back.  What saves it is that the log cannot hold an accepted     *)
(* import of a key the table does not have.  The same fact bounds the table     *)
(* that a replay rebuilds.  What a replay restores is compared with a history   *)
(* of the log, of which only the existence is carried from step to step.       *)
(***************************************************************************)
EXTENDS MigrationWal, SequenceTheorems, FiniteSetTheorems, TLAPS

WalRecord == [op : Op, key : Key, damage : Check \cup {"none"}]

(* The part of the log the table shows. *)
Upto == IF stage = "replay" THEN replayed ELSE Len(wal)

ImportedBefore(log, k, n) == \E j \in 1 .. n : log[j] = W("import", k, "none")

PresentIsImported == \A k \in Key : rec[k] # Absent <=> ImportedBefore(wal, k, Upto)

FinalIsErased ==
  \A k \in Key : \A i \in 1 .. Len(wal) :
    wal[i] = W("finalize", k, "none") => k \in erased \/ ~ImportedBefore(wal, k, i)

Finalisation ==
  \/ stage \in {"idle", "replay"} /\ busy = {}
  \/ \E k \in Key :
       /\ busy = {k} /\ k \in erased
       /\ \/ stage = "mark" /\ rec[k] = R("finalizing", FALSE, TRUE)
          \/ stage = "log" /\ rec[k] = Finalized

MInv ==
  /\ MigrationTypeOK /\ WellFormed /\ PqcOnlyMeansErased
  /\ PresentIsImported /\ FinalIsErased /\ Finalisation

-----------------------------------------------------------------------------
(* The records an operation leaves, told apart by their state. *)
LEMMA RecordFacts ==
  /\ RolledBack = Imported
  /\ \A r \in {Absent, Imported, Begun, Entered, Finalized} :
       r \in [state : States, classical : BOOLEAN, pqc : BOOLEAN] /\ r.state \in States
  /\ \A r \in {Imported, Begun, Entered} : r # Absent /\ r.state # "pqc_only"
  /\ Finalized # Absent /\ Finalized.state = "pqc_only" /\ Absent.state # "pqc_only"
  /\ ~CanFinalize(Absent) /\ ~CanBegin(Absent) /\ ~CanEnter(Absent) /\ ~CanRollBack(Absent)
<1>1. RolledBack = Imported
  BY DEF RolledBack, Imported
<1>2. /\ Absent.state = "absent" /\ Imported.state = "classical" /\ Begun.state = "hybrid"
      /\ Entered.state = "finalizing" /\ Finalized.state = "pqc_only"
  BY DEF Absent, Imported, Begun, Entered, Finalized, R
<1> DEFINE T == [state : States, classical : BOOLEAN, pqc : BOOLEAN]
<1>3. Absent \in T /\ Imported \in T /\ Begun \in T /\ Entered \in T /\ Finalized \in T
  <2>1. Absent \in T
    BY DEF Absent, R, States
  <2>2. Imported \in T
    BY DEF Imported, R, States
  <2>3. Begun \in T
    BY DEF Begun, R, States
  <2>4. Entered \in T
    BY DEF Entered, R, States
  <2>5. Finalized \in T
    BY DEF Finalized, R, States
  <2>6. QED
    BY <2>1, <2>2, <2>3, <2>4, <2>5
<1>4. QED
  BY <1>1, <1>2, <1>3 DEF States, CanFinalize, CanBegin, CanEnter, CanRollBack

(* What a record appended to the log leaves as it was. *)
LEMMA Appended ==
  ASSUME wal \in Seq(WalRecord), NEW w \in WalRecord, wal' = Append(wal, w)
  PROVE  /\ wal' \in Seq(WalRecord)
         /\ Len(wal) \in Nat /\ Len(wal') = Len(wal) + 1
         /\ \A i \in 1 .. Len(wal) : wal'[i] = wal[i]
         /\ wal'[Len(wal) + 1] = w
BY AppendProperties, LenProperties

(* An append keeps what was imported, and adds an import only when it is one. *)
LEMMA ImportsAppended ==
  ASSUME wal \in Seq(WalRecord), NEW w \in WalRecord, wal' = Append(wal, w),
         NEW k \in Key
  PROVE  /\ \A n \in 0 .. Len(wal) : ImportedBefore(wal', k, n) <=> ImportedBefore(wal, k, n)
         /\ ImportedBefore(wal', k, Len(wal')) <=>
              (ImportedBefore(wal, k, Len(wal)) \/ w = W("import", k, "none"))
<1>1. /\ Len(wal) \in Nat /\ Len(wal') = Len(wal) + 1
      /\ \A i \in 1 .. Len(wal) : wal'[i] = wal[i]
      /\ wal'[Len(wal) + 1] = w
  BY Appended
<1>2. \A n \in 0 .. Len(wal) : ImportedBefore(wal', k, n) <=> ImportedBefore(wal, k, n)
  BY <1>1 DEF ImportedBefore
<1>3. ImportedBefore(wal', k, Len(wal')) <=>
        (ImportedBefore(wal, k, Len(wal)) \/ w = W("import", k, "none"))
  BY <1>1 DEF ImportedBefore
<1>4. QED
  BY <1>2, <1>3

(* An operation on a key the table has, other than the end of a finalisation. *)
LEMMA OperationKeeps ==
  ASSUME MInv, NEW k \in Key, NEW op \in {"begin", "enter", "rollback"},
         NEW r \in {Begun, Entered, RolledBack},
         rec[k] # Absent, Operation(op, k, r), UNCHANGED <<capacity, erased>>
  PROVE  MInv'
<1> DEFINE w == W(op, k, "none")
<1>1. /\ stage = "idle" /\ stage' = "idle" /\ busy = {} /\ busy' = {}
      /\ rec' = [rec EXCEPT ![k] = r] /\ wal' = Append(wal, w)
      /\ committed' = [committed EXCEPT ![k] = r.state]
      /\ replayed' = replayed /\ capacity' = capacity /\ erased' = erased
  BY DEF MInv, Operation, Set, Log, Finalisation
<1>2. wal \in Seq(WalRecord) /\ w \in WalRecord
  BY DEF MInv, MigrationTypeOK, WalRecord, W, Op
<1>3. /\ wal' \in Seq(WalRecord)
      /\ Len(wal) \in Nat /\ Len(wal') = Len(wal) + 1
      /\ \A i \in 1 .. Len(wal) : wal'[i] = wal[i]
      /\ wal'[Len(wal) + 1] = w
  BY <1>1, <1>2, Appended
<1>4. r \in [state : States, classical : BOOLEAN, pqc : BOOLEAN] /\ r # Absent
      /\ r.state # "pqc_only" /\ r.state \in States
      /\ r \in {Imported, Begun, Entered}
  BY RecordFacts
<1>5. MigrationTypeOK'
  BY <1>1, <1>3, <1>4 DEF MInv, MigrationTypeOK, WalRecord
<1>6. WellFormed'
  BY <1>1, <1>4 DEF MInv, WellFormed, MigrationTypeOK
<1>7. PqcOnlyMeansErased'
  BY <1>1, <1>4 DEF MInv, PqcOnlyMeansErased, MigrationTypeOK
<1>8. PresentIsImported'
  <2>1. \A l \in Key : w # W("import", l, "none")
    BY DEF W
  <2>2. \A l \in Key : ImportedBefore(wal', l, Upto') <=> ImportedBefore(wal, l, Upto)
    BY <1>1, <1>2, <1>3, <2>1, ImportsAppended DEF Upto
  <2>3. \A l \in Key : rec'[l] # Absent <=> rec[l] # Absent
    BY <1>1, <1>4 DEF MInv, MigrationTypeOK
  <2>4. QED
    BY <2>2, <2>3 DEF MInv, PresentIsImported
<1>9. FinalIsErased'
  <2>1. \A l \in Key : w # W("finalize", l, "none")
    BY DEF W
  <2>2. \A l \in Key : \A i \in 1 .. Len(wal) : ImportedBefore(wal', l, i) <=> ImportedBefore(wal, l, i)
    BY <1>1, <1>2, ImportsAppended
  <2>3. QED
    BY <1>1, <1>3, <2>1, <2>2 DEF MInv, FinalIsErased
<1>10. Finalisation'
  BY <1>1 DEF Finalisation
<1>11. QED
  BY <1>5, <1>6, <1>7, <1>8, <1>9, <1>10 DEF MInv

(* What the table may grow to. *)
LEMMA CapacityFits ==
  ASSUME capacity \in 0 .. MaxRecords
  PROVE  EnsureCapacity \in 0 .. MaxRecords
BY MigrationConstants DEF EnsureCapacity

LEMMA ImportKeeps ==
  ASSUME MInv, NEW k \in Key, Import(k)
  PROVE  MInv'
<1> DEFINE w == W("import", k, "none")
<1>1. /\ stage = "idle" /\ stage' = "idle" /\ busy = {} /\ busy' = {}
      /\ rec[k] = Absent /\ rec' = [rec EXCEPT ![k] = Imported]
      /\ wal' = Append(wal, w)
      /\ committed' = [committed EXCEPT ![k] = Imported.state]
      /\ replayed' = replayed /\ capacity' = EnsureCapacity /\ erased' = erased \ {k}
  BY DEF MInv, Import, Operation, Set, Log, Finalisation
<1>2. wal \in Seq(WalRecord) /\ w \in WalRecord
  BY DEF MInv, MigrationTypeOK, WalRecord, W, Op
<1>3. /\ wal' \in Seq(WalRecord)
      /\ Len(wal) \in Nat /\ Len(wal') = Len(wal) + 1
      /\ \A i \in 1 .. Len(wal) : wal'[i] = wal[i]
      /\ wal'[Len(wal) + 1] = w
  BY <1>1, <1>2, Appended
<1>4. MigrationTypeOK'
  <2>1. capacity' \in 0 .. MaxRecords
    BY <1>1, CapacityFits DEF MInv, MigrationTypeOK
  <2>2. QED
    BY <1>1, <1>3, <2>1, RecordFacts DEF MInv, MigrationTypeOK, WalRecord
<1>5. WellFormed'
  BY <1>1 DEF MInv, WellFormed, MigrationTypeOK
<1>6. PqcOnlyMeansErased'
  BY <1>1, RecordFacts DEF MInv, PqcOnlyMeansErased, MigrationTypeOK
<1>7. PresentIsImported'
  <2>1. Upto = Len(wal) /\ Upto' = Len(wal')
    BY <1>1 DEF Upto
  <2>2. \A l \in Key : ImportedBefore(wal', l, Len(wal')) <=>
                        (ImportedBefore(wal, l, Len(wal)) \/ l = k)
    <3>1. \A l \in Key : w = W("import", l, "none") <=> l = k
      BY DEF W
    <3>2. QED
      BY <1>1, <1>2, <3>1, ImportsAppended
  <2>3. \A l \in Key : rec'[l] # Absent <=> (rec[l] # Absent \/ l = k)
    BY <1>1, RecordFacts DEF MInv, MigrationTypeOK
  <2>4. QED
    BY <2>1, <2>2, <2>3 DEF MInv, PresentIsImported
<1>8. FinalIsErased'
  <2> SUFFICES ASSUME NEW l \in Key, NEW i \in 1 .. Len(wal'),
                      wal'[i] = W("finalize", l, "none")
               PROVE  l \in erased' \/ ~ImportedBefore(wal', l, i)
    BY DEF FinalIsErased
  <2>1. i \in 1 .. Len(wal) /\ wal[i] = W("finalize", l, "none")
    <3>1. w # W("finalize", l, "none")
      BY DEF W
    <3>2. QED
      BY <1>3, <3>1
  <2>2. ImportedBefore(wal', l, i) <=> ImportedBefore(wal, l, i)
    BY <1>1, <1>2, <2>1, <1>3, ImportsAppended
  <2>3. CASE l = k
    <3>1. ~ImportedBefore(wal, k, Len(wal))
      BY <1>1 DEF MInv, PresentIsImported, Upto
    <3>2. QED
      BY <2>1, <2>2, <2>3, <3>1, <1>3 DEF ImportedBefore
  <2>4. CASE l # k
    BY <1>1, <2>1, <2>2, <2>4 DEF MInv, FinalIsErased
  <2>5. QED
    BY <2>3, <2>4
<1>9. Finalisation'
  BY <1>1 DEF Finalisation
<1>10. QED
  BY <1>4, <1>5, <1>6, <1>7, <1>8, <1>9 DEF MInv

-----------------------------------------------------------------------------
(* The three steps of a finalisation *)

LEMMA EraseKeeps ==
  ASSUME MInv, NEW k \in Key, EraseClassical(k)
  PROVE  MInv'
<1>1. /\ stage = "idle" /\ stage' = "mark" /\ busy = {} /\ busy' = {k}
      /\ rec[k].state = "finalizing"
      /\ rec' = [rec EXCEPT ![k] = R(rec[k].state, FALSE, rec[k].pqc)]
      /\ erased' = erased \cup {k}
      /\ UNCHANGED <<capacity, wal, replayed, committed>>
  BY DEF MInv, EraseClassical, Finalisation, Set
<1>2. rec[k] = Entered
  BY <1>1, RecordFacts DEF MInv, WellFormed, Absent, Imported, Begun, Finalized, R
<1>3. rec' = [rec EXCEPT ![k] = R("finalizing", FALSE, TRUE)]
  BY <1>1, <1>2 DEF Entered, R
<1>4. /\ R("finalizing", FALSE, TRUE) # Absent
      /\ R("finalizing", FALSE, TRUE) \in [state : States, classical : BOOLEAN, pqc : BOOLEAN]
  BY DEF R, Absent, States
<1>5. MigrationTypeOK'
  BY <1>1, <1>3, <1>4 DEF MInv, MigrationTypeOK
<1>6. WellFormed'
  BY <1>1, <1>3 DEF MInv, WellFormed, MigrationTypeOK
<1>7. PqcOnlyMeansErased'
  BY <1>1, <1>3 DEF MInv, PqcOnlyMeansErased, MigrationTypeOK
<1>8. PresentIsImported'
  <2>1. \A l \in Key : rec'[l] # Absent <=> rec[l] # Absent
    BY <1>2, <1>3, <1>4, RecordFacts DEF MInv, MigrationTypeOK
  <2>2. QED
    BY <1>1, <2>1 DEF MInv, PresentIsImported, Upto
<1>9. FinalIsErased'
  BY <1>1 DEF MInv, FinalIsErased
<1>10. Finalisation'
  BY <1>1, <1>3 DEF Finalisation, MInv, MigrationTypeOK
<1>11. QED
  BY <1>5, <1>6, <1>7, <1>8, <1>9, <1>10 DEF MInv

LEMMA MarkKeeps ==
  ASSUME MInv, NEW k \in Key, MarkPqcOnly(k)
  PROVE  MInv'
<1> DEFINE T == [state : States, classical : BOOLEAN, pqc : BOOLEAN]
<1>1. /\ stage = "mark" /\ stage' = "log" /\ busy = {k} /\ k \in erased
      /\ rec[k] = R("finalizing", FALSE, TRUE)
      /\ rec' = [rec EXCEPT ![k].state = "pqc_only"]
      /\ UNCHANGED <<capacity, wal, busy, replayed, erased, committed>>
  BY DEF MInv, MarkPqcOnly, Finalisation
<1>2. rec' = [rec EXCEPT ![k] = Finalized]
  <2>1. rec' = [rec EXCEPT ![k] = [rec[k] EXCEPT !.state = "pqc_only"]]
    BY <1>1 DEF MInv, MigrationTypeOK
  <2>2. [R("finalizing", FALSE, TRUE) EXCEPT !.state = "pqc_only"] = R("pqc_only", FALSE, TRUE)
    <3>1. \A r \in T : [r EXCEPT !.state = "pqc_only"] = R("pqc_only", r.classical, r.pqc)
      BY DEF R
    <3>2. R("finalizing", FALSE, TRUE) \in T
      BY DEF R, States
    <3>3. QED
      BY <3>1, <3>2 DEF R
  <2>3. QED
    BY <1>1, <2>1, <2>2 DEF Finalized
<1>3. MigrationTypeOK'
  BY <1>1, <1>2, RecordFacts DEF MInv, MigrationTypeOK
<1>4. WellFormed'
  BY <1>1, <1>2 DEF MInv, WellFormed, MigrationTypeOK
<1>5. PqcOnlyMeansErased'
  BY <1>1, <1>2 DEF MInv, PqcOnlyMeansErased, MigrationTypeOK
<1>6. PresentIsImported'
  <2>1. rec[k] # Absent
    BY <1>1 DEF R, Absent
  <2>2. \A l \in Key : rec'[l] # Absent <=> rec[l] # Absent
    BY <1>2, <2>1, RecordFacts DEF MInv, MigrationTypeOK
  <2>3. QED
    BY <1>1, <2>2 DEF MInv, PresentIsImported, Upto
<1>7. FinalIsErased'
  BY <1>1 DEF MInv, FinalIsErased
<1>8. Finalisation'
  BY <1>1, <1>2 DEF Finalisation, MInv, MigrationTypeOK
<1>9. QED
  BY <1>3, <1>4, <1>5, <1>6, <1>7, <1>8 DEF MInv

(* Here the log comes to say what has already happened. *)
LEMMA LogKeeps ==
  ASSUME MInv, NEW k \in Key, LogPqcOnly(k)
  PROVE  MInv'
<1> DEFINE w == W("finalize", k, "none")
<1>1. /\ stage = "log" /\ stage' = "idle" /\ busy = {k} /\ busy' = {} /\ k \in erased
      /\ rec[k] = Finalized /\ wal' = Append(wal, w)
      /\ committed' = [committed EXCEPT ![k] = rec[k].state]
      /\ UNCHANGED <<rec, capacity, replayed, erased>>
  BY DEF MInv, LogPqcOnly, Log, Finalisation, volatile
<1>2. wal \in Seq(WalRecord) /\ w \in WalRecord
  BY DEF MInv, MigrationTypeOK, WalRecord, W, Op
<1>3. /\ wal' \in Seq(WalRecord)
      /\ Len(wal) \in Nat /\ Len(wal') = Len(wal) + 1
      /\ \A i \in 1 .. Len(wal) : wal'[i] = wal[i]
      /\ wal'[Len(wal) + 1] = w
  BY <1>1, <1>2, Appended
<1>4. MigrationTypeOK'
  BY <1>1, <1>3, RecordFacts DEF MInv, MigrationTypeOK, WalRecord
<1>5. WellFormed'
  BY <1>1 DEF MInv, WellFormed
<1>6. PqcOnlyMeansErased'
  BY <1>1 DEF MInv, PqcOnlyMeansErased
<1>7. PresentIsImported'
  <2>1. \A l \in Key : w # W("import", l, "none")
    BY DEF W
  <2>2. \A l \in Key : ImportedBefore(wal', l, Upto') <=> ImportedBefore(wal, l, Upto)
    BY <1>1, <1>2, <1>3, <2>1, ImportsAppended DEF Upto
  <2>3. QED
    BY <1>1, <2>2 DEF MInv, PresentIsImported
<1>8. FinalIsErased'
  <2>1. \A l \in Key : w = W("finalize", l, "none") => l \in erased'
    BY <1>1 DEF W
  <2>2. \A l \in Key : \A i \in 1 .. Len(wal) : ImportedBefore(wal', l, i) <=> ImportedBefore(wal, l, i)
    BY <1>1, <1>2, ImportsAppended
  <2>3. QED
    BY <1>1, <1>3, <2>1, <2>2 DEF MInv, FinalIsErased
<1>9. Finalisation'
  BY <1>1 DEF Finalisation
<1>10. QED
  BY <1>4, <1>5, <1>6, <1>7, <1>8, <1>9 DEF MInv

-----------------------------------------------------------------------------
(* Crash, damage and replay *)

(* A torn record is not accepted, so it changes nothing a replay can see.     *)
LEMMA CrashKeeps ==
  ASSUME MInv, Crash
  PROVE  MInv'
<1>1. /\ stage' = "replay" /\ busy' = {} /\ replayed' = 0 /\ capacity' = 0
      /\ rec' = [l \in Key |-> Absent]
      /\ UNCHANGED <<erased, committed>>
  BY DEF Crash
<1>2. wal \in Seq(WalRecord) /\ Len(wal) \in Nat
  BY LenProperties DEF MInv, MigrationTypeOK, WalRecord
<1>3. /\ wal' \in Seq(WalRecord) /\ Len(wal') \in Nat
      /\ FinalIsErased'
  <2>1. CASE UNCHANGED wal
    BY <1>1, <1>2, <2>1 DEF MInv, FinalIsErased
  <2>2. ASSUME NEW op \in Op, NEW k \in Key, wal' = Append(wal, W(op, k, "crc"))
        PROVE  wal' \in Seq(WalRecord) /\ Len(wal') \in Nat /\ FinalIsErased'
    <3>1. W(op, k, "crc") \in WalRecord
      BY DEF WalRecord, W, Check
    <3>2. /\ wal' \in Seq(WalRecord) /\ Len(wal') = Len(wal) + 1
          /\ \A i \in 1 .. Len(wal) : wal'[i] = wal[i]
          /\ wal'[Len(wal) + 1] = W(op, k, "crc")
      BY <1>2, <2>2, <3>1, Appended
    <3>3. \A l \in Key : \A i \in 1 .. Len(wal) : ImportedBefore(wal', l, i) <=> ImportedBefore(wal, l, i)
      BY <1>2, <2>2, <3>1, ImportsAppended
    <3>4. \A l \in Key : W(op, k, "crc") # W("finalize", l, "none")
      BY DEF W
    <3>5. QED
      BY <1>1, <1>2, <3>2, <3>3, <3>4 DEF MInv, FinalIsErased
  <2>3. QED
    BY <2>1, <2>2 DEF Crash
<1>4. MigrationTypeOK'
  BY <1>1, <1>3, RecordFacts, MigrationConstants DEF MInv, MigrationTypeOK, WalRecord
<1>5. WellFormed' /\ PqcOnlyMeansErased' /\ Finalisation'
  BY <1>1, RecordFacts DEF WellFormed, PqcOnlyMeansErased, Finalisation
<1>6. PresentIsImported'
  BY <1>1 DEF PresentIsImported, Upto, ImportedBefore
<1>7. QED
  BY <1>3, <1>4, <1>5, <1>6 DEF MInv

(* Whatever happens to a record, it is not accepted afterwards.               *)
LEMMA DamageSpoils ==
  ASSUME MInv, NEW i \in 1 .. Len(wal), Damage(i)
  PROVE  /\ stage = "replay" /\ replayed = 0
         /\ UNCHANGED <<volatile, stage, busy, replayed, erased, committed>>
         /\ wal \in Seq(WalRecord) /\ Len(wal) \in Nat
         /\ wal' \in Seq(WalRecord) /\ Len(wal') = Len(wal)
         /\ \A op \in Op, k \in Key : \A j \in 1 .. Len(wal) :
              wal'[j] = W(op, k, "none") => wal[j] = W(op, k, "none")
<1>1. /\ stage = "replay" /\ replayed = 0
      /\ UNCHANGED <<volatile, stage, busy, replayed, erased, committed>>
  BY DEF Damage
<1>2. wal \in Seq(WalRecord) /\ Len(wal) \in Nat
  BY LenProperties DEF MInv, MigrationTypeOK, WalRecord
<1>3. PICK d \in WalRecord : d.damage # "none" /\ wal' = [wal EXCEPT ![i] = d]
  <2>1. wal[i] \in WalRecord
    BY <1>2, ElementOfSeq
  <2>2. ASSUME NEW c \in Check, wal' = [wal EXCEPT ![i].damage = c]
        PROVE  \E d \in WalRecord : d.damage # "none" /\ wal' = [wal EXCEPT ![i] = d]
    <3>1. wal' = [wal EXCEPT ![i] = [wal[i] EXCEPT !.damage = c]]
      BY <2>2
    <3>2. [wal[i] EXCEPT !.damage = c] \in WalRecord /\ [wal[i] EXCEPT !.damage = c].damage = c
      BY <2>1 DEF WalRecord
    <3>3. c # "none"
      BY DEF Check
    <3>4. QED
      BY <3>1, <3>2, <3>3
  <2>3. \A op \in Op, k \in Key : W(op, k, "crc") \in WalRecord /\ W(op, k, "crc").damage # "none"
    BY DEF W, WalRecord, Check
  <2>4. wal[i].op \in Op /\ wal[i].key \in Key
    BY <2>1 DEF WalRecord
  <2>5. QED
    BY <2>2, <2>3, <2>4 DEF Damage
<1>4. /\ wal' \in Seq(WalRecord) /\ Len(wal') = Len(wal)
      /\ \A j \in 1 .. Len(wal) : wal'[j] = IF j = i THEN d ELSE wal[j]
  BY <1>2, <1>3, ExceptSeq
<1>5. \A op \in Op, k \in Key : \A j \in 1 .. Len(wal) :
        wal'[j] = W(op, k, "none") => wal[j] = W(op, k, "none")
  BY <1>3, <1>4 DEF W
<1>6. QED
  BY <1>1, <1>2, <1>4, <1>5

LEMMA DamageKeeps ==
  ASSUME MInv, NEW i \in 1 .. Len(wal), Damage(i)
  PROVE  MInv'
<1>1. /\ stage = "replay" /\ replayed = 0
      /\ UNCHANGED <<volatile, stage, busy, replayed, erased, committed>>
      /\ wal \in Seq(WalRecord) /\ Len(wal) \in Nat
      /\ wal' \in Seq(WalRecord) /\ Len(wal') = Len(wal)
      /\ \A op \in Op, k \in Key : \A j \in 1 .. Len(wal) :
           wal'[j] = W(op, k, "none") => wal[j] = W(op, k, "none")
  BY DamageSpoils
<1>2. MigrationTypeOK'
  BY <1>1 DEF MInv, MigrationTypeOK, WalRecord, volatile
<1>3. WellFormed' /\ PqcOnlyMeansErased' /\ Finalisation'
  BY <1>1 DEF MInv, WellFormed, PqcOnlyMeansErased, Finalisation, volatile
<1>4. PresentIsImported'
  BY <1>1 DEF MInv, PresentIsImported, Upto, ImportedBefore, volatile
<1>5. FinalIsErased'
  <2>1. "import" \in Op /\ "finalize" \in Op
    BY DEF Op
  <2>2. QED
    BY <1>1, <2>1 DEF MInv, FinalIsErased, ImportedBefore
<1>6. QED
  BY <1>2, <1>3, <1>4, <1>5 DEF MInv

(* What a replayed record can make of a well-formed one.                     *)
LEMMA ReplayResults ==
  ASSUME NEW r \in {Absent, Imported, Begun, Entered, Finalized}, NEW w \in WalRecord,
         NEW n \in Replays(r, w)
  PROVE  /\ n \in {Absent, Imported, Begun, Entered, Finalized}
         /\ n # Absent <=> (r # Absent \/ w = W("import", w.key, "none"))
         /\ n = Finalized => r = Finalized \/ (w = W("finalize", w.key, "none") /\ r # Absent)
<1>1. CASE ~Accepts(w)
  BY <1>1, RecordFacts DEF Replays, Accepts, W
<1>2. CASE Accepts(w)
  <2>1. \A op \in Op : w = W(op, w.key, "none") <=> op = w.op
    BY <1>2 DEF W, Accepts, WalRecord
  <2>2. CASE w.op = "import"
    BY <1>2, <2>1, <2>2, RecordFacts DEF Replays, Op
  <2>3. CASE w.op = "begin"
    BY <1>2, <2>1, <2>3, RecordFacts DEF Replays, Op
  <2>4. CASE w.op = "finalize"
    BY <1>2, <2>1, <2>4, RecordFacts DEF Replays, Op
  <2>5. CASE w.op = "rollback"
    BY <1>2, <2>1, <2>5, RecordFacts DEF Replays, Op
  <2>6. CASE w.op = "enter"
    BY <1>2, <2>1, <2>6, RecordFacts DEF Replays, Op
  <2>7. w.op \in Op
    BY DEF WalRecord
  <2>8. QED
    BY <2>2, <2>3, <2>4, <2>5, <2>6, <2>7 DEF Op
<1>3. QED
  BY <1>1, <1>2

LEMMA ReplayKeeps ==
  ASSUME MInv, ReplayRecord
  PROVE  MInv'
<1> DEFINE w == wal[replayed + 1]
<1>1. /\ stage = "replay" /\ stage' = "replay" /\ busy = {} /\ busy' = {}
      /\ replayed' = replayed + 1 /\ replayed < Len(wal)
      /\ capacity' \in {capacity, EnsureCapacity}
      /\ UNCHANGED <<wal, erased, committed>>
  BY DEF MInv, ReplayRecord, Finalisation
<1>2. wal \in Seq(WalRecord) /\ Len(wal) \in Nat /\ replayed \in 0 .. Len(wal)
  BY LenProperties DEF MInv, MigrationTypeOK, WalRecord
<1>3. w \in WalRecord /\ w.key \in Key
  <2>1. replayed + 1 \in 1 .. Len(wal)
    BY <1>1, <1>2
  <2>2. w \in WalRecord
    BY <1>2, <2>1, ElementOfSeq
  <2>3. QED
    BY <2>2 DEF WalRecord
<1>4. PICK n \in Replays(rec[w.key], w) : rec' = [rec EXCEPT ![w.key] = n]
  BY DEF ReplayRecord, Set
<1>5. \A l \in Key : rec[l] \in {Absent, Imported, Begun, Entered, Finalized}
  BY <1>1 DEF MInv, WellFormed
<1>6. /\ n \in {Absent, Imported, Begun, Entered, Finalized}
      /\ n # Absent <=> (rec[w.key] # Absent \/ w = W("import", w.key, "none"))
      /\ n = Finalized =>
           rec[w.key] = Finalized \/ (w = W("finalize", w.key, "none") /\ rec[w.key] # Absent)
  BY <1>3, <1>4, <1>5, ReplayResults
<1>7. MigrationTypeOK'
  <2>1. capacity' \in 0 .. MaxRecords
    BY <1>1, CapacityFits DEF MInv, MigrationTypeOK
  <2>2. n \in [state : States, classical : BOOLEAN, pqc : BOOLEAN]
    BY <1>6, RecordFacts
  <2>3. rec' \in [Key -> [state : States, classical : BOOLEAN, pqc : BOOLEAN]]
    BY <1>4, <2>2 DEF MInv, MigrationTypeOK
  <2>4. replayed' \in 0 .. Len(wal')
    BY <1>1, <1>2
  <2>5. QED
    BY <1>1, <2>1, <2>3, <2>4 DEF MInv, MigrationTypeOK
<1>8. WellFormed'
  BY <1>1, <1>4, <1>5, <1>6 DEF WellFormed, MInv, MigrationTypeOK
<1>9. PqcOnlyMeansErased'
  <2>1. n.state = "pqc_only" => n = Finalized
    BY <1>6, RecordFacts
  <2>2. ASSUME w = W("finalize", w.key, "none"), rec[w.key] # Absent
        PROVE  w.key \in erased
    <3>1. ImportedBefore(wal, w.key, replayed)
      BY <1>1, <1>3, <2>2 DEF MInv, PresentIsImported, Upto
    <3>2. ImportedBefore(wal, w.key, replayed + 1)
      BY <1>2, <3>1 DEF ImportedBefore
    <3>3. QED
      BY <1>1, <1>2, <1>3, <2>2, <3>2 DEF MInv, FinalIsErased
  <2>3. n.state = "pqc_only" => w.key \in erased
    BY <1>3, <1>6, <2>1, <2>2, RecordFacts DEF MInv, PqcOnlyMeansErased
  <2>4. QED
    BY <1>1, <1>3, <1>4, <2>3 DEF MInv, PqcOnlyMeansErased, MigrationTypeOK
<1>10. PresentIsImported'
  <2>1. Upto = replayed /\ Upto' = replayed + 1
    BY <1>1 DEF Upto
  <2>2. \A l \in Key : ImportedBefore(wal, l, replayed + 1) <=>
                         (ImportedBefore(wal, l, replayed) \/ w = W("import", l, "none"))
    BY <1>2 DEF ImportedBefore
  <2>3. \A l \in Key : w = W("import", l, "none") => l = w.key
    BY DEF W
  <2>4. \A l \in Key : rec'[l] # Absent <=> (rec[l] # Absent \/ w = W("import", l, "none"))
    BY <1>3, <1>4, <1>6, <2>3 DEF MInv, MigrationTypeOK
  <2>5. QED
    BY <1>1, <2>1, <2>2, <2>4 DEF MInv, PresentIsImported
<1>11. FinalIsErased' /\ Finalisation'
  BY <1>1 DEF MInv, FinalIsErased, Finalisation
<1>12. QED
  BY <1>7, <1>8, <1>9, <1>10, <1>11 DEF MInv

LEMMA EndReplayKeeps ==
  ASSUME MInv, EndReplay
  PROVE  MInv'
<1>1. /\ stage = "replay" /\ stage' = "idle" /\ busy = {} /\ replayed = Len(wal)
      /\ UNCHANGED <<rec, capacity, wal, busy, replayed, erased, committed>>
  BY DEF MInv, EndReplay, Finalisation, volatile
<1>2. MigrationTypeOK'
  BY <1>1 DEF MInv, MigrationTypeOK
<1>3. PresentIsImported'
  BY <1>1 DEF MInv, PresentIsImported, Upto
<1>4. QED
  BY <1>1, <1>2, <1>3 DEF MInv, WellFormed, PqcOnlyMeansErased, FinalIsErased, Finalisation

-----------------------------------------------------------------------------
(* MInv is an invariant: it holds at the start and every step keeps it.       *)
LEMMA MigrationInvariant == MigrationSpec => []MInv
<1>1. MigrationInit => MInv
  <2> SUFFICES ASSUME MigrationInit PROVE MInv
    OBVIOUS
  <2>1. wal \in Seq(WalRecord) /\ Len(wal) = 0
    BY EmptySeq DEF MigrationInit
  <2>2. MigrationTypeOK
    BY <2>1, RecordFacts, MigrationConstants
    DEF MigrationInit, MigrationTypeOK, WalRecord, States
  <2>3. WellFormed /\ PqcOnlyMeansErased /\ Finalisation
    BY RecordFacts DEF MigrationInit, WellFormed, PqcOnlyMeansErased, Finalisation
  <2>4. PresentIsImported /\ FinalIsErased
    BY <2>1 DEF MigrationInit, PresentIsImported, FinalIsErased, ImportedBefore, Upto
  <2>5. QED
    BY <2>2, <2>3, <2>4 DEF MInv
<1>2. MInv /\ [MigrationNext]_migrationVars => MInv'
  <2> SUFFICES ASSUME MInv, [MigrationNext]_migrationVars PROVE MInv'
    OBVIOUS
  <2>1. CASE UNCHANGED migrationVars
    BY <2>1 DEF migrationVars, MInv, MigrationTypeOK, WellFormed, PqcOnlyMeansErased,
                PresentIsImported, FinalIsErased, Finalisation, Upto
  <2>2. ASSUME NEW k \in Key, Begin(k) PROVE MInv'
    BY <2>2, OperationKeeps, RecordFacts DEF Begin
  <2>3. ASSUME NEW k \in Key, EnterFinalizing(k) PROVE MInv'
    BY <2>3, OperationKeeps, RecordFacts DEF EnterFinalizing
  <2>4. ASSUME NEW k \in Key, Rollback(k) PROVE MInv'
    BY <2>4, OperationKeeps, RecordFacts DEF Rollback
  <2>5. QED
    BY <2>1, <2>2, <2>3, <2>4, ImportKeeps, EraseKeeps, MarkKeeps, LogKeeps, CrashKeeps,
       DamageKeeps, ReplayKeeps, EndReplayKeeps DEF MigrationNext
<1>3. QED
  BY <1>1, <1>2, PTL DEF MigrationSpec

(* The variables keep to their ranges; the table never outgrows its limit     *)
(* (cbmc_pqc_migration.c:276-308).                                          *)
THEOREM MigrationTypes == MigrationSpec => []MigrationTypeOK
BY MigrationInvariant, PTL DEF MInv

(* Every record is well formed, in use, after a crash and at every point of    *)
(* a replay, whatever was damaged (PQCMigration.v:82-88).                     *)
THEOREM RecordsWellFormed == MigrationSpec => []WellFormed
BY MigrationInvariant, PTL DEF MInv

(* No record says PQC_ONLY of a classical key that is still there, whatever    *)
(* was lost, torn or damaged (wp_pqc_wal.c:188-241).                          *)
THEOREM PqcOnlyIsErased == MigrationSpec => []PqcOnlyMeansErased
BY MigrationInvariant, PTL DEF MInv

-----------------------------------------------------------------------------
(* The table: a replay never brings back more keys than the log has accepted   *)
(* imports of, and that many fitted when they were logged.                   *)

Present == {k \in Key : rec[k] # Absent}
ImportedKeys == {k \in Key : ImportedBefore(wal, k, Len(wal))}

FitInv ==
  /\ IsFiniteSet(ImportedKeys) /\ Cardinality(ImportedKeys) <= MaxRecords
  /\ RecordCount <= capacity

LEMMA RoomForOne ==
  ASSUME NEW n \in Nat, RecordCount = n, capacity \in 0 .. MaxRecords, n <= capacity
  PROVE  /\ capacity <= EnsureCapacity /\ EnsureCapacity \in 0 .. MaxRecords
         /\ n < MaxRecords => n < EnsureCapacity
         /\ n >= EnsureCapacity => n = MaxRecords
<1>1. CASE n < capacity
  BY <1>1 DEF EnsureCapacity
<1>2. CASE n = capacity
  BY <1>2, MigrationConstants DEF EnsureCapacity
<1>3. QED
  BY <1>1, <1>2

(* What the table shows came from the log.                                   *)
LEMMA PresentImported ==
  ASSUME MInv, IsFiniteSet(ImportedKeys)
  PROVE  /\ Present \subseteq ImportedKeys
         /\ stage # "replay" => Present = ImportedKeys
         /\ IsFiniteSet(Present) /\ RecordCount = Cardinality(Present) /\ RecordCount \in Nat
<1>1. Upto \in 0 .. Len(wal) /\ Len(wal) \in Nat /\ (stage # "replay" => Upto = Len(wal))
  BY LenProperties DEF MInv, MigrationTypeOK, Upto
<1>2. Present = {k \in Key : ImportedBefore(wal, k, Upto)}
  BY DEF MInv, PresentIsImported, Present
<1>3. Present \subseteq ImportedKeys /\ (stage # "replay" => Present = ImportedKeys)
  BY <1>1, <1>2 DEF ImportedKeys, ImportedBefore
<1>4. RecordCount = Cardinality(Present)
  BY DEF RecordCount, Present
<1>5. QED
  BY <1>3, <1>4, FS_Subset, FS_CardinalityType

(* Out of a replay it is enough that the table fits.                         *)
LEMMA TableFits ==
  ASSUME MInv', stage' # "replay", NEW S, Present' = S, IsFiniteSet(S), Cardinality(S) <= capacity'
  PROVE  FitInv'
<1>1. ImportedKeys' = S
  BY DEF MInv, PresentIsImported, Present, ImportedKeys, Upto
<1>2. RecordCount' = Cardinality(S)
  BY DEF RecordCount, Present
<1>3. capacity' \in 0 .. MaxRecords /\ Cardinality(S) \in Nat
  BY FS_CardinalityType DEF MInv, MigrationTypeOK
<1>4. QED
  BY <1>1, <1>2, <1>3, MigrationConstants DEF FitInv

(* Most steps leave the keys of the table as they are.                       *)
LEMMA SameKeysFit ==
  ASSUME MInv, MInv', FitInv, Present' = Present, capacity' = capacity, stage' # "replay"
  PROVE  FitInv'
BY PresentImported, TableFits DEF FitInv

LEMMA OperationFits ==
  ASSUME MInv, MInv', FitInv, NEW k \in Key, NEW op \in Op,
         NEW r \in {Begun, Entered, RolledBack},
         rec[k] # Absent, Operation(op, k, r), UNCHANGED <<capacity, erased>>
  PROVE  FitInv'
<1>1. rec' = [rec EXCEPT ![k] = r] /\ stage' = "idle" /\ capacity' = capacity
  BY DEF Operation, Set
<1>2. Present' = Present
  BY <1>1, RecordFacts DEF MInv, MigrationTypeOK, Present
<1>3. QED
  BY <1>1, <1>2, SameKeysFit

LEMMA ImportFits ==
  ASSUME MInv, MInv', FitInv, NEW k \in Key, Import(k)
  PROVE  FitInv'
<1>1. /\ rec[k] = Absent /\ rec' = [rec EXCEPT ![k] = Imported]
      /\ RecordCount < EnsureCapacity /\ capacity' = EnsureCapacity /\ stage' = "idle"
  BY DEF Import, Operation, Set
<1>2. Present' = Present \cup {k} /\ k \notin Present
  BY <1>1, RecordFacts DEF MInv, MigrationTypeOK, Present
<1>3. IsFiniteSet(Present) /\ RecordCount = Cardinality(Present) /\ RecordCount \in Nat
  BY PresentImported DEF FitInv
<1>4. EnsureCapacity \in 0 .. MaxRecords
  BY CapacityFits DEF MInv, MigrationTypeOK
<1>5. IsFiniteSet(Present \cup {k}) /\ Cardinality(Present \cup {k}) = RecordCount + 1
  BY <1>2, <1>3, FS_AddElement
<1>6. Cardinality(Present \cup {k}) <= capacity'
  BY <1>1, <1>3, <1>4, <1>5, MigrationConstants
<1>7. QED
  BY <1>1, <1>2, <1>5, <1>6, TableFits

LEMMA CrashFits ==
  ASSUME MInv, MInv', FitInv, Crash
  PROVE  FitInv'
<1>1. capacity' = 0 /\ Present' = {}
  BY DEF Crash, Present
<1>2. ImportedKeys' = ImportedKeys
  <2>1. CASE UNCHANGED wal
    BY <2>1 DEF ImportedKeys, ImportedBefore
  <2>2. ASSUME NEW op \in Op, NEW k \in Key, wal' = Append(wal, W(op, k, "crc"))
        PROVE  ImportedKeys' = ImportedKeys
    <3>1. wal \in Seq(WalRecord) /\ W(op, k, "crc") \in WalRecord
      BY DEF MInv, MigrationTypeOK, WalRecord, W, Check
    <3>2. \A l \in Key : W(op, k, "crc") # W("import", l, "none")
      BY DEF W
    <3>3. QED
      BY <2>2, <3>1, <3>2, ImportsAppended DEF ImportedKeys
  <2>3. QED
    BY <2>1, <2>2 DEF Crash
<1>3. RecordCount' = 0
  <2>1. RecordCount' = Cardinality(Present')
    BY DEF RecordCount, Present
  <2>2. QED
    BY <1>1, <2>1, FS_EmptySet
<1>4. QED
  BY <1>1, <1>2, <1>3 DEF FitInv

LEMMA DamageFits ==
  ASSUME MInv, FitInv, NEW i \in 1 .. Len(wal), Damage(i)
  PROVE  FitInv'
<1>1. /\ UNCHANGED <<rec, capacity>> /\ Len(wal') = Len(wal)
      /\ \A op \in Op, k \in Key : \A j \in 1 .. Len(wal) :
           wal'[j] = W(op, k, "none") => wal[j] = W(op, k, "none")
  BY DamageSpoils DEF volatile
<1>2. ImportedKeys' \subseteq ImportedKeys
  <2>1. "import" \in Op
    BY DEF Op
  <2>2. QED
    BY <1>1, <2>1 DEF ImportedKeys, ImportedBefore
<1>3. /\ IsFiniteSet(ImportedKeys') /\ Cardinality(ImportedKeys') <= Cardinality(ImportedKeys)
      /\ Cardinality(ImportedKeys') \in Nat /\ Cardinality(ImportedKeys) \in Nat
  BY <1>2, FS_Subset, FS_CardinalityType DEF FitInv
<1>4. RecordCount' = RecordCount
  BY <1>1 DEF RecordCount
<1>5. Cardinality(ImportedKeys') <= MaxRecords
  BY <1>3, MigrationConstants DEF FitInv
<1>6. QED
  BY <1>1, <1>3, <1>4, <1>5 DEF FitInv

LEMMA ReplayFits ==
  ASSUME MInv, MInv', FitInv, ReplayRecord
  PROVE  FitInv'
<1> DEFINE w == wal[replayed + 1]
<1>1. /\ stage = "replay" /\ replayed < Len(wal) /\ UNCHANGED wal
      /\ capacity' = IF rec[w.key] # Absent \/ rec'[w.key] = Absent THEN capacity ELSE EnsureCapacity
  BY DEF ReplayRecord
<1>2. Len(wal) \in Nat /\ replayed \in 0 .. Len(wal) /\ w \in WalRecord /\ w.key \in Key
  <2>1. wal \in Seq(WalRecord) /\ Len(wal) \in Nat /\ replayed \in 0 .. Len(wal)
    BY LenProperties DEF MInv, MigrationTypeOK, WalRecord
  <2>2. replayed + 1 \in 1 .. Len(wal)
    BY <1>1, <2>1
  <2>3. w \in WalRecord
    BY <2>1, <2>2, ElementOfSeq
  <2>4. QED
    BY <2>1, <2>3 DEF WalRecord
<1>3. PICK n \in Replays(rec[w.key], w) : rec' = [rec EXCEPT ![w.key] = n]
  BY DEF ReplayRecord, Set
<1>4. n # Absent <=> (rec[w.key] # Absent \/ w = W("import", w.key, "none"))
  <2>1. rec[w.key] \in {Absent, Imported, Begun, Entered, Finalized}
    BY <1>1, <1>2 DEF MInv, WellFormed, Finalisation
  <2>2. QED
    BY <1>2, <1>3, <2>1, ReplayResults
<1>5. rec'[w.key] = n /\ \A l \in Key \ {w.key} : rec'[l] = rec[l]
  BY <1>2, <1>3 DEF MInv, MigrationTypeOK
<1>6. /\ Present \subseteq ImportedKeys /\ IsFiniteSet(Present)
      /\ RecordCount = Cardinality(Present) /\ RecordCount \in Nat
  BY PresentImported DEF FitInv
<1>7. ImportedKeys' = ImportedKeys /\ RecordCount' = Cardinality(Present')
  BY <1>1 DEF ImportedKeys, ImportedBefore, RecordCount, Present
<1>8. CASE rec[w.key] # Absent \/ n = Absent
  <2>1. Present' = Present
    BY <1>2, <1>4, <1>5, <1>8 DEF Present
  <2>2. capacity' = capacity
    BY <1>1, <1>5, <1>8
  <2>3. QED
    BY <1>6, <1>7, <2>1, <2>2 DEF FitInv
<1>9. CASE rec[w.key] = Absent /\ n # Absent
  <2>1. capacity' = EnsureCapacity
    BY <1>1, <1>5, <1>9
  <2>2. Present' = Present \cup {w.key} /\ w.key \notin Present
    BY <1>2, <1>5, <1>9 DEF Present
  <2>3. w.key \in ImportedKeys
    <3>1. w = W("import", w.key, "none") /\ replayed + 1 \in 1 .. Len(wal)
      BY <1>1, <1>2, <1>4, <1>9
    <3>2. QED
      BY <1>2, <3>1 DEF ImportedKeys, ImportedBefore
  <2>4. Cardinality(Present \cup {w.key}) = RecordCount + 1
    BY <1>6, <2>2, FS_AddElement
  <2>5. RecordCount + 1 <= Cardinality(ImportedKeys) /\ Cardinality(ImportedKeys) \in Nat
    BY <1>6, <2>3, <2>4, FS_Subset, FS_CardinalityType DEF FitInv
  <2>6. RecordCount < MaxRecords
    BY <1>6, <2>5, MigrationConstants DEF FitInv
  <2>7. capacity \in 0 .. MaxRecords /\ RecordCount <= capacity
    BY DEF MInv, MigrationTypeOK, FitInv
  <2>8. RecordCount < EnsureCapacity /\ EnsureCapacity \in 0 .. MaxRecords
    BY <1>6, <2>6, <2>7, RoomForOne
  <2>9. RecordCount' <= capacity'
    BY <1>6, <1>7, <2>1, <2>2, <2>4, <2>8, MigrationConstants
  <2>10. QED
    BY <1>7, <2>9 DEF FitInv
<1>10. QED
  BY <1>8, <1>9

LEMMA FitInvariant == MigrationSpec => []FitInv
<1>1. MigrationInit => FitInv
  <2> SUFFICES ASSUME MigrationInit PROVE FitInv
    OBVIOUS
  <2>1. wal = << >> /\ Len(wal) = 0 /\ capacity = 0 /\ \A k \in Key : rec[k] = Absent
    BY DEF MigrationInit
  <2>2. ImportedKeys = {} /\ {k \in Key : rec[k] # Absent} = {}
    BY <2>1 DEF ImportedKeys, ImportedBefore
  <2>3. IsFiniteSet({}) /\ Cardinality({}) = 0
    BY FS_EmptySet
  <2>4. RecordCount = 0
    BY <2>2, <2>3 DEF RecordCount
  <2>5. IsFiniteSet(ImportedKeys) /\ Cardinality(ImportedKeys) = 0
    BY <2>2, <2>3
  <2>6. QED
    BY <2>1, <2>4, <2>5, MigrationConstants DEF FitInv
<1>2. MInv /\ MInv' /\ FitInv /\ [MigrationNext]_migrationVars => FitInv'
  <2> SUFFICES ASSUME MInv, MInv', FitInv, [MigrationNext]_migrationVars PROVE FitInv'
    OBVIOUS
  <2>1. CASE UNCHANGED migrationVars
    BY <2>1 DEF migrationVars, FitInv, ImportedKeys, ImportedBefore, RecordCount
  <2>2. ASSUME NEW k \in Key, Begin(k) \/ EnterFinalizing(k) \/ Rollback(k) PROVE FitInv'
    <3>1. "begin" \in Op /\ "enter" \in Op /\ "rollback" \in Op
      BY DEF Op
    <3>2. rec[k] # Absent
      BY <2>2, RecordFacts DEF Begin, EnterFinalizing, Rollback
    <3>3. QED
      BY <2>2, <3>1, <3>2, OperationFits DEF Begin, EnterFinalizing, Rollback
  <2>3. ASSUME NEW k \in Key, EraseClassical(k) PROVE FitInv'
    <3>1. /\ rec' = [rec EXCEPT ![k] = R(rec[k].state, FALSE, rec[k].pqc)]
          /\ rec[k].state = "finalizing" /\ capacity' = capacity /\ stage' = "mark"
      BY <2>3 DEF EraseClassical, Set
    <3>2. rec[k] # Absent /\ R(rec[k].state, FALSE, rec[k].pqc) # Absent
      BY <3>1 DEF R, Absent
    <3>3. Present' = Present
      BY <3>1, <3>2 DEF Present, MInv, MigrationTypeOK
    <3>4. QED
      BY <3>1, <3>3, SameKeysFit
  <2>4. ASSUME NEW k \in Key, MarkPqcOnly(k) PROVE FitInv'
    <3>1. /\ rec' = [rec EXCEPT ![k].state = "pqc_only"] /\ capacity' = capacity
          /\ stage = "mark" /\ busy = {k} /\ stage' = "log"
      BY <2>4 DEF MarkPqcOnly
    <3>2. rec[k] # Absent
      BY <3>1 DEF MInv, Finalisation, R, Absent
    <3>3. rec'[k].state = "pqc_only" /\ \A l \in Key \ {k} : rec'[l] = rec[l]
      BY <3>1 DEF MInv, MigrationTypeOK
    <3>4. rec'[k] # Absent
      BY <3>3 DEF R, Absent
    <3>5. Present' = Present
      BY <3>2, <3>3, <3>4 DEF Present
    <3>6. QED
      BY <3>1, <3>5, SameKeysFit
  <2>5. ASSUME NEW k \in Key, LogPqcOnly(k) PROVE FitInv'
    <3>1. rec' = rec /\ capacity' = capacity /\ stage' = "idle"
      BY <2>5 DEF LogPqcOnly, volatile
    <3>2. QED
      BY <3>1, SameKeysFit DEF Present
  <2>6. CASE EndReplay
    <3>1. rec' = rec /\ capacity' = capacity /\ stage' = "idle"
      BY <2>6 DEF EndReplay, volatile
    <3>2. QED
      BY <3>1, SameKeysFit DEF Present
  <2>7. QED
    BY <2>1, <2>2, <2>3, <2>4, <2>5, <2>6, ImportFits, CrashFits, DamageFits, ReplayFits
    DEF MigrationNext
<1>3. QED
  BY <1>1, <1>2, MigrationInvariant, PTL DEF MigrationSpec

(* The table never holds more records than it has room for, also while it is   *)
(* rebuilt from a damaged log, and an import is refused for want of room only   *)
(* at the limit, for any limit and any first size (cbmc_pqc_migration.c:276-308).*)
THEOREM TableNeverOverflows == MigrationSpec => []RecordsFit
<1>1. MInv /\ FitInv => RecordsFit
  <2> SUFFICES ASSUME MInv, FitInv PROVE RecordsFit
    OBVIOUS
  <2>1. RecordCount \in Nat /\ RecordCount <= capacity /\ capacity \in 0 .. MaxRecords
    BY PresentImported DEF FitInv, MInv, MigrationTypeOK
  <2>2. RecordCount >= EnsureCapacity => RecordCount = MaxRecords
    BY <2>1, RoomForOne
  <2>3. QED
    BY <2>1, <2>2, MigrationConstants DEF RecordsFit
<1>2. QED
  BY <1>1, MigrationInvariant, FitInvariant, PTL

-----------------------------------------------------------------------------
(* Recovery.  What the log says is a history: told[i][k] is the state of k after *)
(* the first i records, every one of them replayed as far as a replay may take   *)
(* it.  A table lags behind its history only where it missed an entry into      *)
(* FINALIZING.                                                               *)

NextState(s, op) ==
  CASE op = "import" -> "classical"
    [] op = "begin" -> IF s = "classical" THEN "hybrid" ELSE s
    [] op = "enter" -> IF s = "hybrid" THEN "finalizing" ELSE s
    [] op = "rollback" -> IF s \in {"hybrid", "finalizing"} THEN "classical" ELSE s
    [] op = "finalize" -> IF s \in {"hybrid", "finalizing"} THEN "pqc_only" ELSE s

Told(f, w) == IF Accepts(w) THEN [f EXCEPT ![w.key] = NextState(@, w.op)] ELSE f

IsHistory(told, log) ==
  /\ told \in [0 .. Len(log) -> [Key -> States]]
  /\ told[0] = [k \in Key |-> "absent"]
  /\ \A i \in 1 .. Len(log) : told[i] = Told(told[i - 1], log[i])

Lags(s, t) == s = t \/ (s = "hybrid" /\ t = "finalizing")

(* The table against a history: only a finalisation not logged yet is ahead.    *)
Follows(told) ==
  /\ committed = told[Len(wal)]
  /\ \A k \in Key :
       IF stage = "log" /\ k \in busy THEN told[Len(wal)][k] = "finalizing"
       ELSE Lags(rec[k].state, told[Upto][k])

HInv == damages = 0 => \E told : IsHistory(told, wal) /\ Follows(told)

LEMMA NextStateType ==
  ASSUME NEW s \in States, NEW op \in Op
  PROVE  NextState(s, op) \in States
BY DEF NextState, States, Op

LEMMA ToldType ==
  ASSUME NEW f \in [Key -> States], NEW w \in WalRecord
  PROVE  /\ Told(f, w) \in [Key -> States]
         /\ \A k \in Key : Told(f, w)[k] = IF Accepts(w) /\ k = w.key THEN NextState(f[k], w.op) ELSE f[k]
<1>1. w.key \in Key /\ w.op \in Op
  BY DEF WalRecord
<1>2. CASE Accepts(w)
  <2>1. NextState(f[w.key], w.op) \in States
    BY <1>1, NextStateType
  <2>2. Told(f, w) = [f EXCEPT ![w.key] = NextState(f[w.key], w.op)]
    BY <1>2 DEF Told
  <2>3. QED
    BY <1>1, <1>2, <2>1, <2>2
<1>3. CASE ~Accepts(w)
  BY <1>3 DEF Told
<1>4. QED
  BY <1>2, <1>3

(* A longer log has a longer history. *)
LEMMA HistoryGrows ==
  ASSUME NEW log \in Seq(WalRecord), NEW w \in WalRecord, NEW told, IsHistory(told, log)
  PROVE  \E longer :
           /\ IsHistory(longer, Append(log, w))
           /\ \A i \in 0 .. Len(log) : longer[i] = told[i]
           /\ longer[Len(log) + 1] = Told(told[Len(log)], w)
<1> DEFINE n == Len(log)
           more == Append(log, w)
           longer == [i \in 0 .. n + 1 |-> IF i = n + 1 THEN Told(told[n], w) ELSE told[i]]
<1>1. /\ n \in Nat /\ Len(more) = n + 1 /\ more[n + 1] = w
      /\ \A i \in 1 .. n : more[i] = log[i]
  BY AppendProperties, LenProperties
<1>2. told \in [0 .. n -> [Key -> States]] /\ told[n] \in [Key -> States]
  BY <1>1 DEF IsHistory
<1>3. Told(told[n], w) \in [Key -> States]
  BY <1>2, ToldType
<1> HIDE DEF n, more
<1>4. \A i \in 0 .. n : longer[i] = told[i]
  BY <1>1
<1>5. longer[n + 1] = Told(told[n], w)
  BY <1>1
<1>6. longer \in [0 .. n + 1 -> [Key -> States]]
  BY <1>1, <1>2, <1>3
<1> HIDE DEF longer
<1>7. longer[0] = [k \in Key |-> "absent"]
  BY <1>1, <1>4 DEF IsHistory
<1>8. ASSUME NEW i \in 1 .. n + 1 PROVE longer[i] = Told(longer[i - 1], more[i])
  <2>1. i - 1 \in 0 .. n /\ longer[i - 1] = told[i - 1]
    BY <1>1, <1>4
  <2>2. CASE i = n + 1
    BY <1>1, <1>5, <2>1, <2>2
  <2>3. CASE i \in 1 .. n
    <3>1. told[i] = Told(told[i - 1], log[i])
      BY <2>3 DEF IsHistory, n
    <3>2. i \in 0 .. n
      BY <1>1, <2>3
    <3>3. QED
      BY <1>1, <1>4, <2>1, <2>3, <3>1, <3>2
  <2>4. QED
    BY <1>1, <2>2, <2>3
<1>9. IsHistory(longer, more)
  BY <1>1, <1>6, <1>7, <1>8 DEF IsHistory
<1>10. QED
  BY <1>4, <1>5, <1>9 DEF n, more

(* A replayed record keeps the lag, whichever way an entry is taken.           *)
LEMMA ReplayLags ==
  ASSUME NEW r \in {Absent, Imported, Begun, Entered, Finalized}, NEW w \in WalRecord,
         NEW n \in Replays(r, w), NEW t \in States, Lags(r.state, t)
  PROVE  Lags(n.state, IF Accepts(w) THEN NextState(t, w.op) ELSE t)
<1>0. /\ Absent.state = "absent" /\ Imported.state = "classical" /\ Begun.state = "hybrid"
      /\ Entered.state = "finalizing" /\ Finalized.state = "pqc_only" /\ RolledBack = Imported
  BY RecordFacts DEF Absent, Imported, Begun, Entered, Finalized, R
<1>1. CASE ~Accepts(w)
  BY <1>1 DEF Replays
<1>2. CASE Accepts(w)
  <2>2. CASE w.op = "import"
    BY <1>0, <1>2, <2>2 DEF Replays, NextState, Lags
  <2>3. CASE w.op = "begin"
    BY <1>0, <1>2, <2>3 DEF Replays, NextState, Lags, CanBegin
  <2>4. CASE w.op = "finalize"
    BY <1>0, <1>2, <2>4 DEF Replays, NextState, Lags, CanFinalize
  <2>5. CASE w.op = "rollback"
    BY <1>0, <1>2, <2>5 DEF Replays, NextState, Lags, CanRollBack
  <2>6. CASE w.op = "enter"
    BY <1>0, <1>2, <2>6 DEF Replays, NextState, Lags, CanEnter
  <2>7. w.op \in Op
    BY DEF WalRecord
  <2>8. QED
    BY <2>2, <2>3, <2>4, <2>5, <2>6, <2>7 DEF Op
<1>3. QED
  BY <1>1, <1>2

(* A logged record takes the history, the commitment and the table one step on. *)
LEMMA LogFollows ==
  ASSUME MInv, NEW told, IsHistory(told, wal), committed = told[Len(wal)],
         NEW k \in Key, NEW op \in Op, NEW s, NextState(committed[k], op) = s,
         wal' = Append(wal, W(op, k, "none")), committed' = [committed EXCEPT ![k] = s],
         stage' = "idle", rec'[k].state = s,
         \A l \in Key \ {k} : rec'[l] = rec[l] /\ Lags(rec[l].state, committed[l])
  PROVE  \E longer : IsHistory(longer, wal') /\ Follows(longer)'
<1> DEFINE w == W(op, k, "none")
<1>1. /\ wal \in Seq(WalRecord) /\ w \in WalRecord /\ w.key = k /\ w.op = op /\ Accepts(w)
      /\ committed \in [Key -> States]
  BY DEF MInv, MigrationTypeOK, WalRecord, W, Accepts
<1>2. Len(wal) \in Nat /\ Len(wal') = Len(wal) + 1
  BY <1>1, Appended
<1>3. PICK longer : IsHistory(longer, wal') /\ longer[Len(wal')] = Told(committed, w)
  BY <1>1, <1>2, HistoryGrows
<1>4. Told(committed, w) = committed'
  BY <1>1 DEF Told
<1>5. \A l \in Key : Lags(rec'[l].state, committed'[l])
  BY <1>1 DEF Lags
<1>6. Follows(longer)'
  BY <1>2, <1>3, <1>4, <1>5 DEF Follows, Upto
<1>7. QED
  BY <1>3, <1>6

LEMMA OperationRecovers ==
  ASSUME MInv, HInv, NEW k \in Key, NEW op \in {"import", "begin", "enter", "rollback"},
         NEW r \in {Imported, Begun, Entered, RolledBack}, Operation(op, k, r),
         \A t \in States : Lags(rec[k].state, t) => NextState(t, op) = r.state
  PROVE  HInv'
<1> SUFFICES ASSUME damages' = 0 PROVE \E longer : IsHistory(longer, wal') /\ Follows(longer)'
  BY DEF HInv
<1>1. /\ stage = "idle" /\ stage' = "idle" /\ damages = 0
      /\ rec' = [rec EXCEPT ![k] = r] /\ wal' = Append(wal, W(op, k, "none"))
      /\ committed' = [committed EXCEPT ![k] = r.state]
  BY DEF Operation, Set, Log
<1>2. PICK told : IsHistory(told, wal) /\ Follows(told)
  BY <1>1 DEF HInv
<1>3. /\ committed = told[Len(wal)] /\ committed \in [Key -> States]
      /\ \A l \in Key : Lags(rec[l].state, committed[l])
  BY <1>1, <1>2 DEF Follows, Upto, MInv, MigrationTypeOK
<1>4. NextState(committed[k], op) = r.state
  BY <1>3
<1>5. rec'[k].state = r.state /\ \A l \in Key \ {k} : rec'[l] = rec[l]
  BY <1>1 DEF MInv, MigrationTypeOK
<1>6. op \in Op
  BY DEF Op
<1>7. QED
  BY <1>1, <1>2, <1>3, <1>4, <1>5, <1>6, LogFollows

(* A step that logs nothing leaves the history.                              *)
LEMMA SameLogRecovers ==
  ASSUME HInv, damages' = damages, UNCHANGED <<wal, committed>>,
         \A told : IsHistory(told, wal) /\ Follows(told) => Follows(told)'
  PROVE  HInv'
<1> SUFFICES ASSUME damages' = 0 PROVE \E told : IsHistory(told, wal') /\ Follows(told)'
  BY DEF HInv
<1>1. PICK told : IsHistory(told, wal) /\ Follows(told)
  BY DEF HInv
<1>2. IsHistory(told, wal')
  BY <1>1
<1>3. QED
  BY <1>1, <1>2

LEMMA EraseRecovers ==
  ASSUME MInv, HInv, NEW k \in Key, EraseClassical(k)
  PROVE  HInv'
<1>1. /\ stage = "idle" /\ stage' = "mark" /\ UNCHANGED <<wal, committed, replayed>>
      /\ rec' = [rec EXCEPT ![k] = R(rec[k].state, FALSE, rec[k].pqc)] /\ damages' = damages
  BY DEF EraseClassical, Set
<1>2. \A l \in Key : rec'[l].state = rec[l].state
  BY <1>1 DEF MInv, MigrationTypeOK, R
<1>3. ASSUME NEW told, Follows(told) PROVE Follows(told)'
  BY <1>1, <1>2, <1>3 DEF Follows, Upto
<1>4. QED
  BY <1>1, <1>3, SameLogRecovers

(* The table runs ahead of the log, which says FINALIZING.                    *)
LEMMA MarkRecovers ==
  ASSUME MInv, HInv, NEW k \in Key, MarkPqcOnly(k)
  PROVE  HInv'
<1>1. /\ stage = "mark" /\ stage' = "log" /\ busy = {k} /\ busy' = {k}
      /\ UNCHANGED <<wal, committed, replayed>>
      /\ rec' = [rec EXCEPT ![k].state = "pqc_only"] /\ damages' = damages
  BY DEF MarkPqcOnly
<1>2. rec[k].state = "finalizing" /\ \A l \in Key \ {k} : rec'[l] = rec[l]
  <2>1. rec[k] = R("finalizing", FALSE, TRUE)
    BY <1>1 DEF MInv, Finalisation
  <2>2. QED
    BY <1>1, <2>1 DEF MInv, MigrationTypeOK, R
<1>3. ASSUME NEW told, Follows(told) PROVE Follows(told)'
  <2>1. \A l \in Key : Lags(rec[l].state, told[Len(wal)][l])
    BY <1>1, <1>3 DEF Follows, Upto
  <2>2. told[Len(wal)][k] = "finalizing"
    BY <1>2, <2>1 DEF Lags
  <2>3. QED
    BY <1>1, <1>2, <1>3, <2>1, <2>2 DEF Follows, Upto
<1>4. QED
  BY <1>1, <1>3, SameLogRecovers

LEMMA LogRecovers ==
  ASSUME MInv, HInv, NEW k \in Key, LogPqcOnly(k)
  PROVE  HInv'
<1> SUFFICES ASSUME damages' = 0 PROVE \E longer : IsHistory(longer, wal') /\ Follows(longer)'
  BY DEF HInv
<1>1. /\ stage = "log" /\ stage' = "idle" /\ busy = {k} /\ damages = 0
      /\ wal' = Append(wal, W("finalize", k, "none")) /\ rec' = rec
      /\ committed' = [committed EXCEPT ![k] = rec[k].state] /\ rec[k].state = "pqc_only"
  BY RecordFacts DEF LogPqcOnly, Log, volatile, MInv, Finalisation
<1>2. PICK told : IsHistory(told, wal) /\ Follows(told)
  BY <1>1 DEF HInv
<1>3. /\ committed = told[Len(wal)] /\ committed[k] = "finalizing"
      /\ \A l \in Key \ {k} : Lags(rec[l].state, committed[l])
  BY <1>1, <1>2 DEF Follows, Upto
<1>4. NextState(committed[k], "finalize") = "pqc_only" /\ "finalize" \in Op
  BY <1>3 DEF NextState, Op
<1>5. QED
  BY <1>1, <1>2, <1>3, <1>4, LogFollows

(* The table is lost, and a record that was being written may be torn.        *)
LEMMA CrashRecovers ==
  ASSUME MInv, HInv, Crash
  PROVE  HInv'
<1> SUFFICES ASSUME damages' = 0 PROVE \E longer : IsHistory(longer, wal') /\ Follows(longer)'
  BY DEF HInv
<1>1. /\ stage' = "replay" /\ replayed' = 0 /\ damages = 0
      /\ rec' = [k \in Key |-> Absent] /\ committed' = committed
  BY DEF Crash
<1>2. PICK told : IsHistory(told, wal) /\ Follows(told)
  BY <1>1 DEF HInv
<1>3. wal \in Seq(WalRecord) /\ Len(wal) \in Nat /\ committed = told[Len(wal)]
  BY <1>2, LenProperties DEF MInv, MigrationTypeOK, WalRecord, Follows
<1>4. PICK longer : IsHistory(longer, wal') /\ longer[Len(wal')] = committed
  <2>1. CASE UNCHANGED wal
    BY <1>2, <1>3, <2>1
  <2>2. ASSUME NEW op \in Op, NEW k \in Key, wal' = Append(wal, W(op, k, "crc"))
        PROVE  \E longer : IsHistory(longer, wal') /\ longer[Len(wal')] = committed
    <3>1. W(op, k, "crc") \in WalRecord /\ ~Accepts(W(op, k, "crc"))
      BY DEF WalRecord, W, Check, Accepts
    <3>2. Len(wal') = Len(wal) + 1
      BY <1>3, <2>2, <3>1, Appended
    <3>3. Told(committed, W(op, k, "crc")) = committed
      BY <3>1 DEF Told
    <3>4. QED
      BY <1>2, <1>3, <2>2, <3>1, <3>2, <3>3, HistoryGrows
  <2>3. QED
    BY <2>1, <2>2 DEF Crash
<1>5. \A k \in Key : rec'[k].state = "absent" /\ longer[0][k] = "absent"
  BY <1>1, <1>4 DEF IsHistory, Absent, R
<1>6. Follows(longer)'
  BY <1>1, <1>4, <1>5 DEF Follows, Upto, Lags
<1>7. QED
  BY <1>4, <1>6

LEMMA ReplayRecovers ==
  ASSUME MInv, HInv, ReplayRecord
  PROVE  HInv'
<1> DEFINE w == wal[replayed + 1]
<1>1. /\ stage = "replay" /\ stage' = "replay" /\ replayed < Len(wal) /\ replayed' = replayed + 1
      /\ UNCHANGED <<wal, committed>> /\ damages' = damages
  BY DEF ReplayRecord
<1>2. /\ Len(wal) \in Nat /\ replayed \in 0 .. Len(wal) /\ replayed + 1 \in 1 .. Len(wal)
      /\ w \in WalRecord /\ w.key \in Key
  <2>1. wal \in Seq(WalRecord) /\ Len(wal) \in Nat /\ replayed \in 0 .. Len(wal)
    BY LenProperties DEF MInv, MigrationTypeOK, WalRecord
  <2>2. replayed + 1 \in 1 .. Len(wal)
    BY <1>1, <2>1
  <2>3. w \in WalRecord
    BY <2>1, <2>2, ElementOfSeq
  <2>4. QED
    BY <2>1, <2>2, <2>3 DEF WalRecord
<1>3. PICK n \in Replays(rec[w.key], w) : rec' = [rec EXCEPT ![w.key] = n]
  BY DEF ReplayRecord, Set
<1>4. rec[w.key] \in {Absent, Imported, Begun, Entered, Finalized}
  BY <1>1, <1>2 DEF MInv, WellFormed, Finalisation
<1>5. rec'[w.key] = n /\ \A l \in Key \ {w.key} : rec'[l] = rec[l]
  BY <1>2, <1>3 DEF MInv, MigrationTypeOK
<1>6. ASSUME NEW told, IsHistory(told, wal), Follows(told) PROVE Follows(told)'
  <2>1. committed = told[Len(wal)] /\ \A l \in Key : Lags(rec[l].state, told[replayed][l])
    BY <1>1, <1>6 DEF Follows, Upto
  <2>2. told[replayed] \in [Key -> States] /\ told[replayed + 1] = Told(told[replayed], w)
    <3>1. (replayed + 1) - 1 = replayed
      BY <1>2
    <3>2. QED
      BY <1>2, <1>6, <3>1 DEF IsHistory
  <2>3. \A l \in Key : told[replayed + 1][l] =
          IF Accepts(w) /\ l = w.key THEN NextState(told[replayed][l], w.op) ELSE told[replayed][l]
    BY <1>2, <2>2, ToldType
  <2>4. Lags(n.state, told[replayed + 1][w.key])
    BY <1>2, <1>3, <1>4, <2>1, <2>2, <2>3, ReplayLags
  <2>5. \A l \in Key : Lags(rec'[l].state, told[replayed + 1][l])
    BY <1>5, <2>1, <2>3, <2>4
  <2>6. QED
    BY <1>1, <2>1, <2>5 DEF Follows, Upto
<1>7. QED
  BY <1>1, <1>6, SameLogRecovers

LEMMA EndReplayRecovers ==
  ASSUME MInv, HInv, EndReplay
  PROVE  HInv'
<1>1. /\ stage = "replay" /\ stage' = "idle" /\ replayed = Len(wal)
      /\ UNCHANGED <<rec, wal, committed, replayed>> /\ damages' = damages
  BY DEF EndReplay, volatile
<1>2. ASSUME NEW told, Follows(told) PROVE Follows(told)'
  BY <1>1, <1>2 DEF Follows, Upto
<1>3. QED
  BY <1>1, <1>2, SameLogRecovers

Counted == damages \in Nat

LEMMA DamagesCounted == MigrationSpec => []Counted
<1>1. MigrationInit => Counted
  BY DEF MigrationInit, Counted
<1>2. Counted /\ [MigrationNext]_migrationVars => Counted'
  <2> SUFFICES ASSUME damages \in Nat, MigrationNext PROVE damages' \in {damages, damages + 1}
    BY DEF migrationVars, Counted
  <2>1. \A k \in Key : \A op, r : Operation(op, k, r) => damages' = damages
    BY DEF Operation
  <2>2. ASSUME NEW k \in Key, Import(k) \/ Begin(k) \/ EnterFinalizing(k) \/ Rollback(k)
        PROVE  damages' = damages
    BY <2>1, <2>2 DEF Import, Begin, EnterFinalizing, Rollback
  <2>3. ASSUME NEW k \in Key, EraseClassical(k) \/ MarkPqcOnly(k) \/ LogPqcOnly(k)
        PROVE  damages' = damages
    BY <2>3 DEF EraseClassical, MarkPqcOnly, LogPqcOnly
  <2>4. ASSUME Crash \/ ReplayRecord \/ EndReplay PROVE damages' = damages
    BY <2>4 DEF Crash, ReplayRecord, EndReplay
  <2>5. ASSUME NEW i \in 1 .. Len(wal), Damage(i) PROVE damages' = damages + 1
    BY <2>5 DEF Damage
  <2>6. QED
    BY <2>2, <2>3, <2>4, <2>5 DEF MigrationNext
<1>3. QED
  BY <1>1, <1>2, PTL DEF MigrationSpec

LEMMA HistoryInvariant == MigrationSpec => []HInv
<1>1. MigrationInit => HInv
  <2> SUFFICES ASSUME MigrationInit PROVE \E told : IsHistory(told, wal) /\ Follows(told)
    BY DEF HInv
  <2> DEFINE told == [i \in 0 .. 0 |-> [k \in Key |-> "absent"]]
  <2>1. /\ wal = << >> /\ Len(wal) = 0 /\ stage = "idle" /\ committed = [k \in Key |-> "absent"]
        /\ \A k \in Key : rec[k].state = "absent"
    BY DEF MigrationInit, Absent, R
  <2>2. told \in [0 .. 0 -> [Key -> States]] /\ told[0] = [k \in Key |-> "absent"]
    BY DEF States
  <2> HIDE DEF told
  <2>3. IsHistory(told, wal)
    BY <2>1, <2>2 DEF IsHistory
  <2>4. Follows(told)
    BY <2>1, <2>2 DEF Follows, Upto, Lags
  <2>5. QED
    BY <2>3, <2>4
<1>2. MInv /\ Counted /\ HInv /\ [MigrationNext]_migrationVars => HInv'
  <2> SUFFICES ASSUME MInv, Counted, HInv, [MigrationNext]_migrationVars PROVE HInv'
    OBVIOUS
  <2>0. /\ Absent.state = "absent" /\ Imported.state = "classical" /\ Begun.state = "hybrid"
        /\ Entered.state = "finalizing" /\ RolledBack.state = "classical"
    BY DEF Absent, Imported, Begun, Entered, RolledBack, R
  <2>1. CASE UNCHANGED migrationVars
    BY <2>1 DEF migrationVars, HInv, Follows, Upto
  <2>2. ASSUME NEW k \in Key, Import(k) PROVE HInv'
    <3>1. \A t \in States : Lags(rec[k].state, t) => NextState(t, "import") = Imported.state
      BY <2>0 DEF NextState
    <3>2. QED
      BY <2>2, <3>1, OperationRecovers DEF Import
  <2>3. ASSUME NEW k \in Key, Begin(k) PROVE HInv'
    <3>1. \A t \in States : Lags(rec[k].state, t) => NextState(t, "begin") = Begun.state
      BY <2>0, <2>3 DEF NextState, Lags, Begin, CanBegin
    <3>2. QED
      BY <2>3, <3>1, OperationRecovers DEF Begin
  <2>4. ASSUME NEW k \in Key, EnterFinalizing(k) PROVE HInv'
    <3>1. \A t \in States : Lags(rec[k].state, t) => NextState(t, "enter") = Entered.state
      BY <2>0, <2>4 DEF NextState, Lags, EnterFinalizing, CanEnter
    <3>2. QED
      BY <2>4, <3>1, OperationRecovers DEF EnterFinalizing
  <2>5. ASSUME NEW k \in Key, Rollback(k) PROVE HInv'
    <3>1. \A t \in States : Lags(rec[k].state, t) => NextState(t, "rollback") = RolledBack.state
      BY <2>0, <2>5 DEF NextState, Lags, Rollback, CanRollBack
    <3>2. QED
      BY <2>5, <3>1, OperationRecovers DEF Rollback
  <2>6. ASSUME NEW i \in 1 .. Len(wal), Damage(i) PROVE HInv'
    <3>1. damages' # 0
      BY <2>6 DEF Damage, Counted
    <3>2. QED
      BY <3>1 DEF HInv
  <2>7. QED
    BY <2>1, <2>2, <2>3, <2>4, <2>5, <2>6, EraseRecovers, MarkRecovers, LogRecovers,
       CrashRecovers, ReplayRecovers, EndReplayRecovers DEF MigrationNext
<1>3. QED
  BY <1>1, <1>2, MigrationInvariant, DamagesCounted, PTL DEF MigrationSpec

(* After any number of crashes, torn records included, a log that was not       *)
(* damaged brings every key back to where its last record left it; only a       *)
(* finalisation that was entered may have to be entered again                  *)
(* (wp_pqc_wal.c:86-184).                                                    *)
THEOREM CrashesLoseNothing == MigrationSpec => []RecoveryRestores
<1>1. HInv => RecoveryRestores
  BY DEF HInv, Follows, Upto, Lags, RecoveryRestores
<1>2. QED
  BY <1>1, HistoryInvariant, PTL

-----------------------------------------------------------------------------
(* How a key is lost.  An erasure finds the entry into FINALIZING logged, so     *)
(* only a rollback takes an erased key's last record back to CLASSICAL.          *)

LossLogged ==
  damages = 0 => \A k \in erased : committed[k] = "classical" => RolledBackLast(k)

(* A record of another key, or one that no replay accepts, changes nothing.      *)
LEMMA LastKept ==
  ASSUME wal \in Seq(WalRecord), NEW w \in WalRecord, wal' = Append(wal, w),
         NEW k \in Key, RolledBackLast(k), w.key # k \/ ~Accepts(w)
  PROVE  RolledBackLast(k)'
<1>1. /\ Len(wal) \in Nat /\ Len(wal') = Len(wal) + 1
      /\ \A i \in 1 .. Len(wal) : wal'[i] = wal[i]
      /\ wal'[Len(wal) + 1] = w
  BY Appended
<1>2. PICK i \in 1 .. Len(wal) :
        /\ wal[i].key = k /\ wal[i].op = "rollback" /\ Accepts(wal[i])
        /\ \A j \in i + 1 .. Len(wal) : wal[j].key # k \/ ~Accepts(wal[j])
  BY DEF RolledBackLast
<1>3. i \in 1 .. Len(wal') /\ wal'[i] = wal[i]
  BY <1>1, <1>2
<1>4. ASSUME NEW j \in i + 1 .. Len(wal') PROVE wal'[j].key # k \/ ~Accepts(wal'[j])
  BY <1>1, <1>2 DEF Accepts
<1>5. QED
  BY <1>2, <1>3, <1>4 DEF RolledBackLast, Accepts

(* An operation on l leaves the other keys' records the last of theirs, and a    *)
(* rollback is the last of its own.                                          *)
LEMMA LogKeepsLoss ==
  ASSUME MInv, LossLogged, NEW op \in Op, NEW l \in Key, NEW s \in States,
         wal' = Append(wal, W(op, l, "none")), damages' = damages,
         committed' = [committed EXCEPT ![l] = s],
         \A k \in erased' : k \in erased \/ k = l,
         s = "classical" => op = "rollback" \/ l \notin erased'
  PROVE  LossLogged'
<1> DEFINE w == W(op, l, "none")
<1>1. wal \in Seq(WalRecord) /\ w \in WalRecord
  BY DEF MInv, MigrationTypeOK, WalRecord, W
<1>2. /\ Len(wal) \in Nat /\ Len(wal') = Len(wal) + 1
      /\ wal'[Len(wal) + 1] = w
  BY <1>1, Appended
<1>3. w.key = l /\ w.op = op /\ Accepts(w)
  BY DEF W, Accepts
<1> SUFFICES ASSUME damages = 0, NEW k \in erased', committed'[k] = "classical"
             PROVE  RolledBackLast(k)'
  BY DEF LossLogged
<1>4. CASE k = l
  <2>1. op = "rollback"
    BY <1>4 DEF MInv, MigrationTypeOK
  <2>2. Len(wal') \in 1 .. Len(wal') /\ wal'[Len(wal')] = w
    BY <1>2
  <2>3. Len(wal') + 1 .. Len(wal') = {}
    BY <1>2
  <2>4. QED
    BY <1>3, <1>4, <2>1, <2>2, <2>3 DEF RolledBackLast, Accepts
<1>5. CASE k # l
  <2>1. k \in erased /\ k \in Key /\ committed[k] = "classical"
    BY <1>5 DEF MInv, MigrationTypeOK
  <2>2. RolledBackLast(k)
    BY <2>1 DEF LossLogged
  <2>3. QED
    BY <1>1, <1>3, <1>5, <2>1, <2>2, LastKept
<1>6. QED
  BY <1>4, <1>5

LEMMA LossInvariant == MigrationSpec => []LossLogged
<1>1. MigrationInit => LossLogged
  BY DEF MigrationInit, LossLogged
<1>2. MInv /\ Counted /\ RecoveryRestores /\ LossLogged /\ [MigrationNext]_migrationVars
        => LossLogged'
  <2> SUFFICES ASSUME MInv, Counted, RecoveryRestores, LossLogged, [MigrationNext]_migrationVars
               PROVE  LossLogged'
    OBVIOUS
  <2>1. ASSUME UNCHANGED <<wal, erased, committed, damages>> PROVE LossLogged'
    BY <2>1 DEF LossLogged, RolledBackLast
  <2>2. ASSUME NEW k \in Key, Import(k) PROVE LossLogged'
    BY <2>2, LogKeepsLoss, RecordFacts DEF Import, Operation, Log, Op
  <2>3. ASSUME NEW k \in Key, Begin(k) PROVE LossLogged'
    <3>1. Begun.state \in States /\ Begun.state # "classical"
      BY DEF Begun, R, States
    <3>2. QED
      BY <2>3, <3>1, LogKeepsLoss DEF Begin, Operation, Log, Op
  <2>4. ASSUME NEW k \in Key, EnterFinalizing(k) PROVE LossLogged'
    <3>1. Entered.state \in States /\ Entered.state # "classical"
      BY DEF Entered, R, States
    <3>2. QED
      BY <2>4, <3>1, LogKeepsLoss DEF EnterFinalizing, Operation, Log, Op
  <2>5. ASSUME NEW k \in Key, Rollback(k) PROVE LossLogged'
    BY <2>5, LogKeepsLoss, RecordFacts DEF Rollback, Operation, Log, Op
  <2>6. ASSUME NEW k \in Key, EraseClassical(k) PROVE LossLogged'
    <3>1. damages = 0 => committed[k] = "finalizing"
      BY <2>6 DEF EraseClassical, RecoveryRestores
    <3>2. QED
      BY <2>6, <3>1 DEF EraseClassical, LossLogged, RolledBackLast
  <2>7. ASSUME NEW k \in Key, LogPqcOnly(k) PROVE LossLogged'
    <3>1. rec[k] = Finalized
      BY <2>7 DEF LogPqcOnly, MInv, Finalisation
    <3>2. rec[k].state \in States /\ rec[k].state # "classical"
      BY <3>1 DEF Finalized, R, States
    <3>3. QED
      BY <2>7, <3>2, LogKeepsLoss DEF LogPqcOnly, Log, Op
  <2>8. ASSUME Crash PROVE LossLogged'
    <3>1. CASE UNCHANGED wal
      BY <2>1, <2>8, <3>1 DEF Crash
    <3>2. ASSUME NEW op \in Op, NEW l \in Key, wal' = Append(wal, W(op, l, "crc"))
          PROVE  LossLogged'
      <4>1. wal \in Seq(WalRecord) /\ W(op, l, "crc") \in WalRecord
        BY DEF MInv, MigrationTypeOK, WalRecord, W, Check
      <4>2. ~Accepts(W(op, l, "crc"))
        BY DEF Accepts, W
      <4>3. \A k \in Key : RolledBackLast(k) => RolledBackLast(k)'
        BY <3>2, <4>1, <4>2, LastKept
      <4>4. QED
        BY <2>8, <4>3 DEF Crash, LossLogged, MInv, MigrationTypeOK
    <3>3. QED
      BY <2>8, <3>1, <3>2 DEF Crash
  <2>9. ASSUME NEW i \in 1 .. Len(wal), Damage(i) PROVE LossLogged'
    BY <2>9 DEF Damage, LossLogged, Counted
  <2>10. QED
    BY <2>1, <2>2, <2>3, <2>4, <2>5, <2>6, <2>7, <2>8, <2>9
    DEF MigrationNext, migrationVars, MarkPqcOnly, ReplayRecord, EndReplay
<1>3. QED
  BY <1>1, <1>2, MigrationInvariant, CrashesLoseNothing, DamagesCounted, PTL DEF MigrationSpec

(* A key is left with neither half by a logged rollback only, after any number   *)
(* of crashes, as long as the log was not damaged (wp_pqc_wal.c:243-251).       *)
THEOREM OnlyRollbackLosesKeys == MigrationSpec => []OnlyRollbackLoses
<1>1. MInv /\ RecoveryRestores /\ LossLogged => OnlyRollbackLoses
  <2> SUFFICES ASSUME MInv, RecoveryRestores, LossLogged, stage = "idle", damages = 0,
                      NEW k \in erased, rec[k] # Absent, ~rec[k].pqc
               PROVE  RolledBackLast(k)
    BY DEF OnlyRollbackLoses
  <2>1. k \in Key \ busy
    BY DEF MInv, MigrationTypeOK, Finalisation
  <2>2. rec[k] = Imported
    BY <2>1 DEF MInv, WellFormed, Begun, Entered, Finalized, R
  <2>3. rec[k].state = "classical"
    BY <2>2 DEF Imported, R
  <2>4. committed[k] = "classical"
    BY <2>1, <2>3 DEF RecoveryRestores
  <2>5. QED
    BY <2>4 DEF LossLogged
<1>2. QED
  BY <1>1, MigrationInvariant, CrashesLoseNothing, LossInvariant, PTL
=============================================================================
