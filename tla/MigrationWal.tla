---------------------------- MODULE MigrationWal ----------------------------
(***************************************************************************)
(* The key migration engine and its write-ahead log: the record transitions  *)
(* and the replay of verification/coq/PQCMigration.v, the guards and record   *)
(* checks of verification/framac/wp_pqc_migration.c and wp_pqc_wal.c, and the *)
(* order of a finalisation in verification/cbmc/cbmc_pqc_migration_actual.c.  *)
(*                                                                         *)
(* An operation holds the engine's lock and logs its record before it         *)
(* returns; a finalisation is three steps a crash may come between.  A crash   *)
(* empties memory and may leave a torn last record; a record may be damaged    *)
(* while the engine is down.  Key material comes back with the record that     *)
(* imports it, from a key store outside the tree.                            *)
(***************************************************************************)
EXTENDS Integers, Sequences, FiniteSets

CONSTANTS
  Key,
  FirstCapacity, MaxRecords,        \* 16 and MIGRATION_MAX_RECORDS in the code
  MaxLog, MaxCrashes, MaxDamages    \* bounds

ASSUME MigrationConstants ==
  /\ FirstCapacity \in Nat \ {0} /\ MaxRecords \in Nat \ {0}
  /\ MaxLog \in Nat /\ MaxCrashes \in Nat /\ MaxDamages \in Nat

VARIABLES
  rec,        \* rec[k]: the migration record of k, or Absent
  capacity,   \* records the table has room for
  wal,        \* the log, in the order of its sequence numbers
  stage,      \* "idle", the next step of a finalisation, or "replay"
  busy,       \* the key being finalised, {} or a singleton
  replayed,   \* records replayed since the last crash
  erased,     \* history: keys whose classical key was destroyed
  committed,  \* history: the state of k when its last record was logged
  crashes, damages

volatile == <<rec, capacity>>
migrationVars ==
  <<rec, capacity, wal, stage, busy, replayed, erased, committed, crashes, damages>>

-----------------------------------------------------------------------------
(* Records of the table *)

R(s, classical, pqc) == [state |-> s, classical |-> classical, pqc |-> pqc]

Absent == R("absent", FALSE, FALSE)

Imported == R("classical", TRUE, FALSE)
Begun == R("hybrid", TRUE, TRUE)
Entered == R("finalizing", TRUE, TRUE)
Finalized == R("pqc_only", FALSE, TRUE)

(* Mutated: the new keys are not freed. *)
RolledBackKeepingPqc == R("classical", TRUE, TRUE)

RolledBack == R("classical", TRUE, FALSE)

CanBegin(r) == r.state = "classical"
CanEnter(r) == r.state = "hybrid"
CanFinalize(r) == r.state \in {"hybrid", "finalizing"}
CanRollBack(r) == r.state \in {"hybrid", "finalizing"}

RecordCount == Cardinality({k \in Key : rec[k] # Absent})

(* Mutated: a full table passes for one with room. *)
EnsureCapacityLate == IF RecordCount <= capacity THEN capacity ELSE capacity * 2

(* The capacity before one more record is added.                            *)
EnsureCapacity ==
  IF RecordCount < capacity THEN capacity
  ELSE LET doubled == IF capacity = 0 THEN FirstCapacity ELSE capacity * 2
       IN IF doubled > MaxRecords THEN MaxRecords ELSE doubled

-----------------------------------------------------------------------------
(* Records of the log: "damage" says which check the record fails, if any *)

Op == {"import", "begin", "finalize", "rollback", "enter"}
Check == {"magic", "version", "operation", "state", "crc"}

W(op, k, damage) == [op |-> op, key |-> k, damage |-> damage]

(* Mutated: the checksum is not compared. *)
AcceptsAnySum(w) == w.damage \in {"none", "crc"}

Accepts(w) == w.damage = "none"

Log(op, k, r) ==
  /\ Len(wal) < MaxLog
  /\ wal' = Append(wal, W(op, k, "none"))
  /\ committed' = [committed EXCEPT ![k] = r.state]

(* What replaying w may make of its key's record r.  The replay knows four    *)
(* operations; whether it restores FINALIZING too depends on the source.      *)
Replays(r, w) ==
  IF ~Accepts(w) THEN {r}
  ELSE CASE w.op = "import" -> {Imported}
         [] w.op = "begin" -> {IF CanBegin(r) THEN Begun ELSE r}
         [] w.op = "finalize" -> {IF CanFinalize(r) THEN Finalized ELSE r}
         [] w.op = "rollback" -> {IF CanRollBack(r) THEN RolledBack ELSE r}
         [] w.op = "enter" -> {r} \cup (IF CanEnter(r) THEN {Entered} ELSE {})

-----------------------------------------------------------------------------
(* Operations *)

Set(k, r) == rec' = [rec EXCEPT ![k] = r]

(* One operation from its guard to its log record, with the lock held.       *)
Operation(op, k, r) ==
  /\ stage = "idle"
  /\ Set(k, r) /\ Log(op, k, r)
  /\ UNCHANGED <<stage, busy, replayed, crashes, damages>>

Import(k) ==
  /\ rec[k] = Absent
  /\ RecordCount < EnsureCapacity
  /\ capacity' = EnsureCapacity
  /\ Operation("import", k, Imported)
  /\ erased' = erased \ {k}

(* Mutated: an operation that returns before it is logged. *)
BeginUnlogged(k) ==
  /\ stage = "idle" /\ CanBegin(rec[k]) /\ Set(k, Begun)
  /\ UNCHANGED <<capacity, wal, stage, busy, replayed, erased, committed, crashes, damages>>

Begin(k) ==
  CanBegin(rec[k]) /\ Operation("begin", k, Begun) /\ UNCHANGED <<capacity, erased>>

(* Mutated: the last record of a finalisation is logged as it begins. *)
EnterFinalizingAsFinal(k) ==
  CanEnter(rec[k]) /\ Operation("finalize", k, Entered) /\ UNCHANGED <<capacity, erased>>

EnterFinalizing(k) ==
  CanEnter(rec[k]) /\ Operation("enter", k, Entered) /\ UNCHANGED <<capacity, erased>>

Rollback(k) ==
  /\ CanRollBack(rec[k]) /\ Operation("rollback", k, RolledBack)
  /\ UNCHANGED <<capacity, erased>>

(* The classical key is destroyed first,                                    *)
EraseClassical(k) ==
  /\ stage = "idle" /\ stage' = "mark" /\ busy' = {k}
  /\ rec[k].state = "finalizing"
  /\ Set(k, R(rec[k].state, FALSE, rec[k].pqc))
  /\ erased' = erased \cup {k}
  /\ UNCHANGED <<capacity, wal, replayed, committed, crashes, damages>>

(* then the record in memory says so,                                       *)
MarkPqcOnly(k) ==
  /\ stage = "mark" /\ stage' = "log" /\ busy = {k}
  /\ rec' = [rec EXCEPT ![k].state = "pqc_only"]
  /\ UNCHANGED <<capacity, wal, busy, replayed, erased, committed, crashes, damages>>

(* then the log.                                                            *)
LogPqcOnly(k) ==
  /\ stage = "log" /\ stage' = "idle" /\ busy = {k} /\ busy' = {}
  /\ Log("finalize", k, rec[k])
  /\ UNCHANGED <<volatile, replayed, erased, crashes, damages>>

-----------------------------------------------------------------------------
(* Crashes and the replay *)

(* Whether the engine may stop while it writes this record.                  *)
Writing(op, k) ==
  CASE op = "import" -> stage = "idle" /\ rec[k] = Absent
    [] op = "begin" -> stage = "idle" /\ CanBegin(rec[k])
    [] op = "enter" -> stage = "idle" /\ CanEnter(rec[k])
    [] op = "rollback" -> stage = "idle" /\ CanRollBack(rec[k])
    [] op = "finalize" -> stage = "log" /\ busy = {k}

Crash ==
  /\ stage # "replay" /\ crashes < MaxCrashes
  /\ \/ UNCHANGED wal
     \/ \E op \in Op, k \in Key :
          Writing(op, k) /\ wal' = Append(wal, W(op, k, "crc"))
  /\ stage' = "replay" /\ busy' = {} /\ replayed' = 0
  /\ rec' = [k \in Key |-> Absent] /\ capacity' = 0
  /\ crashes' = crashes + 1
  /\ UNCHANGED <<erased, committed, damages>>

(* One field goes bad: one with a check of its own, or one the sum covers.    *)
Damage(i) ==
  /\ stage = "replay" /\ replayed = 0 /\ damages < MaxDamages
  /\ \/ \E c \in Check : wal' = [wal EXCEPT ![i].damage = c]
     \/ \E op \in Op : wal' = [wal EXCEPT ![i] = W(op, @.key, "crc")]
     \/ \E k \in Key : wal' = [wal EXCEPT ![i] = W(@.op, k, "crc")]
  /\ damages' = damages + 1
  /\ UNCHANGED <<volatile, stage, busy, replayed, erased, committed, crashes>>

ReplayRecord ==
  /\ stage = "replay" /\ replayed < Len(wal)
  /\ LET w == wal[replayed + 1]
         found == rec[w.key] # Absent
     IN /\ \E r \in Replays(rec[w.key], w) : Set(w.key, r)
        /\ capacity' = IF found \/ rec'[w.key] = Absent THEN capacity ELSE EnsureCapacity
  /\ replayed' = replayed + 1
  /\ UNCHANGED <<wal, stage, busy, erased, committed, crashes, damages>>

EndReplay ==
  /\ stage = "replay" /\ replayed = Len(wal)
  /\ stage' = "idle"
  /\ UNCHANGED <<volatile, wal, busy, replayed, erased, committed, crashes, damages>>

MigrationInit ==
  /\ rec = [k \in Key |-> Absent] /\ capacity = 0
  /\ wal = << >> /\ stage = "idle" /\ busy = {} /\ replayed = 0
  /\ erased = {} /\ committed = [k \in Key |-> "absent"]
  /\ crashes = 0 /\ damages = 0

MigrationNext ==
  \/ \E k \in Key :
       \/ Import(k) \/ Begin(k) \/ EnterFinalizing(k) \/ Rollback(k)
       \/ EraseClassical(k) \/ MarkPqcOnly(k) \/ LogPqcOnly(k)
  \/ Crash \/ ReplayRecord \/ EndReplay
  \/ \E i \in 1 .. Len(wal) : Damage(i)

MigrationSpec == MigrationInit /\ [][MigrationNext]_migrationVars

-----------------------------------------------------------------------------
(* Properties *)

States == {"absent", "classical", "hybrid", "finalizing", "pqc_only"}

MigrationTypeOK ==
  /\ rec \in [Key -> [state : States, classical : BOOLEAN, pqc : BOOLEAN]]
  /\ capacity \in 0 .. MaxRecords
  /\ wal \in Seq([op : Op, key : Key, damage : Check \cup {"none"}])
  /\ stage \in {"idle", "mark", "log", "replay"}
  /\ replayed \in 0 .. Len(wal)
  /\ erased \subseteq Key /\ busy \subseteq Key
  /\ committed \in [Key -> States]

(* Outside the finalisation in progress the flags of a record say what its    *)
(* state says, also half way through the replay of a damaged log             *)
(* (PQCMigration.v:82-88, wp_pqc_migration.c:120-185).                       *)
WellFormed ==
  \A k \in Key \ busy :
    rec[k] \in {Absent, Imported, Begun, Entered, Finalized}

(* A record that says PQC_ONLY, live, recovered or half replayed, belongs to  *)
(* a classical key that was destroyed: the log never claims an erasure that   *)
(* had yet to happen (wp_pqc_wal.c:188-241).                                *)
PqcOnlyMeansErased == \A k \in Key : rec[k].state = "pqc_only" => k \in erased

(* With no damaged record a crash loses nothing that was logged and brings    *)
(* nothing back that was not: every key is where its last record left it, a   *)
(* torn record counts for nothing, and a finalisation that was only entered   *)
(* may have to be entered again (wp_pqc_wal.c:86-184).                       *)
RecoveryRestores ==
  stage = "idle" /\ damages = 0 =>
    \A k \in Key :
      \/ rec[k].state = committed[k]
      \/ rec[k].state = "hybrid" /\ committed[k] = "finalizing"

(* Of the records of k in the log that a replay accepts the last is a          *)
(* rollback.                                                                *)
RolledBackLast(k) ==
  \E i \in 1 .. Len(wal) :
    /\ wal[i].key = k /\ wal[i].op = "rollback" /\ Accepts(wal[i])
    /\ \A j \in i + 1 .. Len(wal) : wal[j].key # k \/ ~Accepts(wal[j])

(* While no record is damaged, a key that is left with neither half, through     *)
(* any number of crashes, was left so by a rollback and the log says it: no     *)
(* replay by itself stops between the two halves (wp_pqc_wal.c:243-251).        *)
OnlyRollbackLoses ==
  stage = "idle" /\ damages = 0 =>
    \A k \in erased :
      rec[k] # Absent /\ ~rec[k].pqc => RolledBackLast(k)

(* The table never holds more records than it has room for, also while it is   *)
(* rebuilt, and an import is refused for want of room only at the limit       *)
(* (cbmc_pqc_migration.c:276-308).                                          *)
RecordsFit ==
  /\ RecordCount <= capacity /\ capacity <= MaxRecords
  /\ RecordCount >= EnsureCapacity => RecordCount = MaxRecords

(* Claimed at wp_pqc_wal.c:243-251: every record keeps a key that exists.        *)
KeyRemains ==
  stage = "idle" => \A k \in Key : rec[k] # Absent => rec[k].pqc \/ k \notin erased
=============================================================================
