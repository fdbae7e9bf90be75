----------------------------- MODULE Snapshots ------------------------------
(***************************************************************************)
(* Snapshots for disaster recovery: the replication step of                  *)
(* verification/cbmc/cbmc_disaster_recovery.c.  A replication call learns     *)
(* how many regions hold a copy now, which changes between calls as regions   *)
(* come and go (external); completing a snapshot is external too.             *)
(***************************************************************************)
EXTENDS Integers, FiniteSets

CONSTANTS Snapshot, Region

ASSUME SnapshotConstants == IsFiniteSet(Region)

VARIABLES
  status,     \* status[s]: "new", "complete", "replicating", "verified"
  copies,     \* copies[s]: the regions that hold s
  counted     \* history: the regions the last replication of s counted

snapshotVars == <<status, copies, counted>>

-----------------------------------------------------------------------------
Replicated(current, regions) ==
  IF current \notin {"complete", "replicating"} THEN current
  ELSE IF regions >= 2 THEN "verified"
  ELSE IF regions = 1 THEN "replicating"
  ELSE current

Replicate(s) ==
  /\ counted' = [counted EXCEPT ![s] = Cardinality(copies[s])]
  /\ status' = [status EXCEPT ![s] = Replicated(@, counted'[s])]
  /\ UNCHANGED copies

Complete(s) ==
  /\ status[s] = "new"
  /\ status' = [status EXCEPT ![s] = "complete"]
  /\ UNCHANGED <<copies, counted>>

RegionChanges(s, g) ==
  /\ status[s] # "new"
  /\ copies' = [copies EXCEPT ![s] = IF g \in @ THEN @ \ {g} ELSE @ \cup {g}]
  /\ UNCHANGED <<status, counted>>

SnapshotInit ==
  /\ status = [s \in Snapshot |-> "new"]
  /\ copies = [s \in Snapshot |-> {}]
  /\ counted = [s \in Snapshot |-> 0]

SnapshotNext ==
  \E s \in Snapshot :
    Complete(s) \/ Replicate(s) \/ \E g \in Region : RegionChanges(s, g)

SnapshotSpec == SnapshotInit /\ [][SnapshotNext]_snapshotVars

-----------------------------------------------------------------------------
(* Properties *)

(* "VERIFIED requires >= 2 regions (INV-052)", cbmc_disaster_recovery.c:125:   *)
(* a snapshot that is verified had two regions when it was last replicated.   *)
VerifiedHasRegions == \A s \in Snapshot : status[s] = "verified" => counted[s] >= 2
=============================================================================
