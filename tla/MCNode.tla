------------------------------- MODULE MCNode -------------------------------
(* The parts of the node that share no state with each other, side by side:   *)
(* an execution runs one of them, chosen in the initial state, so that the     *)
(* state space is their sum.                                                *)
EXTENDS Quorums, TokenLedger, UtxoSet, Governance, Gateway, Snapshots, MigrationWal,
        MigrationCodec, BridgeIds, DomainSeparation, TLC

CONSTANTS Part      \* the parts that are run
VARIABLES part

Four == 0 .. 3
LastFaulty == {3}
TwoViews == {1, 4}

Get == <<"G", " ">>
Post == <<"P", "P", " ">>
MigrationRoute == <<"/", "G">>
Http == <<" ", "h">>
Descriptors == {-1, 0, 5}

Strings(S, n) == UNION {[1..k -> S] : k \in 0..n}

(* The bytes are 0 (the C terminator), 1 and 2 (which also occur as lengths).  *)
ShortPrefix == <<72>>
CStrings == Strings({1, 2}, 3)
ShortMessages == Strings({0, 1}, 2) \cup {<<1, 1, 1>>}
AllArguments == CStrings \cup {NULL, <<0>>, <<1, 0>>, <<1, 0, 2>>, <<1, 2, 0, 1>>}

(* '/', '0', '9', 'A', 'F', 'a', 'g' *)
SomeChars == {47, 48, 57, 65, 70, 97, 103}
OneRecord == {<<{}, {0, 7}, {}, {5}>>}
Bits == 0 .. 31
FewBits == {{a, b, c} : a \in Bits, b \in Bits, c \in Bits}
Burst(w) == {{w + i : i \in s} : s \in SUBSET (0 .. 7) \ {{}}}
SmallErrors == FewBits \cup UNION {Burst(w) : w \in 0 .. 24}

(* Records that differ in a field, in one byte of a field, and in a key name   *)
(* longer than the field.                                                    *)
Named(n) == [i \in 1 .. n |-> 97]
FewRecords ==
  [operation : {1, 2}, key_id : {Named(1), Named(64), Named(65)}, new_state : {1, 2},
   seq : {42}, peer_state : {0}, peer_shard_id : {0}, peer_updated_at : {0}]
    \cup
  [operation : {1}, key_id : {Named(1)}, new_state : {1}, seq : {42, 256},
   peer_state : {0, 1}, peer_shard_id : {0, 16777216}, peer_updated_at : {0, 65536}]

BridgeDomain == <<66>>
SomeAddresses == {<< >>, <<1>>, <<2>>, <<1, 2>>, <<1, 2, 1>>}
Hashes == {<<0, 1>>, <<1, 0>>, <<0, 0>>}

nodeVars ==
  <<part, roundVars, ledgerVars, utxoVars, govVars, sessionVars, snapshotVars,
    migrationVars, sepVars, codecVars, bridgeVars>>

(* A part that is not run stays at one initial state. *)
Idle ==
  /\ part # "governance" => \A v \in Voter : stake[v] = 1
  /\ part # "gateway" => u_fd = -1

NodeInit ==
  /\ part \in Part
  /\ RoundInit /\ LedgerInit /\ UtxoInit /\ SessionInit /\ SnapshotInit /\ MigrationInit
  /\ SepInit /\ GovInit /\ CodecInit /\ BridgeInit
  /\ Idle

(* Part p makes a step of its own, and only p. *)
Keeps(p, vars) == part = p \/ UNCHANGED vars
Only(p) ==
  /\ part = p /\ UNCHANGED part
  /\ Keeps("rounds", roundVars) /\ Keeps("ledger", ledgerVars)
  /\ Keeps("utxo", utxoVars) /\ Keeps("governance", govVars)
  /\ Keeps("gateway", sessionVars) /\ Keeps("snapshots", snapshotVars)
  /\ Keeps("migration", migrationVars) /\ Keeps("domains", sepVars)
  /\ Keeps("codec", codecVars) /\ Keeps("bridge", bridgeVars)

NodeNext ==
  \/ Only("rounds") /\ RoundNext
  \/ Only("ledger") /\ LedgerNext
  \/ Only("utxo") /\ UtxoNext
  \/ Only("governance") /\ GovNext
  \/ Only("gateway") /\ SessionNext
  \/ Only("snapshots") /\ SnapshotNext
  \/ Only("migration") /\ MigrationNext
  \/ Only("domains") /\ SepNext
  \/ Only("codec") /\ CodecNext
  \/ Only("bridge") /\ BridgeNext

NodeSpec == NodeInit /\ [][NodeNext]_nodeVars

(* The variables keep to the ranges their words, tables and tallies have.     *)
NodeTypeOK ==
  /\ RoundTypeOK /\ LedgerTypeOK /\ GovTypeOK
  /\ MigrationTypeOK
=============================================================================
