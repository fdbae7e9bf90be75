----------------------------- MODULE BridgeIds ------------------------------
(***************************************************************************)
(* The bytes that identify a transfer of the cross-chain bridge, as            *)
(* verification/cbmc/cbmc_bridge_bounds.c carries them: what a transfer id is   *)
(* the hash of, and what a relay signs in a lock proof.  The hash itself is     *)
(* ideal: the bytes stand for it.  Around them, the transfers that were given   *)
(* an id and the proofs relays signed; who asks for them is external.          *)
(***************************************************************************)
EXTENDS ByteStrings, FiniteSets

CONSTANTS
  BridgeTag,              \* "BRIDGE-ID-V1"
  Chain,                  \* chain bytes
  Address, AddressMax,    \* address arguments, as C strings; 128 in the code
  Amount, Timelock,
  Digest,                 \* hashes: byte strings of one length
  Height, Confirmations,
  MaxIds                  \* bound on ids and proofs

ASSUME BridgeConstants ==
  /\ BridgeTag \in Seq(Byte) /\ Chain \subseteq Byte
  /\ Address \subseteq Seq(Byte) /\ AddressMax \in Nat
  /\ Amount \cup Timelock \cup Height \subseteq {n \in Nat : Fits64(n)}
  /\ Confirmations \subseteq {n \in Nat : Fits32(n)}
  /\ Digest \subseteq Seq(Byte)
  /\ \A c, d \in Digest : Len(c) = Len(d)

VARIABLES
  transfers,   \* what ids were generated for
  attested     \* lock proofs that were signed

bridgeVars == <<transfers, attested>>

-----------------------------------------------------------------------------
Capped(s) == IF Len(s) > AddressMax THEN SubSeq(s, 1, AddressMax) ELSE s

(* Mutated: the zero bytes at the end of a word are not written. *)
Significant(s) == SubSeq(s, 1, Len(SelectSeq([i \in 1 .. Len(s) |-> i],
                                             LAMBDA i : \E j \in i .. Len(s) : s[j] # 0)))
WordsShort(m, n) == Significant(LE64(m)) \o Significant(LE64(n))

(* Amount and timelock.                                                     *)
Words(m, n) == LE64(m) \o LE64(n)

(* generate_transfer_id_model, up to its hash.                              *)
TransferId(p) ==
  BridgeTag \o (<<p.src, p.dst>> \o
    ((Capped(p.from) \o Capped(p.to)) \o Words(p.amount, p.timelock)))

(* What a relay signs, up to its hash.                                      *)
LockMessage(m) == m.tx \o (LE64(m.height) \o (LE32(m.confirmations) \o m.id))

Parameters ==
  [src : Chain, dst : Chain, from : Address, to : Address, amount : Amount, timelock : Timelock]
LockProof == [tx : Digest, height : Height, confirmations : Confirmations, id : Digest]

-----------------------------------------------------------------------------
Room == Cardinality(transfers) + Cardinality(attested) < MaxIds

InitiateTransfer(p) ==
  p \notin transfers /\ transfers' = transfers \cup {p} /\ UNCHANGED attested

Attest(m) ==
  m \notin attested /\ attested' = attested \cup {m} /\ UNCHANGED transfers

BridgeInit == transfers = {} /\ attested = {}

BridgeNext ==
  /\ Room
  /\ \/ \E p \in Parameters : InitiateTransfer(p)
     \/ \E m \in LockProof : Attest(m)

BridgeSpec == BridgeInit /\ [][BridgeNext]_bridgeVars

-----------------------------------------------------------------------------
(* Properties *)

SameTransfer(p, q) ==
  /\ p.src = q.src /\ p.dst = q.dst
  /\ p.amount = q.amount /\ p.timelock = q.timelock
  /\ Capped(p.from) \o Capped(p.to) = Capped(q.from) \o Capped(q.to)

(* Two transfers share an id exactly when they agree on both chains, amount,   *)
(* timelock and the two capped addresses written one after the other; the      *)
(* split between the addresses, and what is cut off, do not count              *)
(* (cbmc_bridge_bounds.c:50-98).                                            *)
IdsIdentify ==
  \A p, q \in transfers : TransferId(p) = TransferId(q) <=> SameTransfer(p, q)

(* A relay's signature attests one transaction, height, number of              *)
(* confirmations and transfer (cbmc_bridge_bounds.c:155-177).                *)
LocksIdentify == \A m, n \in attested : LockMessage(m) = LockMessage(n) => m = n
=============================================================================
