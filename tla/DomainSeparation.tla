-------------------------- MODULE DomainSeparation --------------------------
(***************************************************************************)
(* build_domain_separated_message (src/src/pqc_crypto.c:22-124) and what it *)
(* is for: a signature made for one (domain, message) must not verify for   *)
(* another.  The signature scheme itself is taken as ideal: pqc_verify      *)
(* accepts exactly the byte strings pqc_sign was given under the key.       *)
(*                                                                         *)
(* A domain argument is NULL or the caller's string of bytes; C sees it up  *)
(* to its first zero byte.  Messages carry their length.                   *)
(***************************************************************************)
EXTENDS ByteStrings, FiniteSets

CONSTANTS
  Prefix,     \* HIGGAION_DS_PREFIX
  DomMax,     \* HIGGAION_DOMAIN_MAX_LEN, 4096 in the code
  MsgMax,     \* the message bound, 104857600 in the code
  Domain,     \* domain arguments callers pass
  Message,    \* messages callers pass
  NULL,
  MaxSigned   \* bound on the number of signatures

ASSUME EncodingBounds ==
  /\ Prefix \in Seq(Byte)
  /\ DomMax \in Nat /\ Fits32(DomMax)
  /\ MsgMax \in Nat
ASSUME Arguments ==
  /\ Domain \subseteq Seq(Byte) \cup {NULL} /\ NULL \notin Seq(Byte)
  /\ Message \subseteq Seq(Byte)
ASSUME MaxSignedNat == MaxSigned \in Nat

VARIABLES
  signed,    \* the byte strings pqc_sign has signed
  asked,     \* history: the (domain argument, message) pairs it was asked for
  accepted   \* history: the pair pqc_verify accepted last, or none

sepVars == <<signed, asked, accepted>>

-----------------------------------------------------------------------------
(* The encoding *)

(* What a C function sees of a string: the bytes before the first zero.     *)
CString(s) ==
  SubSeq(s, 1, Cardinality({n \in 1..Len(s) : 0 \notin {s[i] : i \in 1..n}}))

(* A NULL domain counts as the empty one. *)
Tag(d) == IF d = NULL THEN <<>> ELSE CString(d)

(* Mutated: the concatenation without lengths of the legacy pqc_crypto.c. *)
Concatenated(tag, msg) == Prefix \o tag \o msg

Encode(tag, msg) ==
  Prefix \o (U32(Len(tag)) \o (tag \o (U64(Len(msg)) \o msg)))

(* The buffer built, as a set: empty when the call is rejected.             *)
Build(d, msg) ==
  IF Len(msg) > MsgMax \/ Len(Tag(d)) > DomMax THEN {} ELSE {Encode(Tag(d), msg)}

-----------------------------------------------------------------------------
SepInit == signed = {} /\ asked = {} /\ accepted = {}

Sign(d, msg) ==
  /\ Cardinality(asked) < MaxSigned
  /\ Build(d, msg) # {}
  /\ signed' = signed \cup Build(d, msg)
  /\ asked' = asked \cup {<<d, msg>>}
  /\ UNCHANGED accepted

Verify(d, msg) ==
  /\ Build(d, msg) # {}
  /\ accepted' = IF Build(d, msg) \subseteq signed THEN {<<d, msg>>} ELSE {}
  /\ UNCHANGED <<signed, asked>>

SepNext == \E d \in Domain, msg \in Message : Sign(d, msg) \/ Verify(d, msg)

SepSpec == SepInit /\ [][SepNext]_sepVars

-----------------------------------------------------------------------------
(* Properties *)

SepTypeOK ==
  /\ signed \in SUBSET Seq(Byte)
  /\ asked \in SUBSET (Domain \X Message)
  /\ accepted \in SUBSET (Domain \X Message)

(* pqc_verify accepts a message under a domain only if that message was      *)
(* signed under that domain, as C sees the domain (pqc_crypto.c:24-28).     *)
NoCrossDomainAcceptance ==
  \A a \in accepted : \E s \in asked : Tag(s[1]) = Tag(a[1]) /\ s[2] = a[2]
=============================================================================
