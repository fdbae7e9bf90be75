----------------------------- MODULE KeyHandles -----------------------------
(***************************************************************************)
(* The key lifecycle of src/src/pqc_crypto.c: HiggaionKey structs, each     *)
(* one pointer wide, over reference-counted EVP_PKEY objects of OpenSSL.    *)
(*                                                                         *)
(* A HiggaionKey is a handle.  Its pkey is NULL, an object, or the          *)
(* indeterminate value (Raw) of a struct higgaion_key_init has not seen.    *)
(* Several handles may name one object: that is what higgaion_key_up_ref    *)
(* is for.  OpenSSL's counter is the only thing that keeps the object       *)
(* alive, and the allocator may hand a freed address out again, so an       *)
(* object identifier is an address, not an identity.                        *)
(***************************************************************************)
EXTENDS Integers, FiniteSets

CONSTANTS
  Handle,      \* HiggaionKey structs
  Obj,         \* addresses EVP_PKEY_keygen can return
  Alg,         \* algorithm names a caller may pass
  Approved,    \* those on HIGGAION_PQC_ALLOWLIST
  Required,    \* HIGGAION_PQC_REQUIRED: FALSE in test builds only
  MaxRefs,     \* bound on one object's counter
  NULL, Raw

ASSUME HandleFinite == IsFiniteSet(Handle)
ASSUME PointerValues == NULL \notin Obj /\ Raw \notin Obj /\ NULL # Raw
ASSUME PolicyConstants == Approved \subseteq Alg /\ Required \in BOOLEAN
ASSUME MaxRefsPositive == MaxRefs \in Nat \ {0}

VARIABLES
  pkey,        \* pkey[h]: the pointer stored in handle h
  refs         \* refs[o]: OpenSSL's reference count of o, 0 when freed

vars == <<pkey, refs>>

-----------------------------------------------------------------------------
(* State functions *)

(* The algorithms higgaion_is_algorithm_allowed accepts in this build. *)
Permitted == IF Required THEN Approved ELSE Alg

Holders(o) == {h \in Handle : pkey[h] = o}

(* References to o that no handle remembers: nobody can release them. *)
Leaked(o) == refs[o] - Cardinality(Holders(o))

Live(h) == pkey[h] \in Obj

(* The counters after EVP_PKEY_free(pkey[h]); unchanged when h holds none. *)
AfterRelease(h) ==
  [o \in Obj |-> IF pkey[h] = o THEN refs[o] - 1 ELSE refs[o]]

Point(h, p) == pkey' = [pkey EXCEPT ![h] = p]

-----------------------------------------------------------------------------
(* Mutated forms: plausible bugs the properties below must notice *)

(* higgaion_key_free that forgets to clear the pointer. *)
KeyFreeDangling(h) ==
  /\ Live(h)
  /\ refs' = AfterRelease(h)
  /\ UNCHANGED pkey

(* The raw aliasing that HIG-003 replaced: no EVP_PKEY_up_ref. *)
KeyUpRefAliased(dst, src) ==
  /\ Live(src)
  /\ refs[pkey[src]] < MaxRefs
  /\ Point(dst, pkey[src])
  /\ UNCHANGED refs

(* The generate_keypair of before HIG-004: the old key is overwritten. *)
GenerateOkLeaking(h, alg) ==
  /\ alg \in Permitted
  /\ pkey[h] # Raw
  /\ \E o \in Obj :
       /\ refs[o] = 0
       /\ refs' = [refs EXCEPT ![o] = 1]
       /\ Point(h, o)

(* An erase that frees the key and keeps the pointer. *)
EraseDestroysDangling(h) ==
  /\ Live(h)
  /\ refs' = AfterRelease(h)
  /\ UNCHANGED pkey

-----------------------------------------------------------------------------
(* Operations *)

Init ==
  /\ pkey = [h \in Handle |-> Raw]
  /\ refs = [o \in Obj |-> 0]

(* higgaion_key_init on a fresh struct; every caller in the tree runs it     *)
(* once per struct, before anything else.                                  *)
KeyInit(h) ==
  /\ pkey[h] = Raw
  /\ Point(h, NULL)
  /\ UNCHANGED refs

(* The struct's storage ends (the caller's scope, or its wrapper): only     *)
(* structs that hold nothing are let go here, wrappers are in Bindings.     *)
Retire(h) ==
  /\ pkey[h] = NULL
  /\ Point(h, Raw)
  /\ UNCHANGED refs

(* generate_keypair, algorithm refused by policy: the pointer is cleared    *)
(* before the release of the old key is reached.                           *)
GenerateRejected(h, alg) ==
  /\ alg \in Alg \ Permitted
  /\ Point(h, NULL)
  /\ UNCHANGED refs

(* generate_keypair, a failing CTX_new_from_name, keygen_init or keygen:    *)
(* the old key is gone and no new one replaces it.                         *)
GenerateFails(h, alg) ==
  /\ alg \in Permitted
  /\ pkey[h] # Raw
  /\ refs' = AfterRelease(h)
  /\ Point(h, NULL)

(* generate_keypair, success: a free address, possibly the one just         *)
(* released, now holds a new object with one reference.                    *)
GenerateOk(h, alg) ==
  /\ alg \in Permitted
  /\ pkey[h] # Raw
  /\ \E o \in Obj :
       /\ AfterRelease(h)[o] = 0
       /\ refs' = [AfterRelease(h) EXCEPT ![o] = 1]
       /\ Point(h, o)

Generate(h, alg) ==
  GenerateRejected(h, alg) \/ GenerateFails(h, alg) \/ GenerateOk(h, alg)

(* higgaion_key_free on a handle that holds a key. *)
KeyFree(h) ==
  /\ Live(h)
  /\ refs' = AfterRelease(h)
  /\ Point(h, NULL)

(* The destruction inside higgaion_key_erase_durable (module DurableErase   *)
(* has the file operations around it).                                     *)
EraseDestroys(h) ==
  /\ Live(h)
  /\ refs' = AfterRelease(h)
  /\ Point(h, NULL)

(* higgaion_key_up_ref that succeeds: dst is overwritten whatever it held.  *)
(* A failing EVP_PKEY_up_ref changes nothing.                              *)
KeyUpRef(dst, src) ==
  /\ Live(src)
  /\ refs[pkey[src]] < MaxRefs
  /\ refs' = [refs EXCEPT ![pkey[src]] = @ + 1]
  /\ Point(dst, pkey[src])

Next ==
  \/ \E h \in Handle : KeyInit(h) \/ Retire(h) \/ KeyFree(h) \/ EraseDestroys(h)
  \/ \E h \in Handle, alg \in Alg : Generate(h, alg)
  \/ \E dst, src \in Handle : KeyUpRef(dst, src)

Spec == Init /\ [][Next]_vars

-----------------------------------------------------------------------------
(* Properties *)

TypeOK ==
  /\ pkey \in [Handle -> Obj \cup {NULL, Raw}]
  /\ refs \in [Obj -> Nat]

(* Every handle that points at an object is covered by a reference of its   *)
(* own, whatever the caller did: regenerate, share over a live handle,      *)
(* share a handle with itself, free one owner and keep the other.           *)
(* HIG-003's claim, pqc_crypto.c:292-296.                                  *)
EveryOwnerCounted == \A o \in Obj : Cardinality(Holders(o)) <= refs[o]

(* No handle points at an object OpenSSL has already destroyed.             *)
NoDanglingHandle == \A h \in Handle : Live(h) => refs[pkey[h]] > 0

(* A reference that is lost stays lost (no later call releases it by        *)
(* mistake on behalf of another owner), and only the two paths that         *)
(* overwrite pkey without a release can lose one: regeneration with a       *)
(* permitted algorithm, free and erase never do.                           *)
LeaksOnlyByOverwrite ==
  [][\A o \in Obj :
       /\ Leaked(o)' >= Leaked(o)
       /\ Leaked(o)' > Leaked(o) =>
            \/ \E h \in Handle, alg \in Alg : GenerateRejected(h, alg) /\ pkey[h] = o
            \/ \E dst, src \in Handle : KeyUpRef(dst, src) /\ pkey[dst] = o]_vars

(* HIG-004 as the audit states it: regenerating a key must not leak the     *)
(* key object the handle held.                                             *)
RegenerationDoesNotLeak ==
  [][\A h \in Handle, alg \in Alg :
       Generate(h, alg) => \A o \in Obj : Leaked(o)' <= Leaked(o)]_vars

(* The counters implement independent ownership (pqc_crypto.h:35-44).       *)
Owners == INSTANCE KeyOwners
            WITH Owner <- Handle, Key <- Obj, None <- NULL,
                 holds <- [h \in Handle |-> IF Live(h) THEN pkey[h] ELSE NULL],
                 alive <- {o \in Obj : refs[o] > 0}
ImplementsOwners == Owners!Spec
=============================================================================
