------------------------------ MODULE Bindings ------------------------------
(***************************************************************************)
(* The Go, Rust and Python bindings (go/higgaion.go, rust/src/lib.rs,       *)
(* python/higgaion/core.py) over the C core: a key pair is two wrappers,    *)
(* PrivateKey and PublicKey, each with a HiggaionKey of its own, that share *)
(* one EVP_PKEY through higgaion_key_up_ref.                               *)
(*                                                                         *)
(* The three differ in how a wrapper ends.  Rust drops it where its scope   *)
(* ends, Python's collector runs __del__ some time after the last use, and  *)
(* Go's collector runs nothing: the program has to call Free.              *)
(***************************************************************************)
EXTENDS CryptoCalls

CONSTANTS
  Pair, PrivOf, PubOf,   \* the two handles of each key pair
  Language,              \* the languages the program may be written in
  Freed                  \* Go: the handles the program calls Free on

ASSUME PairsAreDisjoint ==
  /\ PrivOf \in [Pair -> Handle] /\ PubOf \in [Pair -> Handle]
  /\ \A p, q \in Pair : PrivOf[p] # PubOf[q]
  /\ \A p, q \in Pair : p # q => PrivOf[p] # PrivOf[q] /\ PubOf[p] # PubOf[q]
  /\ Language \subseteq {"go", "rust", "python"} /\ Freed \subseteq Handle

VARIABLES
  language,  \* the program's language
  wrapper,   \* wrapper[h]: "absent", "local", "owned" or "dropped"
  making     \* making[p]: how far GenerateKeypair is

bindVars == <<pkey, refs, pc, op, using, bound, heap, sig, siglen, got, language, wrapper, making>>

Finalised == language # "go"
Halves(p) == {PrivOf[p], PubOf[p]}
SetAll(f, S, v) == [x \in DOMAIN f |-> IF x \in S THEN v ELSE f[x]]

-----------------------------------------------------------------------------
(* GenerateKeypair: two local structs, one key, a second reference *)

MakeInit(p) ==
  /\ making[p] = "no" /\ \A h \in Halves(p) : wrapper[h] = "absent"
  /\ pkey' = SetAll(pkey, Halves(p), NULL)
  /\ wrapper' = SetAll(wrapper, Halves(p), "local")
  /\ making' = [making EXCEPT ![p] = "generate"]
  /\ UNCHANGED <<refs, calls>>

MakeKey(p) ==
  /\ making[p] = "generate"
  /\ \E alg \in Alg : Generate(PrivOf[p], alg)
  /\ making' = [making EXCEPT ![p] = "share"]
  /\ UNCHANGED <<calls, wrapper>>

(* An error return: the two local structs go out of scope.                  *)
Abandon(p) ==
  /\ making' = [making EXCEPT ![p] = "no"]
  /\ wrapper' = SetAll(wrapper, Halves(p), "absent")
  /\ pkey' = SetAll(pkey, Halves(p), Raw)

MakeNothing(p) ==
  /\ making[p] = "share" /\ ~Live(PrivOf[p])
  /\ Abandon(p)
  /\ UNCHANGED <<refs, calls>>

MakeShared(p) ==
  /\ making[p] = "share"
  /\ KeyUpRef(PubOf[p], PrivOf[p])
  /\ making' = [making EXCEPT ![p] = "no"]
  /\ wrapper' = SetAll(wrapper, Halves(p), "owned")
  /\ UNCHANGED calls

(* Mutated: the error path of a failed up_ref that returns at once. *)
MakeUnsharedLeaking(p) ==
  /\ making[p] = "share" /\ Live(PrivOf[p])
  /\ Abandon(p)
  /\ UNCHANGED <<refs, calls>>

(* higgaion_key_up_ref fails: the private half is freed before the error.   *)
MakeUnshared(p) ==
  /\ making[p] = "share" /\ Live(PrivOf[p])
  /\ refs' = AfterRelease(PrivOf[p])
  /\ Abandon(p)
  /\ UNCHANGED calls

-----------------------------------------------------------------------------
(* Use and end of a wrapper *)

(* Sign on a private half, Verify on a public one; any number of threads    *)
(* may use one wrapper.                                                    *)
Use(t) ==
  /\ \E p \in Pair :
       \/ wrapper[PrivOf[p]] = "owned" /\ Enter(t, "sign", PrivOf[p])
       \/ wrapper[PubOf[p]] = "owned" /\ Enter(t, "verify", PubOf[p])
  /\ UNCHANGED <<wrapper, making>>

CallInside(t) == CallStep(t) /\ UNCHANGED <<wrapper, making>>

(* Go's Free, whatever else runs: it takes no lock and knows of no call.     *)
(* The wrapper itself stays and answers with errors.                       *)
GoFree(h) ==
  /\ ~Finalised /\ wrapper[h] = "owned"
  /\ KeyFree(h)
  /\ UNCHANGED <<calls, wrapper, making>>

(* What the Go program owes: it calls Free on the handles it promised to,    *)
(* and on none that one of its goroutines is still using.                  *)
FreesInTurn(h) == h \in Freed /\ ~InUse(h)

(* The last reference to the wrapper goes away; a running call holds one.   *)
LetGo(h) ==
  /\ wrapper[h] = "owned" /\ ~InUse(h)
  /\ ~Finalised /\ h \in Freed => ~Live(h)
  /\ wrapper' = [wrapper EXCEPT ![h] = "dropped"]
  /\ UNCHANGED <<pkey, refs, calls, making>>

(* Mutated: a destructor that frees only what it believes it owns. *)
CollectForgetful(h) ==
  /\ wrapper[h] = "dropped"
  /\ UNCHANGED refs
  /\ wrapper' = [wrapper EXCEPT ![h] = "absent"]
  /\ Point(h, Raw)
  /\ UNCHANGED <<calls, making>>

(* Drop, __del__, or Go's collector: only the first two free the key.       *)
Collect(h) ==
  /\ wrapper[h] = "dropped"
  /\ refs' = IF Finalised THEN AfterRelease(h) ELSE refs
  /\ wrapper' = [wrapper EXCEPT ![h] = "absent"]
  /\ Point(h, Raw)
  /\ UNCHANGED <<calls, making>>

-----------------------------------------------------------------------------
BindInit ==
  /\ Init
  /\ pc = [t \in Thread |-> "idle"]
  /\ op = [t \in Thread |-> "sign"]
  /\ using = [t \in Thread |-> NoHandle]
  /\ bound = [t \in Thread |-> NULL]
  /\ heap = [t \in Thread |-> {}]
  /\ sig = [t \in Thread |-> "null"]
  /\ siglen = [t \in Thread |-> 0]
  /\ got = [t \in Thread |-> "nothing"]
  /\ language \in Language
  /\ wrapper = [h \in Handle |-> "absent"]
  /\ making = [p \in Pair |-> "no"]

Make(p) == MakeInit(p) \/ MakeKey(p) \/ MakeNothing(p) \/ MakeShared(p) \/ MakeUnshared(p)

BindNext ==
  /\ \/ \E p \in Pair : Make(p)
     \/ \E t \in Thread : Use(t) \/ CallInside(t)
     \/ \E h \in Handle : (FreesInTurn(h) /\ GoFree(h)) \/ LetGo(h) \/ Collect(h)
  /\ UNCHANGED language

BindSpec == BindInit /\ [][BindNext]_bindVars

(* Calls and GenerateKeypair run to their end, and collectors run.          *)
BindFairness ==
  /\ \A t \in Thread : WF_bindVars(CallInside(t) /\ UNCHANGED language)
  /\ \A p \in Pair : WF_bindVars(Make(p) /\ making[p] # "no" /\ UNCHANGED language)
  /\ \A h \in Handle : WF_bindVars(Collect(h) /\ UNCHANGED language)
FairBindSpec == BindSpec /\ BindFairness

-----------------------------------------------------------------------------
(* Properties *)

BindTypeOK ==
  /\ TypeOK
  /\ language \in Language
  /\ pc \in [Thread -> Labels]
  /\ op \in [Thread -> Ops]
  /\ using \in [Thread -> Handle \cup {NoHandle}]
  /\ bound \in [Thread -> Obj \cup {NULL}]
  /\ heap \in [Thread -> SUBSET {"buffer", "mdctx", "signature"}]
  /\ sig \in [Thread -> {"null", "zeroed", "written"}]
  /\ siglen \in [Thread -> {0, SigSize}]
  /\ got \in [Thread -> {"nothing", "error", "zeroes", "signature", "valid", "invalid"}]
  /\ wrapper \in [Handle -> {"absent", "local", "owned", "dropped"}]
  /\ making \in [Pair -> {"no", "generate", "share"}]

(* While a thread is inside pqc_sign or pqc_verify, its handle still holds   *)
(* the key the guard saw, the context is bound to that key, and the key is  *)
(* alive, whatever other threads do with the other half of the pair         *)
(* (HIG-003, pqc_crypto.c:292-296; higgaion.go:62-64).  That no thread frees *)
(* the half in use itself is assumed of a Go program (FreesInTurn).         *)
KeyAliveDuringCall ==
  \A t \in Thread :
    NeedsKey(t) =>
      /\ Live(using[t]) /\ refs[pkey[using[t]]] > 0
      /\ bound[t] \in {NULL, pkey[using[t]]}

(* Every reference to a key is held by a wrapper: no path of GenerateKeypair *)
(* and no destructor loses one (higgaion.go:65-69, lib.rs:195-199,          *)
(* core.py:161-163).                                                       *)
NoKeyLeaks == \A o \in Obj : Leaked(o) = 0

(* Whatever step of a call fails, nothing the call allocated outlives it,   *)
(* and no caller ever takes a buffer OpenSSL did not fill for a signature.  *)
NothingLeftBehind ==
  \A t \in Thread : (pc[t] = "idle" => heap[t] = {}) /\ got[t] # "zeroes"

(* A failed pqc_sign leaves both outputs cleared, as                        *)
(* tests/test_domain_separation.c:67-70 expects of it.                      *)
OutputsAgree ==
  \A t \in Thread : pc[t] = "return" => (sig[t] = "null" <=> siglen[t] = 0)

(* In Rust and Python a key nobody holds any more is destroyed: neither half *)
(* need wait for the other, and whichever goes first leaves the last one to  *)
(* destroy it (lib.rs:64-87, core.py:68-73, 115-120).                      *)
DroppedKeysAreFreed ==
  \A o \in Obj :
    (Finalised /\ refs[o] > 0 /\ \A h \in Holders(o) : wrapper[h] = "dropped") ~> refs[o] = 0
=============================================================================
