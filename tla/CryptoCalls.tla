----------------------------- MODULE CryptoCalls -----------------------------
(***************************************************************************)
(* pqc_sign and pqc_verify (src/src/pqc_crypto.c:307-420) as several        *)
(* threads run them at once: every call into OpenSSL or the allocator is a  *)
(* step that may fail, other threads act between two steps, and the handles *)
(* of different threads may share one key.                                 *)
(*                                                                         *)
(* The key object is read through the handle: once by the guard, again when *)
(* EVP_DigestSignInit or EVP_DigestVerifyInit binds it to the context.      *)
(***************************************************************************)
EXTENDS KeyHandles

CONSTANTS Thread, NoHandle

ASSUME NoHandleIsNone == NoHandle \notin Handle

VARIABLES
  pc,      \* pc[t]: the step thread t takes next
  op,      \* op[t]: "sign" or "verify"
  using,   \* using[t]: the handle passed to the call
  bound,   \* bound[t]: the key object t's context was initialised with
  heap,    \* heap[t]: allocations of t's call that are not yet freed
  sig,     \* sig[t]: the caller's *signature, "null", "zeroed" or "written"
  siglen,  \* siglen[t]: the caller's *sig_len, 0 or the size OpenSSL reported
  got      \* got[t]: what the caller made of the last call

callVars == <<pkey, refs, pc, op, using, bound, heap, sig, siglen, got>>
calls == <<pc, op, using, bound, heap, sig, siglen, got>>

SigSize == 1     \* any non-zero size: only zero is told apart
Ops == {"sign", "verify"}
Labels == {"idle", "build", "ctx", "init", "size", "alloc", "exec", "check", "return"}

-----------------------------------------------------------------------------
(* State functions *)

InUse(h) == \E t \in Thread : pc[t] # "idle" /\ using[t] = h

(* A thread that will still read the key through its handle or context.     *)
NeedsKey(t) == pc[t] \in {"build", "ctx", "init", "size", "alloc", "exec", "check"}

Set(f, t, v) == [f EXCEPT ![t] = v]
GoTo(t, label) == pc' = Set(pc, t, label)

(* Every exit of the two functions: the context is freed, the buffer        *)
(* cleansed and freed, whichever of them exist.                            *)
Release(t, kept) ==
  /\ heap' = Set(heap, t, heap[t] \cap kept)
  /\ bound' = Set(bound, t, NULL)
  /\ GoTo(t, "return")

-----------------------------------------------------------------------------
(* Steps of a call *)

(* The outputs are cleared before anything is looked at; a handle without a *)
(* key ends the call at once.                                              *)
Enter(t, o, h) ==
  /\ pc[t] = "idle"
  /\ pkey[h] # Raw
  /\ op' = Set(op, t, o)
  /\ using' = Set(using, t, h)
  /\ sig' = Set(sig, t, "null")
  /\ siglen' = Set(siglen, t, 0)
  /\ got' = Set(got, t, "nothing")
  /\ GoTo(t, IF Live(h) THEN "build" ELSE "return")
  /\ UNCHANGED <<pkey, refs, bound, heap>>

Fails(t) == Release(t, {}) /\ UNCHANGED <<pkey, refs, op, using, sig, siglen, got>>

(* build_domain_separated_message: fails on an overlong domain or message,  *)
(* a NULL message with a length, or no memory.                             *)
Build(t) ==
  /\ pc[t] = "build"
  /\ \/ /\ heap' = Set(heap, t, {"buffer"})
        /\ GoTo(t, "ctx")
        /\ UNCHANGED <<pkey, refs, op, using, bound, sig, siglen, got>>
     \/ Fails(t)

NewContext(t) ==
  /\ pc[t] = "ctx"
  /\ \/ /\ heap' = Set(heap, t, heap[t] \cup {"mdctx"})
        /\ GoTo(t, "init")
        /\ UNCHANGED <<pkey, refs, op, using, bound, sig, siglen, got>>
     \/ Fails(t)

(* The second read of the handle's pointer. *)
BindKey(t) ==
  /\ pc[t] = "init"
  /\ \/ /\ bound' = Set(bound, t, pkey[using[t]])
        /\ GoTo(t, IF op[t] = "sign" THEN "size" ELSE "check")
        /\ UNCHANGED <<pkey, refs, op, using, heap, sig, siglen, got>>
     \/ Fails(t)

SignSize(t) ==
  /\ pc[t] = "size"
  /\ \/ /\ siglen' = Set(siglen, t, SigSize)
        /\ GoTo(t, "alloc")
        /\ UNCHANGED <<pkey, refs, op, using, bound, heap, sig, got>>
     \/ Fails(t)

(* malloc of the size, then memset; without memory the length stays as it is. *)
SignAlloc(t) ==
  /\ pc[t] = "alloc"
  /\ \/ /\ heap' = Set(heap, t, heap[t] \cup {"signature"})
        /\ sig' = Set(sig, t, "zeroed")
        /\ GoTo(t, "exec")
        /\ UNCHANGED <<pkey, refs, op, using, bound, siglen, got>>
     \/ Fails(t)

SignExecOk(t) ==
  /\ sig' = Set(sig, t, "written")
  /\ Release(t, {"signature"})
  /\ UNCHANGED <<pkey, refs, op, using, siglen, got>>

(* Mutated: the pointer is cleared and the allocation forgotten. *)
SignExecForgets(t) ==
  /\ sig' = Set(sig, t, "null")
  /\ siglen' = Set(siglen, t, 0)
  /\ Release(t, {"signature"})
  /\ UNCHANGED <<pkey, refs, op, using, got>>

SignExecFails(t) ==
  /\ sig' = Set(sig, t, "null")
  /\ siglen' = Set(siglen, t, 0)
  /\ Release(t, {})
  /\ UNCHANGED <<pkey, refs, op, using, got>>

SignExec(t) == pc[t] = "exec" /\ (SignExecOk(t) \/ SignExecFails(t))

(* EVP_DigestVerify gives its verdict. *)
VerifyCheck(t) ==
  /\ pc[t] = "check"
  /\ Release(t, {})
  /\ \E verdict \in {"valid", "invalid"} : got' = Set(got, t, verdict)
  /\ UNCHANGED <<pkey, refs, op, using, sig, siglen>>

(* The caller takes the result as the bindings do (higgaion.go:114-124,     *)
(* lib.rs:118-131, core.py:98-107): error when there is no signature or no  *)
(* length, else copy the bytes and free the C allocation.                  *)
TakeResult(t) ==
  /\ pc[t] = "return"
  /\ \/ /\ op[t] = "sign"
        /\ IF sig[t] = "null" \/ siglen[t] = 0
             THEN got' = Set(got, t, "error") /\ UNCHANGED heap
             ELSE /\ got' = Set(got, t, IF sig[t] = "written" THEN "signature" ELSE "zeroes")
                  /\ heap' = Set(heap, t, heap[t] \ {"signature"})
     \/ op[t] = "verify" /\ UNCHANGED <<heap, got>>
  /\ GoTo(t, "idle")
  /\ using' = Set(using, t, NoHandle)
  /\ UNCHANGED <<pkey, refs, op, bound, sig, siglen>>

CallStep(t) ==
  \/ Build(t) \/ NewContext(t) \/ BindKey(t)
  \/ SignSize(t) \/ SignAlloc(t) \/ SignExec(t)
  \/ VerifyCheck(t) \/ TakeResult(t)
=============================================================================
