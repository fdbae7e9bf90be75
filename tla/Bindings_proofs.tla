--------------------------- MODULE Bindings_proofs --------------------------
(***************************************************************************)
(* Proofs about Bindings, for any number of key pairs, handles, threads and *)
(* addresses, in any of the languages.  A call reads a key through a handle *)
(* whose wrapper is owned, and nothing that changes the pointer of a handle  *)
(* touches an owned wrapper that is in use; the counters are the business   *)
(* of KeyHandles_proofs.                                                   *)
(***************************************************************************)
EXTENDS Bindings, KeyHandles_proofs

-----------------------------------------------------------------------------
(* The inductive invariant *)

(* Where GenerateKeypair stands fixes the two structs it works on.          *)
MakingOK ==
  \A p \in Pair :
    /\ making[p] = "generate" => \A h \in Halves(p) : wrapper[h] = "local" /\ pkey[h] = NULL
    /\ making[p] = "share" =>
         /\ \A h \in Halves(p) : wrapper[h] = "local" /\ pkey[h] # Raw
         /\ pkey[PubOf[p]] = NULL

(* A struct without a wrapper is indeterminate, one a program can reach is   *)
(* not; a Go wrapper it promised to free is let go only when it is free.    *)
WrapperOK ==
  \A h \in Handle :
    /\ wrapper[h] = "absent" => pkey[h] = Raw
    /\ wrapper[h] \in {"owned", "dropped"} => pkey[h] # Raw
    /\ wrapper[h] = "dropped" /\ ~Finalised /\ h \in Freed => ~Live(h)

(* A call holds its wrapper, and through it the key it was let in with.     *)
CallOK ==
  \A t \in Thread :
    /\ pc[t] # "idle" => using[t] \in Handle /\ wrapper[using[t]] = "owned"
    /\ NeedsKey(t) => Live(using[t]) /\ bound[t] \in {NULL, pkey[using[t]]}
    /\ pc[t] \in {"idle", "return", "build", "ctx", "init"} => bound[t] = NULL

(* What a call has allocated, step by step, and what it has put out.        *)
HeapOK ==
  \A t \in Thread :
    /\ pc[t] \in {"idle", "build"} => heap[t] = {}
    /\ pc[t] \in {"build", "ctx", "init", "size", "alloc", "check"} => sig[t] = "null"
    /\ pc[t] \in {"size", "alloc", "exec"} => op[t] = "sign"
    /\ pc[t] = "check" => op[t] = "verify"
    /\ pc[t] \in {"alloc", "exec"} => siglen[t] = SigSize
    /\ pc[t] = "exec" => "signature" \in heap[t]
    /\ pc[t] = "return" =>
         \/ sig[t] = "null" /\ heap[t] = {}
         \/ op[t] = "sign" /\ sig[t] = "written" /\ siglen[t] = SigSize /\ heap[t] \subseteq {"signature"}
    /\ got[t] # "zeroes"

CallTypes ==
  /\ language \in Language
  /\ pc \in [Thread -> Labels]
  /\ op \in [Thread -> Ops]
  /\ using \in [Thread -> Handle \cup {NoHandle}]
  /\ bound \in [Thread -> Obj \cup {NULL}]
  /\ heap \in [Thread -> SUBSET {"buffer", "mdctx", "signature"}]
  /\ sig \in [Thread -> {"null", "zeroed", "written"}]
  /\ siglen \in [Thread -> {0, SigSize}]
  /\ got \in [Thread -> {"nothing", "error", "zeroes", "signature", "valid", "invalid"}]
  /\ wrapper \in [Handle -> {"absent", "local", "owned", "dropped"}]
  /\ making \in [Pair -> {"no", "generate", "share"}]

Counted == (Finalised \/ Handle \subseteq Freed) => NoKeyLeaks

BInv == Inv /\ CallTypes /\ MakingOK /\ WrapperOK /\ CallOK /\ HeapOK /\ Counted

-----------------------------------------------------------------------------
(* Steps of a call *)

OutsideCalls == <<pkey, refs, wrapper, making, language>>

(* What only reads the handles leaves every invariant on them.              *)
LEMMA CallKeepsHandles ==
  ASSUME BInv, UNCHANGED OutsideCalls
  PROVE  Inv' /\ MakingOK' /\ WrapperOK' /\ Counted'
<1>1. Inv'
  BY DEF OutsideCalls, BInv, Inv, TypeOK, EveryOwnerCounted, Holders
<1>2. MakingOK' /\ WrapperOK'
  BY DEF OutsideCalls, BInv, MakingOK, WrapperOK, Live, Finalised
<1>3. Counted'
  BY DEF OutsideCalls, BInv, Counted, Finalised, NoKeyLeaks, Leaked, Holders
<1>4. QED
  BY <1>1, <1>2, <1>3

LEMMA EnterKeepsCalls ==
  ASSUME BInv, NEW t \in Thread, Use(t), UNCHANGED language
  PROVE  BInv'
<1>1. PICK o \in Ops, h \in Handle : wrapper[h] = "owned" /\ Enter(t, o, h)
  BY PairsAreDisjoint DEF Use, Ops
<1>2. UNCHANGED OutsideCalls
  BY <1>1 DEF Use, Enter, OutsideCalls
<1>3. pkey[h] \in Obj \cup {NULL} /\ pc[t] = "idle"
  BY <1>1 DEF Enter, BInv, Inv, TypeOK
<1>4. CallTypes'
  BY <1>1, <1>2 DEF BInv, CallTypes, OutsideCalls, Enter, GoTo, Set, Labels
<1>5. CallOK'
  BY <1>1, <1>2, <1>3 DEF BInv, CallTypes, CallOK, OutsideCalls, Enter, GoTo, Set, NeedsKey, Live
<1>6. HeapOK'
  BY <1>1, <1>2, <1>3 DEF BInv, CallTypes, HeapOK, OutsideCalls, Enter, GoTo, Set
<1>7. QED
  BY <1>2, <1>4, <1>5, <1>6, CallKeepsHandles DEF BInv

LEMMA StepKeepsTypes ==
  ASSUME BInv, NEW t \in Thread, CallStep(t), UNCHANGED OutsideCalls
  PROVE  CallTypes'
<1> USE DEF BInv, CallTypes, OutsideCalls, GoTo, Set, Labels, Ops, SigSize
<1>1. ASSUME Fails(t) PROVE CallTypes'
  BY <1>1 DEF Fails, Release
<1>2. CASE Build(t)
  BY <1>1, <1>2 DEF Build
<1>3. CASE NewContext(t)
  BY <1>1, <1>3 DEF NewContext
<1>4. CASE BindKey(t)
  <2>1. pkey[using[t]] \in Obj
    BY <1>4 DEF BindKey, CallOK, NeedsKey, Live
  <2>2. QED
    BY <1>1, <1>4, <2>1 DEF BindKey
<1>5. CASE SignSize(t)
  BY <1>1, <1>5 DEF SignSize
<1>6. CASE SignAlloc(t)
  BY <1>1, <1>6 DEF SignAlloc
<1>7. CASE SignExec(t)
  BY <1>7 DEF SignExec, SignExecOk, SignExecFails, Release
<1>8. CASE VerifyCheck(t)
  BY <1>8 DEF VerifyCheck, Release
<1>9. CASE TakeResult(t)
  BY <1>9 DEF TakeResult
<1>10. QED
  BY <1>2, <1>3, <1>4, <1>5, <1>6, <1>7, <1>8, <1>9 DEF CallStep

LEMMA StepKeepsCall ==
  ASSUME BInv, NEW t \in Thread, CallStep(t), UNCHANGED OutsideCalls
  PROVE  CallOK'
<1> USE DEF BInv, CallTypes, OutsideCalls, GoTo, Set, CallOK, NeedsKey, Live
<1>1. ASSUME Fails(t), pc[t] # "idle" PROVE CallOK'
  BY <1>1 DEF Fails, Release
<1>2. CASE Build(t)
  BY <1>1, <1>2 DEF Build
<1>3. CASE NewContext(t)
  BY <1>1, <1>3 DEF NewContext
<1>4. CASE BindKey(t)
  BY <1>1, <1>4 DEF BindKey
<1>5. CASE SignSize(t)
  BY <1>1, <1>5 DEF SignSize
<1>6. CASE SignAlloc(t)
  BY <1>1, <1>6 DEF SignAlloc
<1>7. CASE SignExec(t)
  BY <1>7 DEF SignExec, SignExecOk, SignExecFails, Release
<1>8. CASE VerifyCheck(t)
  BY <1>8 DEF VerifyCheck, Release
<1>9. CASE TakeResult(t)
  BY <1>9 DEF TakeResult
<1>10. QED
  BY <1>2, <1>3, <1>4, <1>5, <1>6, <1>7, <1>8, <1>9 DEF CallStep

LEMMA StepKeepsHeap ==
  ASSUME BInv, NEW t \in Thread, CallStep(t), UNCHANGED OutsideCalls
  PROVE  HeapOK'
<1> USE DEF BInv, CallTypes, OutsideCalls, GoTo, Set, HeapOK, SigSize
<1>1. ASSUME Fails(t), pc[t] \in {"build", "ctx", "init", "size", "alloc"} PROVE HeapOK'
  BY <1>1 DEF Fails, Release
<1>2. CASE Build(t)
  BY <1>1, <1>2 DEF Build
<1>3. CASE NewContext(t)
  BY <1>1, <1>3 DEF NewContext
<1>4. CASE BindKey(t)
  BY <1>1, <1>4 DEF BindKey, Ops
<1>5. CASE SignSize(t)
  BY <1>1, <1>5 DEF SignSize
<1>6. CASE SignAlloc(t)
  BY <1>1, <1>6 DEF SignAlloc
<1>7. CASE SignExec(t)
  BY <1>7 DEF SignExec, SignExecOk, SignExecFails, Release
<1>8. CASE VerifyCheck(t)
  BY <1>8 DEF VerifyCheck, Release
<1>9. CASE TakeResult(t)
  BY <1>9 DEF TakeResult
<1>10. QED
  BY <1>2, <1>3, <1>4, <1>5, <1>6, <1>7, <1>8, <1>9 DEF CallStep

LEMMA InsideKeepsBInv ==
  ASSUME BInv, NEW t \in Thread, CallInside(t), UNCHANGED language
  PROVE  BInv'
<1>1. UNCHANGED <<pkey, refs>>
  BY DEF CallInside, CallStep, Build, NewContext, BindKey, SignSize, SignAlloc, SignExec,
         SignExecOk, SignExecFails, VerifyCheck, TakeResult, Fails
<1>2. CallStep(t) /\ UNCHANGED OutsideCalls
  BY <1>1 DEF CallInside, OutsideCalls
<1>3. QED
  BY <1>2, CallKeepsHandles, StepKeepsTypes, StepKeepsCall, StepKeepsHeap DEF BInv

-----------------------------------------------------------------------------
(* Steps that move handles *)

OutsideHandles == <<pc, op, using, bound, heap, sig, siglen, got, language>>

(* What changes no wrapper in use and no pointer of one leaves calls alone. *)
LEMMA HandlesKeepCalls ==
  ASSUME BInv, UNCHANGED OutsideHandles,
         \A h \in Handle : wrapper[h] = "owned" /\ InUse(h) =>
                            wrapper'[h] = "owned" /\ pkey'[h] = pkey[h]
  PROVE  CallOK' /\ HeapOK'
<1>1. HeapOK'
  BY DEF OutsideHandles, BInv, HeapOK
<1>2. ASSUME NEW t \in Thread, pc[t] # "idle"
      PROVE  /\ using[t] \in Handle
             /\ wrapper'[using[t]] = "owned" /\ pkey'[using[t]] = pkey[using[t]]
  BY <1>2 DEF BInv, CallOK, InUse
<1>3. CallOK'
  BY <1>2 DEF OutsideHandles, BInv, CallOK, NeedsKey, Live
<1>4. QED
  BY <1>1, <1>3

(* A reference given back by the one handle that stops holding its key.     *)
LEMMA GivenBack ==
  ASSUME BInv, TypeOK', NEW h \in Handle, refs' = AfterRelease(h),
         \A o \in Obj : Holders(o)' = Holders(o) \ {h}
  PROVE  Inv' /\ \A o \in Obj : Leaked(o)' = Leaked(o)
<1>1. ASSUME NEW o \in Obj
      PROVE  /\ Cardinality(Holders(o)') = Cardinality(Holders(o)) - One(pkey[h], o)
             /\ refs'[o] = refs[o] - One(pkey[h], o)
             /\ Cardinality(Holders(o)) - One(pkey[h], o) <= refs'[o]
             /\ refs[o] \in Int /\ Cardinality(Holders(o)) \in Int /\ One(pkey[h], o) \in Int
  <2>1. h \in Holders(o) <=> pkey[h] = o
    BY DEF Holders
  <2>2. Cardinality(Holders(o) \ {h}) = Cardinality(Holders(o)) - One(pkey[h], o)
    <3>1. CASE pkey[h] = o
      BY <2>1, <3>1, HoldersFinite, FS_RemoveElement DEF One
    <3>2. CASE pkey[h] # o
      <4>1. Holders(o) \ {h} = Holders(o)
        BY <2>1, <3>2
      <4>2. QED
        BY <3>2, <4>1, HoldersFinite DEF One
    <3>3. QED
      BY <3>1, <3>2
  <2>3. Holders(o)' = Holders(o) \ {h} /\ refs'[o] = AfterRelease(h)[o]
    OBVIOUS
  <2>4. /\ AfterRelease(h)[o] = refs[o] - One(pkey[h], o)
        /\ Cardinality(Holders(o)) - One(pkey[h], o) <= AfterRelease(h)[o]
    BY ReleaseCounts DEF BInv
  <2>5. refs[o] \in Int /\ Cardinality(Holders(o)) \in Int /\ One(pkey[h], o) \in Int
    BY HoldersFinite DEF BInv, Inv, TypeOK, One
  <2>6. QED
    BY <2>2, <2>3, <2>4, <2>5
<1>2. EveryOwnerCounted'
  BY <1>1 DEF EveryOwnerCounted
<1>3. ASSUME NEW o \in Obj PROVE Leaked(o)' = Leaked(o)
  BY <1>1 DEF Leaked
<1>4. QED
  BY <1>2, <1>3 DEF Inv

(* Structs whose pointers were to no key lose nothing with them.            *)
LEMMA NothingHeld ==
  ASSUME BInv, TypeOK', UNCHANGED refs, \A o \in Obj : Holders(o)' = Holders(o)
  PROVE  Inv' /\ \A o \in Obj : Leaked(o)' = Leaked(o)
BY DEF BInv, Inv, EveryOwnerCounted, Leaked

LEMMA LeaksKept ==
  ASSUME BInv, UNCHANGED language, \A o \in Obj : Leaked(o)' = Leaked(o)
  PROVE  Counted'
BY DEF BInv, Counted, Finalised, NoKeyLeaks

(* The halves of a pair are two handles, and no other pair's.               *)
LEMMA HalvesApart ==
  ASSUME NEW p \in Pair
  PROVE  /\ Halves(p) \subseteq Handle /\ PrivOf[p] # PubOf[p]
         /\ PrivOf[p] \in Halves(p) /\ PubOf[p] \in Halves(p)
         /\ \A q \in Pair : q # p => Halves(q) \cap Halves(p) = {}
BY PairsAreDisjoint DEF Halves

LEMMA MakeInitKeepsBInv ==
  ASSUME BInv, NEW p \in Pair, MakeInit(p), UNCHANGED language
  PROVE  BInv'
<1> USE HalvesApart, PointerValues
<1>1. UNCHANGED OutsideHandles /\ UNCHANGED refs
  BY DEF MakeInit, OutsideHandles, calls
<1>2. TypeOK' /\ CallTypes'
  BY <1>1 DEF MakeInit, SetAll, BInv, Inv, TypeOK, CallTypes, OutsideHandles
<1>3. \A h \in Halves(p) : pkey[h] = Raw
  BY DEF MakeInit, BInv, WrapperOK
<1>4. \A o \in Obj : Holders(o)' = Holders(o)
  BY <1>3 DEF MakeInit, SetAll, BInv, Inv, TypeOK, Holders
<1>5. MakingOK'
  BY DEF MakeInit, SetAll, BInv, Inv, TypeOK, CallTypes, MakingOK
<1>6. WrapperOK'
  BY <1>1 DEF MakeInit, SetAll, BInv, Inv, TypeOK, CallTypes, WrapperOK, Live, Finalised,
     OutsideHandles
<1>7. CallOK' /\ HeapOK'
  BY <1>1, HandlesKeepCalls DEF MakeInit, SetAll, BInv, Inv, TypeOK, CallTypes
<1>8. QED
  BY <1>1, <1>2, <1>4, <1>5, <1>6, <1>7, NothingHeld, LeaksKept DEF BInv

(* One handle is pointed somewhere while its pair is being made.            *)
LEMMA MakePointsLocal ==
  ASSUME BInv, NEW p \in Pair, NEW h \in Halves(p), wrapper[h] = "local",
         NEW x, Point(h, x), TypeOK', UNCHANGED <<OutsideHandles>>,
         wrapper' = wrapper \/ wrapper' = SetAll(wrapper, Halves(p), "owned"),
         \A g \in Halves(p) : pkey'[g] # Raw /\ wrapper[g] = "local"
  PROVE  CallOK' /\ HeapOK' /\ WrapperOK'
<1> USE HalvesApart
<1>1. \A g \in Handle : g # h => pkey'[g] = pkey[g]
  BY DEF Point, BInv, Inv, TypeOK
<1>2. \A g \in Handle \ Halves(p) : wrapper'[g] = wrapper[g] /\ pkey'[g] = pkey[g]
  BY <1>1 DEF SetAll, BInv, CallTypes
<1>3. \A g \in Halves(p) : wrapper'[g] \in {"local", "owned"}
  BY DEF SetAll, BInv, CallTypes
<1>4. CallOK' /\ HeapOK'
  BY <1>2, HandlesKeepCalls DEF OutsideHandles
<1>5. WrapperOK'
  BY <1>2, <1>3 DEF BInv, WrapperOK, Live, Finalised, OutsideHandles
<1>6. QED
  BY <1>4, <1>5

LEMMA MakeKeyKeepsBInv ==
  ASSUME BInv, NEW p \in Pair, MakeKey(p), UNCHANGED language
  PROVE  BInv'
<1> USE HalvesApart, PointerValues
<1> DEFINE h == PrivOf[p]
<1>1. PICK alg \in Alg : Generate(h, alg)
  BY DEF MakeKey
<1>2. UNCHANGED OutsideHandles /\ UNCHANGED wrapper
  BY DEF MakeKey, OutsideHandles, calls
<1>3. /\ pkey[h] = NULL /\ pkey[PubOf[p]] = NULL
      /\ \A g \in Halves(p) : wrapper[g] = "local"
  BY DEF MakeKey, BInv, MakingOK
<1>4. Inv' /\ \A o \in Obj : Leaked(o)' = Leaked(o)
  <2>1. CASE GenerateRejected(h, alg)
    <3>1. Inv'
      BY <2>1, ForgetKeepsInv DEF GenerateRejected, BInv
    <3>2. \A o \in Obj : Holders(o)' = Holders(o)
      BY <1>3, <2>1 DEF GenerateRejected, Point, Holders, BInv, Inv, TypeOK
    <3>3. QED
      BY <2>1, <3>1, <3>2, NothingHeld DEF GenerateRejected, Inv
  <2>2. CASE GenerateFails(h, alg)
    BY <2>2, ReleaseKeepsInv, ReleaseLosesNothing DEF GenerateFails, BInv
  <2>3. CASE GenerateOk(h, alg)
    BY <2>3, GenerateOkKeepsInv, GenerateOkLosesNothing DEF BInv
  <2>4. QED
    BY <1>1, <2>1, <2>2, <2>3 DEF Generate
<1>5. PICK x \in Obj \cup {NULL} : Point(h, x)
  BY <1>1 DEF Generate, GenerateRejected, GenerateFails, GenerateOk
<1>6. \A g \in Handle : pkey'[g] = IF g = h THEN x ELSE pkey[g]
  BY <1>5 DEF Point, BInv, Inv, TypeOK
<1>7. CallTypes'
  BY <1>2 DEF MakeKey, BInv, CallTypes, OutsideHandles
<1>8. MakingOK'
  BY <1>2, <1>3, <1>6 DEF MakeKey, BInv, CallTypes, MakingOK
<1>9. CallOK' /\ HeapOK' /\ WrapperOK'
  <2>1. \A g \in Halves(p) : pkey'[g] # Raw /\ wrapper[g] = "local"
    BY <1>3, <1>6 DEF Halves
  <2>2. h \in Halves(p) /\ TypeOK'
    BY <1>4 DEF Inv
  <2>3. QED
    BY <1>2, <1>5, <2>1, <2>2, MakePointsLocal
<1>10. QED
  BY <1>2, <1>4, <1>7, <1>8, <1>9, LeaksKept DEF BInv, OutsideHandles

LEMMA MakeSharedKeepsBInv ==
  ASSUME BInv, NEW p \in Pair, MakeShared(p), UNCHANGED language
  PROVE  BInv'
<1> USE HalvesApart, PointerValues
<1> DEFINE h == PubOf[p]
<1>1. /\ KeyUpRef(h, PrivOf[p]) /\ Point(h, pkey[PrivOf[p]])
      /\ pkey[PrivOf[p]] \in Obj
  BY DEF MakeShared, KeyUpRef, Live
<1>2. UNCHANGED OutsideHandles
  BY DEF MakeShared, OutsideHandles, calls
<1>3. /\ pkey[h] = NULL
      /\ \A g \in Halves(p) : wrapper[g] = "local" /\ pkey[g] # Raw
  BY DEF MakeShared, BInv, MakingOK
<1>4. Inv'
  BY <1>1, KeyUpRefKeepsInv DEF BInv
<1>5. \A o \in Obj : Leaked(o)' = Leaked(o)
  <2> SUFFICES ASSUME NEW o \in Obj PROVE Leaked(o)' = Leaked(o)
    OBVIOUS
  <2>1. Leaked(o)' = Leaked(o) + One(pkey[h], o)
    BY <1>1, OverwriteLosesOne DEF BInv
  <2>2. One(pkey[h], o) = 0
    BY <1>3 DEF One
  <2>3. Leaked(o) \in Int
    BY HoldersFinite DEF BInv, Inv, TypeOK, Leaked
  <2>4. QED
    BY <2>1, <2>2, <2>3
<1>6. \A g \in Handle : pkey'[g] = IF g = h THEN pkey[PrivOf[p]] ELSE pkey[g]
  BY <1>1 DEF Point, BInv, Inv, TypeOK
<1>7. CallTypes'
  BY <1>2 DEF MakeShared, SetAll, BInv, CallTypes, OutsideHandles
<1>8. MakingOK'
  BY <1>2, <1>3, <1>6 DEF MakeShared, SetAll, BInv, CallTypes, MakingOK
<1>9. CallOK' /\ HeapOK' /\ WrapperOK'
  <2>1. \A g \in Halves(p) : pkey'[g] # Raw /\ wrapper[g] = "local"
    BY <1>1, <1>3, <1>6 DEF Halves
  <2>2. h \in Halves(p) /\ TypeOK' /\ wrapper' = SetAll(wrapper, Halves(p), "owned")
    BY <1>4 DEF Inv, MakeShared
  <2>3. QED
    BY <1>1, <1>2, <2>1, <2>2, MakePointsLocal
<1>10. QED
  BY <1>2, <1>4, <1>5, <1>7, <1>8, <1>9, LeaksKept DEF BInv, OutsideHandles

(* Both error paths of GenerateKeypair: what the private half holds goes     *)
(* back first.                                                             *)
LEMMA AbandonKeepsBInv ==
  ASSUME BInv, NEW p \in Pair, MakeNothing(p) \/ MakeUnshared(p), UNCHANGED language
  PROVE  BInv'
<1> USE HalvesApart, PointerValues
<1> DEFINE h == PrivOf[p]
<1>1. Abandon(p) /\ UNCHANGED OutsideHandles /\ refs' = AfterRelease(h)
  <2>1. CASE MakeNothing(p)
    <3>1. AfterRelease(h) = refs
      BY <2>1 DEF MakeNothing, AfterRelease, Live, BInv, Inv, TypeOK
    <3>2. QED
      BY <2>1, <3>1 DEF MakeNothing, OutsideHandles, calls
  <2>2. CASE MakeUnshared(p)
    BY <2>2 DEF MakeUnshared, OutsideHandles, calls
  <2>3. QED
    BY <2>1, <2>2
<1>2. pkey[PubOf[p]] = NULL /\ \A g \in Halves(p) : wrapper[g] = "local"
  BY DEF MakeNothing, MakeUnshared, BInv, MakingOK
<1>3. \A g \in Handle : /\ pkey'[g] = IF g \in Halves(p) THEN Raw ELSE pkey[g]
                        /\ wrapper'[g] = IF g \in Halves(p) THEN "absent" ELSE wrapper[g]
  BY <1>1 DEF Abandon, SetAll, BInv, Inv, TypeOK, CallTypes
<1>4. TypeOK' /\ CallTypes'
  <2>1. refs' \in [Obj -> Nat]
    BY <1>1, ReleaseCounts DEF AfterRelease, BInv
  <2>2. QED
    BY <1>1, <2>1 DEF Abandon, SetAll, BInv, Inv, TypeOK, CallTypes, OutsideHandles
<1>5. \A o \in Obj : Holders(o)' = Holders(o) \ {h}
  BY <1>2, <1>3 DEF Holders, Halves
<1>6. MakingOK'
  BY <1>1, <1>3 DEF Abandon, BInv, CallTypes, MakingOK
<1>7. WrapperOK'
  BY <1>1, <1>3 DEF BInv, WrapperOK, Live, Finalised, OutsideHandles
<1>8. CallOK' /\ HeapOK'
  BY <1>1, <1>2, <1>3, HandlesKeepCalls
<1>9. QED
  BY <1>1, <1>4, <1>5, <1>6, <1>7, <1>8, GivenBack, LeaksKept DEF BInv, OutsideHandles

LEMMA GoFreeKeepsBInv ==
  ASSUME BInv, NEW h \in Handle, FreesInTurn(h), GoFree(h), UNCHANGED language
  PROVE  BInv'
<1> USE PointerValues
<1>1. /\ KeyFree(h) /\ refs' = AfterRelease(h) /\ Point(h, NULL)
      /\ wrapper[h] = "owned" /\ ~InUse(h) /\ UNCHANGED <<wrapper, making>>
  BY DEF FreesInTurn, GoFree, KeyFree
<1>2. UNCHANGED OutsideHandles
  BY DEF GoFree, OutsideHandles, calls
<1>3. Inv' /\ \A o \in Obj : Leaked(o)' = Leaked(o)
  BY <1>1, ReleaseKeepsInv, ReleaseLosesNothing DEF BInv
<1>4. \A g \in Handle : pkey'[g] = IF g = h THEN NULL ELSE pkey[g]
  BY <1>1 DEF Point, BInv, Inv, TypeOK
<1>5. CallTypes'
  BY <1>1, <1>2 DEF BInv, CallTypes, OutsideHandles
<1>6. MakingOK'
  BY <1>1, <1>4, HalvesApart DEF BInv, MakingOK
<1>7. WrapperOK'
  BY <1>1, <1>2, <1>4 DEF BInv, WrapperOK, Live, Finalised, OutsideHandles
<1>8. CallOK' /\ HeapOK'
  BY <1>1, <1>2, <1>4, HandlesKeepCalls
<1>9. QED
  BY <1>2, <1>3, <1>5, <1>6, <1>7, <1>8, LeaksKept DEF BInv, OutsideHandles

LEMMA LetGoKeepsBInv ==
  ASSUME BInv, NEW h \in Handle, LetGo(h), UNCHANGED language
  PROVE  BInv'
<1>1. UNCHANGED OutsideHandles /\ UNCHANGED <<pkey, refs, making>>
  BY DEF LetGo, OutsideHandles, calls
<1>2. \A g \in Handle : wrapper'[g] = IF g = h THEN "dropped" ELSE wrapper[g]
  BY DEF LetGo, BInv, CallTypes
<1>3. Inv' /\ \A o \in Obj : Leaked(o)' = Leaked(o)
  BY <1>1 DEF BInv, Inv, TypeOK, EveryOwnerCounted, Holders, Leaked
<1>4. CallTypes'
  BY <1>1 DEF LetGo, BInv, CallTypes, OutsideHandles
<1>5. MakingOK'
  BY <1>1, <1>2, HalvesApart DEF LetGo, BInv, MakingOK
<1>6. WrapperOK'
  BY <1>1, <1>2 DEF LetGo, BInv, WrapperOK, Live, Finalised, OutsideHandles
<1>7. CallOK' /\ HeapOK'
  BY <1>1, <1>2, HandlesKeepCalls DEF LetGo
<1>8. QED
  BY <1>1, <1>3, <1>4, <1>5, <1>6, <1>7, LeaksKept DEF BInv, OutsideHandles

(* The end of a wrapper.  Only Go's collector lets a reference go with it,   *)
(* and then the program had not promised to free that wrapper.             *)
LEMMA CollectKeepsBInv ==
  ASSUME BInv, NEW h \in Handle, Collect(h), UNCHANGED language
  PROVE  BInv'
<1> USE PointerValues
<1>1. UNCHANGED OutsideHandles /\ UNCHANGED making
  BY DEF Collect, OutsideHandles, calls
<1>2. \A g \in Handle : /\ pkey'[g] = IF g = h THEN Raw ELSE pkey[g]
                        /\ wrapper'[g] = IF g = h THEN "absent" ELSE wrapper[g]
  BY DEF Collect, Point, BInv, Inv, TypeOK, CallTypes
<1>3. \A o \in Obj : Holders(o)' = Holders(o) \ {h}
  BY <1>2 DEF Holders
<1>4. TypeOK'
  <2>1. refs' \in [Obj -> Nat]
    BY ReleaseCounts DEF Collect, AfterRelease, BInv, Inv, TypeOK
  <2>2. QED
    BY <2>1 DEF Collect, Point, BInv, Inv, TypeOK
<1>5. Inv' /\ Counted'
  <2>1. CASE refs' = AfterRelease(h)
    BY <1>1, <1>3, <1>4, <2>1, GivenBack, LeaksKept DEF BInv, OutsideHandles
  <2>2. CASE ~Finalised /\ UNCHANGED refs
    <3>1. CASE Live(h)
      <4>1. h \notin Freed
        BY <2>2, <3>1 DEF Collect, BInv, WrapperOK
      <4>2. Counted'
        BY <1>1, <2>2, <4>1 DEF Counted, Finalised, OutsideHandles
      <4>3. ASSUME NEW o \in Obj PROVE Cardinality(Holders(o)') <= refs'[o]
        <5>1. Cardinality(Holders(o)') <= Cardinality(Holders(o))
          BY <1>3, HoldersFinite, FS_Subset
        <5>2. /\ Cardinality(Holders(o)) <= refs[o] /\ refs[o] \in Int /\ refs'[o] = refs[o]
              /\ Cardinality(Holders(o)) \in Int
          BY <2>2, HoldersFinite DEF BInv, Inv, EveryOwnerCounted, TypeOK
        <5>3. Cardinality(Holders(o)') \in Int
          BY <1>3, HoldersFinite, FS_Subset, FS_CardinalityType
        <5>4. QED
          BY <5>1, <5>2, <5>3
      <4>4. QED
        BY <1>4, <4>2, <4>3 DEF Inv, EveryOwnerCounted
    <3>2. CASE ~Live(h)
      <4>1. \A o \in Obj : Holders(o)' = Holders(o)
        BY <1>3, <3>2 DEF Holders, Live
      <4>2. QED
        BY <1>1, <1>4, <2>2, <4>1, NothingHeld, LeaksKept DEF OutsideHandles
    <3>3. QED
      BY <3>1, <3>2
  <2>3. QED
    BY <2>1, <2>2 DEF Collect
<1>6. CallTypes'
  BY <1>1 DEF Collect, BInv, CallTypes, OutsideHandles
<1>7. MakingOK'
  BY <1>1, <1>2, HalvesApart DEF Collect, BInv, MakingOK
<1>8. WrapperOK'
  BY <1>1, <1>2 DEF BInv, WrapperOK, Live, Finalised, OutsideHandles
<1>9. CallOK' /\ HeapOK'
  BY <1>1, <1>2, HandlesKeepCalls DEF Collect
<1>10. QED
  BY <1>5, <1>6, <1>7, <1>8, <1>9 DEF BInv

-----------------------------------------------------------------------------
(* The theorems *)

LEMMA BindInitBInv == BindInit => BInv
<1> SUFFICES ASSUME BindInit PROVE BInv
  OBVIOUS
<1>1. Inv
  BY InitInv DEF BindInit
<1>2. CallTypes /\ MakingOK
  BY DEF BindInit, CallTypes, MakingOK, Labels, Ops
<1>3. WrapperOK /\ CallOK /\ HeapOK
  BY DEF BindInit, Init, WrapperOK, CallOK, HeapOK, NeedsKey
<1>4. \A o \in Obj : Holders(o) = {} /\ refs[o] = 0
  BY PointerValues DEF BindInit, Init, Holders
<1>5. NoKeyLeaks
  BY <1>4, FS_EmptySet DEF NoKeyLeaks, Leaked
<1>6. QED
  BY <1>1, <1>2, <1>3, <1>5 DEF BInv, Counted

LEMMA BindNextBInv == BInv /\ [BindNext]_bindVars => BInv'
<1> SUFFICES ASSUME BInv, [BindNext]_bindVars PROVE BInv'
  OBVIOUS
<1>1. CASE UNCHANGED bindVars
  <2>1. UNCHANGED OutsideCalls /\ UNCHANGED OutsideHandles
    BY <1>1 DEF bindVars, OutsideCalls, OutsideHandles
  <2>2. CallTypes' /\ CallOK' /\ HeapOK'
    BY <2>1, HandlesKeepCalls DEF OutsideCalls, OutsideHandles, BInv, CallTypes
  <2>3. QED
    BY <2>1, <2>2, CallKeepsHandles DEF BInv
<1>2. CASE BindNext
  <2>1. ASSUME NEW p \in Pair, Make(p), UNCHANGED language PROVE BInv'
    BY <2>1, MakeInitKeepsBInv, MakeKeyKeepsBInv, MakeSharedKeepsBInv, AbandonKeepsBInv DEF Make
  <2>2. ASSUME NEW t \in Thread, Use(t) \/ CallInside(t), UNCHANGED language PROVE BInv'
    BY <2>2, EnterKeepsCalls, InsideKeepsBInv
  <2>3. ASSUME NEW h \in Handle, (FreesInTurn(h) /\ GoFree(h)) \/ LetGo(h) \/ Collect(h),
               UNCHANGED language
        PROVE  BInv'
    BY <2>3, GoFreeKeepsBInv, LetGoKeepsBInv, CollectKeepsBInv
  <2>4. QED
    BY <1>2, <2>1, <2>2, <2>3 DEF BindNext
<1>3. QED
  BY <1>1, <1>2

LEMMA BindSpecBInv == BindSpec => []BInv
BY BindInitBInv, BindNextBInv, PTL DEF BindSpec

(* The types of the calls, the wrappers and the pairs in the making.        *)
THEOREM BindTypes == BindSpec => []BindTypeOK
<1>1. BInv => BindTypeOK
  BY DEF BInv, Inv, CallTypes, BindTypeOK
<1>2. QED
  BY <1>1, BindSpecBInv, PTL

(* No thread is ever inside pqc_sign or pqc_verify with a freed key, however *)
(* many threads share a wrapper and whatever becomes of the other half.     *)
THEOREM CallsKeepKeyAlive == BindSpec => []KeyAliveDuringCall
<1>1. BInv => KeyAliveDuringCall
  <2> SUFFICES ASSUME BInv, NEW t \in Thread, NeedsKey(t)
               PROVE  /\ Live(using[t]) /\ refs[pkey[using[t]]] > 0
                      /\ bound[t] \in {NULL, pkey[using[t]]}
    BY DEF KeyAliveDuringCall
  <2>1. Live(using[t]) /\ bound[t] \in {NULL, pkey[using[t]]} /\ using[t] \in Handle
    BY DEF BInv, CallOK, NeedsKey
  <2>2. refs[pkey[using[t]]] \in Nat /\ refs[pkey[using[t]]] >= 1
    BY <2>1, OwnerHasReference DEF BInv, Inv, TypeOK, Live
  <2>3. QED
    BY <2>1, <2>2
<1>2. QED
  BY <1>1, BindSpecBInv, PTL

(* A Rust or Python program loses no reference whatever it does, and a Go    *)
(* program none when it calls Free on every wrapper.                       *)
THEOREM KeysNeverLeak == BindSpec => []((Finalised \/ Handle \subseteq Freed) => NoKeyLeaks)
<1>1. BInv => ((Finalised \/ Handle \subseteq Freed) => NoKeyLeaks)
  BY DEF BInv, Counted
<1>2. QED
  BY <1>1, BindSpecBInv, PTL

(* Whichever step of a call fails, nothing it allocated outlives it and no   *)
(* buffer that OpenSSL did not fill is taken for a signature.               *)
THEOREM CallsLeaveNothing == BindSpec => []NothingLeftBehind
<1>1. BInv => NothingLeftBehind
  BY DEF BInv, HeapOK, NothingLeftBehind
<1>2. QED
  BY <1>1, BindSpecBInv, PTL

-----------------------------------------------------------------------------
(* The bindings keep the promise of KeyOwners too *)

(* Only the last reference of a key destroys it, and none is made by a      *)
(* release.                                                                *)
LEMMA ReleaseRefines ==
  ASSUME Inv, NoDanglingHandle', NEW h \in Handle, HoldsOf' = [HoldsOf EXCEPT ![h] = NULL],
         refs' = refs \/ refs' = AfterRelease(h)
  PROVE  Owners!Next
<1>1. \A o \in Obj : o # pkey[h] => refs'[o] = refs[o]
  BY DEF AfterRelease
<1>2. \A o \in Obj : refs'[o] > 0 => refs[o] > 0
  BY DEF AfterRelease, Inv, TypeOK
<1>3. Owners!Assign(h, NULL)
  BY <1>1, <1>2, HoldingsRefine
<1>4. QED
  BY <1>3 DEF Owners!Next, Owners!LetGo

(* GenerateKeypair: initialising two structs, or leaving them, gives nobody *)
(* a key; a failed up_ref lets go of the one key there is.                 *)
LEMMA MakeRefines ==
  ASSUME BInv, NoDanglingHandle', NEW p \in Pair, Make(p)
  PROVE  [Owners!Next]_(Owners!ownVars)
<1> USE HalvesApart, PointerValues
<1>1. CASE MakeInit(p)
  <2>1. HoldsOf' = HoldsOf /\ refs' = refs
    BY <1>1 DEF MakeInit, BInv, WrapperOK, Inv, TypeOK, SetAll, HoldsOf, Live
  <2>2. QED
    BY <2>1 DEF HoldsOf, Owners!ownVars
<1>2. CASE MakeKey(p)
  <2>1. PICK alg \in Alg : Generate(PrivOf[p], alg)
    BY <1>2 DEF MakeKey
  <2>2. QED
    BY <2>1, LetGoRefines, CreateRefines
    DEF Generate, GenerateRejected, GenerateFails, BInv
<1>3. ASSUME making[p] = "share", Abandon(p)
      PROVE  HoldsOf' = [HoldsOf EXCEPT ![PrivOf[p]] = NULL]
  <2>1. ~Live(PubOf[p])
    BY <1>3 DEF BInv, MakingOK, Live
  <2>2. \A h \in Handle : pkey'[h] = IF h \in Halves(p) THEN Raw ELSE pkey[h]
    BY <1>3 DEF Abandon, SetAll, BInv, Inv, TypeOK
  <2>3. \A h \in Handle : HoldsOf'[h] = IF h = PrivOf[p] THEN NULL ELSE HoldsOf[h]
    BY <2>1, <2>2 DEF HoldsOf, Live, Halves
  <2>4. QED
    BY <2>3 DEF HoldsOf
<1>4. CASE MakeNothing(p)
  BY <1>3, <1>4, ReleaseRefines DEF MakeNothing, BInv
<1>5. CASE MakeShared(p)
  BY <1>5, ShareRefines DEF MakeShared, BInv
<1>6. CASE MakeUnshared(p)
  BY <1>3, <1>6, ReleaseRefines DEF MakeUnshared, BInv
<1>7. QED
  BY <1>1, <1>2, <1>4, <1>5, <1>6 DEF Make

(* Every step of a program in any of the languages is a step of independent *)
(* owners, or invisible to them.                                           *)
LEMMA BindStepRefines ==
  BInv /\ NoDanglingHandle' /\ [BindNext]_bindVars => [Owners!Next]_(Owners!ownVars)
<1> SUFFICES ASSUME BInv, NoDanglingHandle', [BindNext]_bindVars
             PROVE  [Owners!Next]_(Owners!ownVars)
  OBVIOUS
<1>1. ASSUME UNCHANGED <<pkey, refs>> PROVE [Owners!Next]_(Owners!ownVars)
  BY <1>1 DEF Owners!ownVars, Live
<1>2. ASSUME NEW t \in Thread, Use(t) \/ CallInside(t) PROVE UNCHANGED <<pkey, refs>>
  BY <1>2 DEF Use, Enter, CallInside, CallStep, Fails, Build, NewContext, BindKey, SignSize, SignAlloc,
     SignExec, SignExecOk, SignExecFails, VerifyCheck, TakeResult
<1>3. ASSUME NEW h \in Handle, GoFree(h) \/ LetGo(h) \/ Collect(h)
      PROVE  [Owners!Next]_(Owners!ownVars)
  BY <1>1, <1>3, LetGoRefines DEF GoFree, KeyFree, LetGo, Collect, BInv
<1>4. CASE UNCHANGED bindVars
  BY <1>1, <1>4 DEF bindVars
<1>5. QED
  BY <1>1, <1>2, <1>3, <1>4, MakeRefines DEF BindNext

(* The wrappers of the three languages never show a program more than       *)
(* independent owners: no constructor, failed or not, no call and no        *)
(* destructor takes a key from another wrapper (pqc_crypto.h:35-44).        *)
THEOREM BindingsImplementOwnership == BindSpec => ImplementsOwners
<1>1. BInv => NoDanglingHandle
  <2> SUFFICES ASSUME BInv, NEW h \in Handle, Live(h) PROVE refs[pkey[h]] > 0
    BY DEF NoDanglingHandle
  <2>1. refs[pkey[h]] \in Nat /\ refs[pkey[h]] >= 1
    BY OwnerHasReference DEF BInv, Inv, TypeOK, Live
  <2>2. QED
    BY <2>1
<1>2. BindInit => Owners!Init
  BY InitRefines DEF BindInit
<1>3. QED
  BY <1>1, <1>2, BindSpecBInv, BindStepRefines, PTL DEF BindSpec, ImplementsOwners, Owners!Spec
=============================================================================
