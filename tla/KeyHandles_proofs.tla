-------------------------- MODULE KeyHandles_proofs --------------------------
(***************************************************************************)
(* Proofs about KeyHandles, for every finite set of handles and every set   *)
(* of addresses.  All of them go through one counting lemma: storing a      *)
(* pointer in one handle changes the number of holders of an object by      *)
(* exactly what the handle gives up and takes.                             *)
(***************************************************************************)
EXTENDS KeyHandles, FiniteSetTheorems, TLAPS

(* One handle's contribution to the holders of o when it stores p. *)
One(p, o) == IF p = o THEN 1 ELSE 0

(* Holders(o) is a finite set, whatever the state.                          *)
LEMMA HoldersFinite ==
  ASSUME NEW o
  PROVE  /\ IsFiniteSet(Holders(o))
         /\ Cardinality(Holders(o)) \in Nat
<1>1. Holders(o) \subseteq Handle
  BY DEF Holders
<1>2. QED
  BY <1>1, HandleFinite, FS_Subset, FS_CardinalityType

(* The counting lemma for an assignment to one handle's pkey field.         *)
LEMMA PointCounts ==
  ASSUME TypeOK, NEW h \in Handle, NEW p, Point(h, p), NEW o
  PROVE  Cardinality(Holders(o)') =
           Cardinality(Holders(o)) - One(pkey[h], o) + One(p, o)
<1>1. Holders(o)' = IF p = o THEN Holders(o) \cup {h} ELSE Holders(o) \ {h}
  BY DEF Holders, Point, TypeOK
<1>2. h \in Holders(o) <=> pkey[h] = o
  BY DEF Holders
<1>3. Cardinality(Holders(o)) \in Nat /\ IsFiniteSet(Holders(o))
  BY HoldersFinite
<1>4. CASE p = o
  <2>1. CASE pkey[h] = o
    <3>1. Holders(o)' = Holders(o)
      BY <1>1, <1>2, <1>4, <2>1
    <3>2. QED
      BY <3>1, <1>3, <1>4, <2>1 DEF One
  <2>2. CASE pkey[h] # o
    <3>1. Cardinality(Holders(o) \cup {h}) = Cardinality(Holders(o)) + 1
      BY <1>2, <1>3, <2>2, FS_AddElement
    <3>2. QED
      BY <3>1, <1>1, <1>3, <1>4, <2>2 DEF One
  <2>3. QED
    BY <2>1, <2>2
<1>5. CASE p # o
  <2>1. CASE pkey[h] = o
    <3>1. Cardinality(Holders(o) \ {h}) = Cardinality(Holders(o)) - 1
      BY <1>2, <1>3, <2>1, FS_RemoveElement
    <3>2. QED
      BY <3>1, <1>1, <1>3, <1>5, <2>1 DEF One
  <2>2. CASE pkey[h] # o
    <3>1. Holders(o)' = Holders(o)
      BY <1>1, <1>2, <1>5, <2>2
    <3>2. QED
      BY <3>1, <1>3, <1>5, <2>2 DEF One
  <2>3. QED
    BY <2>1, <2>2
<1>6. QED
  BY <1>4, <1>5

(* every-owner-counted is what makes the counters natural numbers: the two  *)
(* conjuncts are inductive only together.                                  *)
Inv == TypeOK /\ EveryOwnerCounted

LEMMA OwnerHasReference ==
  ASSUME Inv, NEW h \in Handle, Live(h)
  PROVE  refs[pkey[h]] >= 1
<1> DEFINE o == pkey[h]
<1>1. o \in Obj /\ refs[o] \in Nat
  BY DEF Inv, TypeOK, Live
<1>2. h \in Holders(o)
  BY DEF Holders
<1>3. Cardinality(Holders(o)) # 0
  BY <1>2, HoldersFinite, FS_EmptySet
<1>4. QED
  BY <1>1, <1>3, HoldersFinite DEF Inv, EveryOwnerCounted

LEMMA InitInv == Init => Inv
<1> SUFFICES ASSUME Init PROVE Inv
  OBVIOUS
<1>1. TypeOK
  BY DEF Init, TypeOK
<1>2. ASSUME NEW o \in Obj PROVE Holders(o) = {}
  BY PointerValues DEF Init, Holders
<1>3. QED
  BY <1>1, <1>2, FS_EmptySet DEF Init, Inv, EveryOwnerCounted

(* The release of one reference by its holder, the step shared by           *)
(* higgaion_key_free, erase_durable and generate_keypair.                   *)
LEMMA ReleaseCounts ==
  ASSUME Inv, NEW h \in Handle, NEW o \in Obj
  PROVE  /\ AfterRelease(h)[o] = refs[o] - One(pkey[h], o)
         /\ AfterRelease(h)[o] \in Nat
         /\ Cardinality(Holders(o)) - One(pkey[h], o) <= AfterRelease(h)[o]
<1>1. refs[o] \in Nat /\ Cardinality(Holders(o)) \in Nat
  BY HoldersFinite DEF Inv, TypeOK
<1>2. AfterRelease(h)[o] = refs[o] - One(pkey[h], o)
  BY <1>1 DEF AfterRelease, One
<1>3. pkey[h] = o => refs[o] >= 1
  BY OwnerHasReference DEF Live
<1>4. Cardinality(Holders(o)) <= refs[o]
  BY DEF Inv, EveryOwnerCounted
<1>5. QED
  BY <1>1, <1>2, <1>3, <1>4 DEF One

LEMMA ReleaseKeepsInv ==
  ASSUME Inv, NEW h \in Handle, refs' = AfterRelease(h), Point(h, NULL)
  PROVE  Inv'
<1>1. TypeOK'
  <2>1. pkey' \in [Handle -> Obj \cup {NULL, Raw}]
    BY DEF Inv, TypeOK, Point
  <2>2. refs' \in [Obj -> Nat]
    BY ReleaseCounts DEF AfterRelease
  <2>3. QED
    BY <2>1, <2>2 DEF TypeOK
<1>2. ASSUME NEW o \in Obj
      PROVE  Cardinality(Holders(o)') <= refs'[o]
  <2>1. Cardinality(Holders(o)') = Cardinality(Holders(o)) - One(pkey[h], o) + One(NULL, o)
    BY PointCounts DEF Inv
  <2>2. One(NULL, o) = 0
    BY PointerValues DEF One
  <2>3. QED
    BY <2>1, <2>2, ReleaseCounts, HoldersFinite DEF One
<1>3. QED
  BY <1>1, <1>2 DEF Inv, EveryOwnerCounted

(* An overwrite that takes no reference and releases none.                  *)
LEMMA ForgetKeepsInv ==
  ASSUME Inv, NEW h \in Handle, NEW p \in {NULL, Raw}, Point(h, p), UNCHANGED refs
  PROVE  Inv'
<1>1. TypeOK'
  BY DEF Inv, TypeOK, Point
<1>2. ASSUME NEW o \in Obj
      PROVE  Cardinality(Holders(o)') <= refs'[o]
  <2>1. Cardinality(Holders(o)') = Cardinality(Holders(o)) - One(pkey[h], o) + One(p, o)
    BY PointCounts DEF Inv
  <2>2. One(p, o) = 0
    BY PointerValues DEF One
  <2>3. QED
    BY <2>1, <2>2, HoldersFinite DEF Inv, TypeOK, EveryOwnerCounted, One
<1>3. QED
  BY <1>1, <1>2 DEF Inv, EveryOwnerCounted

LEMMA GenerateOkKeepsInv ==
  ASSUME Inv, NEW h \in Handle, NEW alg \in Alg, GenerateOk(h, alg)
  PROVE  Inv'
<1>1. PICK new \in Obj : /\ AfterRelease(h)[new] = 0
                         /\ refs' = [AfterRelease(h) EXCEPT ![new] = 1]
                         /\ Point(h, new)
  BY DEF GenerateOk
<1>2. refs' = [o \in Obj |-> IF o = new THEN 1 ELSE AfterRelease(h)[o]]
  BY <1>1 DEF AfterRelease
<1>3. TypeOK'
  <2>1. pkey' \in [Handle -> Obj \cup {NULL, Raw}]
    BY <1>1 DEF Inv, TypeOK, Point
  <2>2. refs' \in [Obj -> Nat]
    BY <1>2, ReleaseCounts
  <2>3. QED
    BY <2>1, <2>2 DEF TypeOK
<1>4. ASSUME NEW o \in Obj
      PROVE  Cardinality(Holders(o)') <= refs'[o]
  <2>1. Cardinality(Holders(o)') = Cardinality(Holders(o)) - One(pkey[h], o) + One(new, o)
    BY <1>1, PointCounts DEF Inv
  <2>2. Cardinality(Holders(o)) - One(pkey[h], o) <= AfterRelease(h)[o]
    BY ReleaseCounts
  <2>3. CASE o = new
    BY <1>1, <1>2, <2>1, <2>2, <2>3, HoldersFinite DEF One
  <2>4. CASE o # new
    BY <1>2, <2>1, <2>2, <2>4, HoldersFinite, ReleaseCounts DEF One
  <2>5. QED
    BY <2>3, <2>4
<1>5. QED
  BY <1>3, <1>4 DEF Inv, EveryOwnerCounted

LEMMA KeyUpRefKeepsInv ==
  ASSUME Inv, NEW dst \in Handle, NEW src \in Handle, KeyUpRef(dst, src)
  PROVE  Inv'
<1> DEFINE s == pkey[src]
<1>1. /\ s \in Obj
      /\ refs' = [refs EXCEPT ![s] = @ + 1]
      /\ Point(dst, s)
  BY DEF KeyUpRef, Live
<1>2. TypeOK'
  BY <1>1 DEF Inv, TypeOK, Point
<1>3. ASSUME NEW o \in Obj
      PROVE  Cardinality(Holders(o)') <= refs'[o]
  <2>1. Cardinality(Holders(o)') = Cardinality(Holders(o)) - One(pkey[dst], o) + One(s, o)
    BY <1>1, PointCounts DEF Inv
  <2>2. refs'[o] = refs[o] + One(s, o)
    BY <1>1 DEF Inv, TypeOK, One
  <2>3. QED
    BY <2>1, <2>2, HoldersFinite DEF Inv, TypeOK, EveryOwnerCounted, One
<1>4. QED
  BY <1>2, <1>3 DEF Inv, EveryOwnerCounted

LEMMA NextKeepsInv == Inv /\ [Next]_vars => Inv'
<1> SUFFICES ASSUME Inv, [Next]_vars
             PROVE  Inv'
  OBVIOUS
<1>1. ASSUME NEW h \in Handle, KeyInit(h)
      PROVE  Inv'
  BY <1>1, ForgetKeepsInv DEF KeyInit
<1>2. ASSUME NEW h \in Handle, Retire(h)
      PROVE  Inv'
  BY <1>2, ForgetKeepsInv DEF Retire
<1>3. ASSUME NEW h \in Handle, KeyFree(h) \/ EraseDestroys(h)
      PROVE  Inv'
  BY <1>3, ReleaseKeepsInv DEF KeyFree, EraseDestroys
<1>4. ASSUME NEW h \in Handle, NEW alg \in Alg, Generate(h, alg)
      PROVE  Inv'
  <2>1. CASE GenerateRejected(h, alg)
    BY <2>1, ForgetKeepsInv DEF GenerateRejected
  <2>2. CASE GenerateFails(h, alg)
    BY <2>2, ReleaseKeepsInv DEF GenerateFails
  <2>3. CASE GenerateOk(h, alg)
    BY <2>3, GenerateOkKeepsInv
  <2>4. QED
    BY <1>4, <2>1, <2>2, <2>3 DEF Generate
<1>5. ASSUME NEW dst \in Handle, NEW src \in Handle, KeyUpRef(dst, src)
      PROVE  Inv'
  BY <1>5, KeyUpRefKeepsInv
<1>6. CASE UNCHANGED vars
  BY <1>6 DEF vars, Inv, TypeOK, EveryOwnerCounted, Holders
<1>7. QED
  BY <1>1, <1>2, <1>3, <1>4, <1>5, <1>6 DEF Next

THEOREM SpecInv == Spec => []Inv
BY InitInv, NextKeepsInv, PTL DEF Spec

(* The types of the pointers and of the counters.                           *)
THEOREM TypeCorrect == Spec => []TypeOK
<1>1. Inv => TypeOK
  BY DEF Inv
<1>2. QED
  BY <1>1, SpecInv, PTL

(* HIG-003 for every number of handles and every way of sharing: an owner   *)
(* always has a reference of its own (pqc_crypto.c:292-296).               *)
THEOREM OwnersAreCounted == Spec => []EveryOwnerCounted
<1>1. Inv => EveryOwnerCounted
  BY DEF Inv
<1>2. QED
  BY <1>1, SpecInv, PTL

(* No sequence of API calls leaves a handle pointing at a destroyed key.    *)
THEOREM HandlesNeverDangle == Spec => []NoDanglingHandle
<1>1. Inv => NoDanglingHandle
  <2> SUFFICES ASSUME Inv, NEW h \in Handle, Live(h)
               PROVE  refs[pkey[h]] > 0
    BY DEF NoDanglingHandle
  <2>1. refs[pkey[h]] \in Nat
    BY DEF Inv, TypeOK, Live
  <2>2. QED
    BY <2>1, OwnerHasReference
<1>2. QED
  BY <1>1, SpecInv, PTL

(* How the unclaimed references of o change when one handle is assigned.    *)
LEMMA LeakedAfterPoint ==
  ASSUME Inv, NEW h \in Handle, NEW p, Point(h, p), NEW o \in Obj,
         NEW d \in Int, refs'[o] = refs[o] + d
  PROVE  Leaked(o)' = Leaked(o) + d + One(pkey[h], o) - One(p, o)
<1>1. Cardinality(Holders(o)') = Cardinality(Holders(o)) - One(pkey[h], o) + One(p, o)
  BY PointCounts DEF Inv
<1>2. refs[o] \in Int /\ Cardinality(Holders(o)) \in Int
  BY HoldersFinite DEF Inv, TypeOK
<1>3. One(pkey[h], o) \in Int /\ One(p, o) \in Int
  BY DEF One
<1>4. QED
  BY <1>1, <1>2, <1>3 DEF Leaked

(* The actions that release what they overwrite lose nothing.               *)
LEMMA ReleaseLosesNothing ==
  ASSUME Inv, NEW h \in Handle, NEW o \in Obj,
         refs' = AfterRelease(h), Point(h, NULL)
  PROVE  Leaked(o)' = Leaked(o)
<1>1. refs'[o] = refs[o] + (- One(pkey[h], o))
  BY ReleaseCounts DEF Inv, TypeOK, One
<1>2. Leaked(o)' = Leaked(o) + (- One(pkey[h], o)) + One(pkey[h], o) - One(NULL, o)
  BY <1>1, LeakedAfterPoint DEF One
<1>3. One(NULL, o) = 0 /\ One(pkey[h], o) \in Int
  BY PointerValues DEF One
<1>4. Leaked(o) \in Int
  BY HoldersFinite DEF Inv, TypeOK, Leaked
<1>5. QED
  BY <1>2, <1>3, <1>4

LEMMA GenerateOkLosesNothing ==
  ASSUME Inv, NEW h \in Handle, NEW alg \in Alg, GenerateOk(h, alg), NEW o \in Obj
  PROVE  Leaked(o)' = Leaked(o)
<1>1. PICK new \in Obj : /\ AfterRelease(h)[new] = 0
                         /\ refs' = [AfterRelease(h) EXCEPT ![new] = 1]
                         /\ Point(h, new)
  BY DEF GenerateOk
<1>2. AfterRelease(h)[o] = refs[o] - One(pkey[h], o)
  BY ReleaseCounts
<1>3. refs'[o] = refs[o] + (One(new, o) - One(pkey[h], o))
  BY <1>1, <1>2 DEF Inv, TypeOK, One, AfterRelease
<1>4. Leaked(o)' = Leaked(o) + (One(new, o) - One(pkey[h], o)) + One(pkey[h], o) - One(new, o)
  BY <1>1, <1>3, LeakedAfterPoint DEF One
<1>5. Leaked(o) \in Int
  BY HoldersFinite DEF Inv, TypeOK, Leaked
<1>6. QED
  BY <1>4, <1>5 DEF One

(* What the two overwriting paths lose: the reference of the old object.    *)
LEMMA OverwriteLosesOne ==
  ASSUME Inv, NEW o \in Obj
  PROVE  /\ \A h \in Handle, alg \in Alg :
              GenerateRejected(h, alg) => Leaked(o)' = Leaked(o) + One(pkey[h], o)
         /\ \A dst, src \in Handle :
              KeyUpRef(dst, src) => Leaked(o)' = Leaked(o) + One(pkey[dst], o)
<1>1. Leaked(o) \in Int /\ refs[o] \in Int
  BY HoldersFinite DEF Inv, TypeOK, Leaked
<1>2. ASSUME NEW h \in Handle, NEW alg \in Alg, GenerateRejected(h, alg)
      PROVE  Leaked(o)' = Leaked(o) + One(pkey[h], o)
  <2>1. Leaked(o)' = Leaked(o) + 0 + One(pkey[h], o) - One(NULL, o)
    BY <1>1, <1>2, LeakedAfterPoint DEF GenerateRejected
  <2>2. One(NULL, o) = 0
    BY PointerValues DEF One
  <2>3. QED
    BY <1>1, <2>1, <2>2 DEF One
<1>3. ASSUME NEW dst \in Handle, NEW src \in Handle, KeyUpRef(dst, src)
      PROVE  Leaked(o)' = Leaked(o) + One(pkey[dst], o)
  <2>1. refs'[o] = refs[o] + One(pkey[src], o)
    BY <1>3 DEF KeyUpRef, Inv, TypeOK, One
  <2>2. Leaked(o)' = Leaked(o) + One(pkey[src], o) + One(pkey[dst], o) - One(pkey[src], o)
    BY <1>3, <2>1, LeakedAfterPoint DEF KeyUpRef, One
  <2>3. QED
    BY <1>1, <2>2 DEF One
<1>4. QED
  BY <1>2, <1>3

(* The leak accounting of one step.                                         *)
LeakStep ==
  \A o \in Obj :
    /\ Leaked(o)' >= Leaked(o)
    /\ Leaked(o)' > Leaked(o) =>
         \/ \E h \in Handle, alg \in Alg : GenerateRejected(h, alg) /\ pkey[h] = o
         \/ \E dst, src \in Handle : KeyUpRef(dst, src) /\ pkey[dst] = o

LEMMA NextLeakStep == Inv /\ Next => LeakStep
<1> SUFFICES ASSUME Inv, Next, NEW o \in Obj
             PROVE  /\ Leaked(o)' >= Leaked(o)
                    /\ Leaked(o)' > Leaked(o) =>
                         \/ \E h \in Handle, alg \in Alg : GenerateRejected(h, alg) /\ pkey[h] = o
                         \/ \E dst, src \in Handle : KeyUpRef(dst, src) /\ pkey[dst] = o
  BY DEF LeakStep
<1>0. Leaked(o) \in Int /\ refs[o] \in Int
  BY HoldersFinite DEF Inv, TypeOK, Leaked
<1>1. ASSUME NEW h \in Handle, NEW p \in {NULL, Raw}, Point(h, p), UNCHANGED refs,
             pkey[h] \in {NULL, Raw}
      PROVE  Leaked(o)' = Leaked(o)
  <2>1. Leaked(o)' = Leaked(o) + 0 + One(pkey[h], o) - One(p, o)
    BY <1>0, <1>1, LeakedAfterPoint
  <2>2. One(pkey[h], o) = 0 /\ One(p, o) = 0
    BY <1>1, PointerValues DEF One
  <2>3. QED
    BY <1>0, <2>1, <2>2
<1>2. ASSUME NEW h \in Handle, KeyInit(h) \/ Retire(h)
      PROVE  Leaked(o)' = Leaked(o)
  BY <1>1, <1>2 DEF KeyInit, Retire
<1>3. ASSUME NEW h \in Handle, KeyFree(h) \/ EraseDestroys(h)
      PROVE  Leaked(o)' = Leaked(o)
  BY <1>3, ReleaseLosesNothing DEF KeyFree, EraseDestroys
<1>4. ASSUME NEW h \in Handle, NEW alg \in Alg, GenerateFails(h, alg) \/ GenerateOk(h, alg)
      PROVE  Leaked(o)' = Leaked(o)
  BY <1>4, ReleaseLosesNothing, GenerateOkLosesNothing DEF GenerateFails
<1>5. ASSUME NEW h \in Handle, NEW alg \in Alg, GenerateRejected(h, alg)
      PROVE  /\ Leaked(o)' >= Leaked(o)
             /\ Leaked(o)' > Leaked(o) => pkey[h] = o
  BY <1>0, <1>5, OverwriteLosesOne DEF One
<1>6. ASSUME NEW dst \in Handle, NEW src \in Handle, KeyUpRef(dst, src)
      PROVE  /\ Leaked(o)' >= Leaked(o)
             /\ Leaked(o)' > Leaked(o) => pkey[dst] = o
  BY <1>0, <1>6, OverwriteLosesOne DEF One
<1>7. QED
  BY <1>0, <1>2, <1>3, <1>4, <1>5, <1>6 DEF Next, Generate

(* References are never released twice, and only the refused regeneration   *)
(* and an up_ref over a live handle lose one (pqc_crypto.c:185-192, 301).   *)
THEOREM LeaksAreOverwrites == Spec => LeaksOnlyByOverwrite
<1>1. Inv /\ [Next]_vars => [LeakStep]_vars
  BY NextLeakStep
<1>2. QED
  BY <1>1, SpecInv, PTL DEF Spec, LeaksOnlyByOverwrite, LeakStep

-----------------------------------------------------------------------------
(* The refinement of KeyOwners *)

HoldsOf == [h \in Handle |-> IF Live(h) THEN pkey[h] ELSE NULL]
AliveObjs == {o \in Obj : refs[o] > 0}

(* An abstract assignment: one owner's holding changes, and only the key it  *)
(* had may die, only the key it gets may come alive.                       *)
LEMMA HoldingsRefine ==
  ASSUME NoDanglingHandle', NEW h \in Handle, NEW k \in Obj \cup {NULL},
         HoldsOf' = [HoldsOf EXCEPT ![h] = k],
         \A o \in Obj : o # pkey[h] /\ refs[o] > 0 => refs'[o] > 0,
         \A o \in Obj : o # k /\ refs'[o] > 0 => refs[o] > 0
  PROVE  Owners!Assign(h, k)
<1>1. AliveObjs \ {HoldsOf[h]} \subseteq AliveObjs'
  <2> SUFFICES ASSUME NEW o \in Obj, refs[o] > 0, o # HoldsOf[h]
               PROVE  refs'[o] > 0
    BY DEF AliveObjs
  <2>1. o # pkey[h]
    BY DEF HoldsOf, Live
  <2>2. QED
    BY <2>1
<1>2. AliveObjs' \subseteq AliveObjs \cup {k}
  BY DEF AliveObjs
<1>3. \A w \in Handle : HoldsOf'[w] # NULL => HoldsOf'[w] \in AliveObjs'
  <2> SUFFICES ASSUME NEW w \in Handle, HoldsOf'[w] # NULL
               PROVE  HoldsOf'[w] \in AliveObjs'
    OBVIOUS
  <2>1. pkey'[w] \in Obj /\ HoldsOf'[w] = pkey'[w]
    BY DEF HoldsOf, Live
  <2>2. refs'[pkey'[w]] > 0
    BY <2>1 DEF NoDanglingHandle, Live
  <2>3. QED
    BY <2>1, <2>2 DEF AliveObjs
<1>4. AliveObjs' \subseteq Obj
  BY DEF AliveObjs
<1>5. Owners!Held' \subseteq AliveObjs'
  BY <1>3 DEF Owners!Held, HoldsOf
<1>6. QED
  BY <1>1, <1>2, <1>4, <1>5 DEF Owners!Assign, HoldsOf, AliveObjs

(* The assignment of one pointer is one.                                    *)
LEMMA AssignRefines ==
  ASSUME Inv, NoDanglingHandle', NEW h \in Handle, NEW p \in Obj \cup {NULL, Raw}, Point(h, p),
         \A o \in Obj : o # pkey[h] /\ refs[o] > 0 => refs'[o] > 0,
         \A o \in Obj : o # p /\ refs'[o] > 0 => refs[o] > 0
  PROVE  Owners!Assign(h, IF p \in Obj THEN p ELSE NULL)
<1> DEFINE k == IF p \in Obj THEN p ELSE NULL
<1>1. HoldsOf' = [HoldsOf EXCEPT ![h] = k]
  BY DEF HoldsOf, Live, Point, Inv, TypeOK
<1>2. \A o \in Obj : o # k /\ refs'[o] > 0 => refs[o] > 0
  OBVIOUS
<1>3. k \in Obj \cup {NULL}
  OBVIOUS
<1> HIDE DEF k
<1>4. Owners!Assign(h, k)
  BY <1>1, <1>2, <1>3, HoldingsRefine
<1>5. QED
  BY <1>4 DEF k

LEMMA LetGoRefines ==
  ASSUME Inv, NoDanglingHandle', NEW h \in Handle, NEW p \in {NULL, Raw}, Point(h, p),
         refs' = refs \/ refs' = AfterRelease(h)
  PROVE  Owners!Next
<1>1. \A o \in Obj : o # pkey[h] => refs'[o] = refs[o]
  BY DEF AfterRelease
<1>2. \A o \in Obj : refs'[o] > 0 => refs[o] > 0
  BY DEF AfterRelease, Inv, TypeOK
<1>3. p \notin Obj
  BY PointerValues
<1>4. Owners!Assign(h, NULL)
  BY <1>1, <1>2, <1>3, AssignRefines
<1>5. QED
  BY <1>4 DEF Owners!Next, Owners!LetGo

LEMMA CreateRefines ==
  ASSUME Inv, NoDanglingHandle', NEW h \in Handle, NEW alg \in Alg, GenerateOk(h, alg)
  PROVE  Owners!Next
<1>1. PICK new \in Obj : /\ AfterRelease(h)[new] = 0
                         /\ refs' = [AfterRelease(h) EXCEPT ![new] = 1]
                         /\ Point(h, new)
  BY DEF GenerateOk
<1>2. \A o \in Obj : o # new => refs'[o] = AfterRelease(h)[o]
  BY <1>1 DEF AfterRelease
<1>3. \A o \in Obj : o # pkey[h] /\ refs[o] > 0 => refs'[o] > 0
  BY <1>1, <1>2 DEF AfterRelease
<1>4. \A o \in Obj : o # new /\ refs'[o] > 0 => refs[o] > 0
  BY <1>2 DEF AfterRelease, Inv, TypeOK
<1>5. Owners!Assign(h, new)
  BY <1>1, <1>3, <1>4, AssignRefines
<1>6. ASSUME NEW v \in Handle \ {h}, HoldsOf[v] = new
      PROVE  FALSE
  <2>1. pkey[v] = new
    BY <1>6, PointerValues DEF HoldsOf, Live
  <2>2. pkey'[v] = new
    BY <1>1, <1>6, <2>1 DEF Point, Inv, TypeOK
  <2>3. v \in Holders(new) \ {h}
    BY <2>1, <1>6 DEF Holders
  <2>4. Cardinality(Holders(new)) - One(pkey[h], new) <= 0
    BY <1>1, ReleaseCounts
  <2>5. /\ IsFiniteSet(Holders(new)) /\ IsFiniteSet(Holders(new) \ {h})
        /\ Cardinality(Holders(new)) \in Nat /\ Cardinality(Holders(new) \ {h}) \in Nat
    BY HoldersFinite, FS_RemoveElement, FS_CardinalityType
  <2>6. Cardinality(Holders(new) \ {h}) = Cardinality(Holders(new)) - One(pkey[h], new)
    BY <2>5, FS_RemoveElement DEF Holders, One
  <2>7. Cardinality(Holders(new) \ {h}) = 0
    BY <2>4, <2>5, <2>6
  <2>8. QED
    BY <2>3, <2>5, <2>7, FS_EmptySet
<1>7. QED
  BY <1>5, <1>6 DEF Owners!Next, Owners!Create, HoldsOf

LEMMA ShareRefines ==
  ASSUME Inv, NoDanglingHandle', NEW dst \in Handle, NEW src \in Handle, KeyUpRef(dst, src)
  PROVE  Owners!Next
<1>1. PICK s \in Obj : /\ s = pkey[src]
                       /\ Point(dst, s)
                       /\ refs' = [refs EXCEPT ![s] = @ + 1]
  BY DEF KeyUpRef, Live
<1>2. \A o \in Obj : refs[o] > 0 => refs'[o] > 0
  BY <1>1 DEF Inv, TypeOK
<1>3. \A o \in Obj : o # s /\ refs'[o] > 0 => refs[o] > 0
  BY <1>1 DEF Inv, TypeOK
<1>4. Owners!Assign(dst, s)
  BY <1>1, <1>2, <1>3, AssignRefines
<1>5. HoldsOf[src] = s /\ s # NULL
  BY <1>1, PointerValues DEF HoldsOf, Live
<1>6. Owners!Share(dst, src)
  BY <1>4, <1>5 DEF Owners!Share, Owners!Assign, HoldsOf
<1>7. QED
  BY <1>6 DEF Owners!Next

LEMMA StepRefines == Inv /\ NoDanglingHandle' /\ [Next]_vars => [Owners!Next]_(Owners!ownVars)
<1> SUFFICES ASSUME Inv, NoDanglingHandle', [Next]_vars
             PROVE  [Owners!Next]_(Owners!ownVars)
  OBVIOUS
<1>1. ASSUME NEW h \in Handle, KeyInit(h) \/ Retire(h) \/ KeyFree(h) \/ EraseDestroys(h)
      PROVE  Owners!Next
  BY <1>1, LetGoRefines DEF KeyInit, Retire, KeyFree, EraseDestroys
<1>2. ASSUME NEW h \in Handle, NEW alg \in Alg, Generate(h, alg)
      PROVE  Owners!Next
  BY <1>2, LetGoRefines, CreateRefines DEF Generate, GenerateRejected, GenerateFails
<1>3. ASSUME NEW dst \in Handle, NEW src \in Handle, KeyUpRef(dst, src)
      PROVE  Owners!Next
  BY <1>3, ShareRefines
<1>4. CASE UNCHANGED vars
  BY <1>4 DEF vars, Owners!ownVars, Live
<1>5. QED
  BY <1>1, <1>2, <1>3, <1>4 DEF Next

LEMMA InitRefines == Init => Owners!Init
<1> SUFFICES ASSUME Init PROVE Owners!Init
  OBVIOUS
<1>1. \A h \in Handle : ~Live(h)
  BY PointerValues DEF Init, Live
<1>2. {o \in Obj : refs[o] > 0} = {}
  BY DEF Init
<1>3. QED
  BY <1>1, <1>2 DEF Owners!Init

(* The reference counters implement independent ownership for any number of *)
(* handles: the promise of pqc_crypto.h:35-44.                              *)
THEOREM CountersImplementOwnership == Spec => ImplementsOwners
BY InitRefines, StepRefines, SpecInv, HandlesNeverDangle, PTL
   DEF Spec, ImplementsOwners, Owners!Spec
=============================================================================
