------------------------------ MODULE UtxoSet -------------------------------
(***************************************************************************)
(* Spending the entries of a UTXO set: utxo_mark_spent_safe of verification/ *)
(* framac/wp_utxo.c and utxo_find_model, utxo_mark_spent_model of            *)
(* verification/cbmc/cbmc_utxo.c, called by several threads.  The spent flag *)
(* is read in one step and written in another and neither takes a lock: the  *)
(* mutex the original has, which cbmc_utxo.c:36 leaves out, is external,     *)
(* taken before the lookup and given back after the answer.                 *)
(***************************************************************************)
EXTENDS Integers, FiniteSets

CONSTANTS
  Spender,     \* threads that spend
  Count,       \* entries in the set
  MaxCalls     \* bound on the calls of one thread

ASSUME UtxoConstants == Count \in Nat /\ MaxCalls \in Nat

Entry == 0 .. Count - 1
Index == 0 .. Count      \* what callers pass; Count is one past the end

VARIABLES
  spent,     \* spent[e]: the flag of entry e
  lock,      \* the spender that holds the mutex, {} or a singleton
  at,        \* at[t]: "out", "enter", "find", "check", "set" or "leave"
  index,     \* index[t]: the index passed
  answer,    \* answer[t]: what the last call returned
  oks,       \* history: oks[e] calls that returned 0 for entry e
  called     \* called[t]: calls made so far

utxoVars == <<spent, lock, at, index, answer, oks, called>>

Move(t, here, there) == at[t] = here /\ at' = [at EXCEPT ![t] = there]
Answer(t, r) == answer' = [answer EXCEPT ![t] = r]

-----------------------------------------------------------------------------
SpendCall(t) ==
  /\ Move(t, "out", "enter")
  /\ called[t] < MaxCalls /\ called' = [called EXCEPT ![t] = @ + 1]
  /\ \E i \in Index : index' = [index EXCEPT ![t] = i]
  /\ answer' = [answer EXCEPT ![t] = "none"]
  /\ UNCHANGED <<spent, lock, oks>>

(* External: the caller of these functions holds the set's mutex.            *)
Acquire(t) ==
  /\ Move(t, "enter", "find")
  /\ lock = {} /\ lock' = {t}
  /\ UNCHANGED <<spent, index, answer, oks, called>>

FindEntry(t) ==
  /\ \/ index[t] \in Entry /\ Move(t, "find", "check") /\ UNCHANGED answer
     \/ index[t] \notin Entry /\ Move(t, "find", "leave") /\ Answer(t, "validation")
  /\ UNCHANGED <<spent, lock, index, oks, called>>

(* Mutated: the flag is not looked at. *)
CheckSpentForgetful(t) ==
  /\ Move(t, "check", "set")
  /\ UNCHANGED <<spent, lock, index, answer, oks, called>>

CheckSpent(t) ==
  /\ \/ Move(t, "check", "leave") /\ spent[index[t]] /\ Answer(t, "rejected")
     \/ Move(t, "check", "set") /\ ~spent[index[t]] /\ UNCHANGED answer
  /\ UNCHANGED <<spent, lock, index, oks, called>>

SetSpent(t) ==
  /\ Move(t, "set", "leave")
  /\ spent' = [spent EXCEPT ![index[t]] = TRUE]
  /\ Answer(t, "ok")
  /\ oks' = [oks EXCEPT ![index[t]] = @ + 1]
  /\ UNCHANGED <<lock, index, called>>

(* External: it gives the mutex back.                                       *)
Leave(t) ==
  /\ Move(t, "leave", "out")
  /\ lock' = lock \ {t}
  /\ UNCHANGED <<spent, index, answer, oks, called>>

UtxoInit ==
  /\ spent = [e \in Entry |-> FALSE]
  /\ lock = {}
  /\ at = [t \in Spender |-> "out"]
  /\ index = [t \in Spender |-> Count]
  /\ answer = [t \in Spender |-> "none"]
  /\ oks = [e \in Entry |-> 0]
  /\ called = [t \in Spender |-> 0]

UtxoNext ==
  \E t \in Spender :
    \/ SpendCall(t) \/ Acquire(t) \/ FindEntry(t)
    \/ CheckSpent(t) \/ SetSpent(t) \/ Leave(t)

UtxoSpec == UtxoInit /\ [][UtxoNext]_utxoVars

-----------------------------------------------------------------------------
(* Properties *)

(* An entry is spent for one caller only, it is spent exactly when some       *)
(* caller was told so, and a call that missed it or came second left no      *)
(* trace, however the calls are ordered under the mutex their callers hold   *)
(* (cbmc_utxo.c:102-126, wp_utxo.c:35-76).                                  *)
SpentOnce ==
  \A e \in Entry :
    /\ oks[e] <= 1
    /\ spent[e] <=> oks[e] = 1
=============================================================================
