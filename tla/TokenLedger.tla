----------------------------- MODULE TokenLedger ----------------------------
(***************************************************************************)
(* Balances in unsigned words: the credit, debit and transfer models of     *)
(* verification/framac/wp_token_ledger.c and verification/cbmc/             *)
(* cbmc_overflow.c, the checked arithmetic they are made of, and the        *)
(* arithmetic of fees.  Top is the largest word (UINT64_MAX), CountTop the  *)
(* largest count (UINT32_MAX).  What is credited, and what is debited       *)
(* outside a transfer, enters and leaves the supply.                       *)
(***************************************************************************)
EXTENDS Integers, FiniteSets, FiniteSetsExt

CONSTANTS
  Account,
  Top, CountTop,
  SameAccount      \* whether a transfer may name one account twice

ASSUME LedgerConstants ==
  /\ IsFiniteSet(Account)
  /\ Top \in Nat /\ CountTop \in Nat
  /\ SameAccount \in BOOLEAN

Word == 0 .. Top
Wrap(x) == x % (Top + 1)
WrapCount(n) == n % (CountTop + 1)

VARIABLES
  balance,     \* balance[a]
  utxo_count,  \* utxo_count[a]: the outputs account a is said to have
  issued       \* history: what entered the supply less what left it

ledgerVars == <<balance, utxo_count, issued>>

-----------------------------------------------------------------------------
(* Checked arithmetic: a pair of success and result *)

SafeAdd(a, b) == [ok |-> a <= Top - b, out |-> Wrap(a + b)]

(* Mutated: the guard of a subtraction the wrong way round at equality. *)
SafeSubOff(a, b) == [ok |-> a + 1 >= b, out |-> Wrap(a - b)]

SafeSub(a, b) == [ok |-> a >= b, out |-> Wrap(a - b)]

(* Mutated: the check before the product off by one. *)
SaturatingMulOff(a, b) ==
  IF a = 0 \/ b = 0 THEN 0 ELSE IF a > Top \div b + 1 THEN Top ELSE Wrap(a * b)

SaturatingMul(a, b) ==
  IF a = 0 \/ b = 0 THEN 0 ELSE IF a > Top \div b THEN Top ELSE Wrap(a * b)

Priority(fee, size) == IF size = 0 THEN 0 ELSE fee \div size

-----------------------------------------------------------------------------
(* The code asks neither for an amount nor for room in the count, which        *)
(* wraps; its contract does.                                                *)
Credit(a, x) ==
  /\ SafeAdd(balance[a], x).ok
  /\ balance' = [balance EXCEPT ![a] = SafeAdd(@, x).out]
  /\ utxo_count' = [utxo_count EXCEPT ![a] = WrapCount(@ + 1)]
  /\ issued' = issued + x

Debit(a, x) ==
  /\ SafeSub(balance[a], x).ok
  /\ balance' = [balance EXCEPT ![a] = SafeSub(@, x).out]
  /\ utxo_count' = [utxo_count EXCEPT ![a] = IF @ > 0 THEN @ - 1 ELSE @]
  /\ issued' = issued - x

(* Mutated: the sender is charged before the receiver is checked. *)
TransferInOrder(s, r, x) ==
  /\ s # r
  /\ SafeSub(balance[s], x).ok
  /\ balance' =
       IF SafeAdd(balance[r], x).ok
         THEN [balance EXCEPT ![s] = SafeSub(@, x).out, ![r] = SafeAdd(@, x).out]
         ELSE [balance EXCEPT ![s] = SafeSub(@, x).out]
  /\ UNCHANGED <<utxo_count, issued>>

(* Both results are computed before either balance is written, the           *)
(* receiver's last.                                                         *)
Transfer(s, r, x) ==
  /\ s = r => SameAccount
  /\ SafeSub(balance[s], x).ok /\ SafeAdd(balance[r], x).ok
  /\ LET sent == SafeSub(balance[s], x).out
         received == SafeAdd(balance[r], x).out
     IN balance' = [balance EXCEPT ![s] = sent, ![r] = received]
  /\ UNCHANGED <<utxo_count, issued>>

LedgerInit ==
  /\ balance = [a \in Account |-> 0]
  /\ utxo_count = [a \in Account |-> 0]
  /\ issued = 0

LedgerNext ==
  \E a \in Account, x \in Word :
    \/ Credit(a, x) \/ Debit(a, x)
    \/ \E b \in Account : Transfer(a, b, x)

LedgerSpec == LedgerInit /\ [][LedgerNext]_ledgerVars

-----------------------------------------------------------------------------
(* Properties *)

LedgerTypeOK ==
  /\ balance \in [Account -> Word]
  /\ utxo_count \in [Account -> 0 .. CountTop]
  /\ issued \in Nat

(* The balances add up to what was issued, although each is a word that      *)
(* could wrap and a transfer writes two of them: nothing is created or lost  *)
(* in any sequence of calls, those of nothing included (cbmc_overflow.c:130-151, "Transfer preserves    *)
(* total supply"; wp_token_ledger.c:141-164).                               *)
SupplyConserved == MapThenSumSet(LAMBDA a : balance[a], Account) = issued

(* For every balance there comes to be, the saturating product is the product   *)
(* cut off at the largest word (wp_token_ledger.c:166-193), and a balance       *)
(* offered as a fee covers its priority times the size (cbmc_overflow.c:83-91).  *)
FeesSaturate ==
  \A a \in Account, x \in Word :
    LET b == balance[a]
    IN /\ SaturatingMul(b, x) = IF b * x > Top THEN Top ELSE b * x
       /\ SaturatingMul(Priority(b, x), x) <= b
=============================================================================
