----------------------------- MODULE Node_proofs -----------------------------
(***************************************************************************)
(* What the node's tables, ledgers and sessions keep, for any number of          *)
(* threads, entries, accounts, calls and bytes.  An entry is spent once,        *)
(* because the caller holds the mutex from before the lookup on; a sum of       *)
(* balances changes by what one of them changes; a verdict depends on the       *)
(* bytes received alone.  At the end, what holds of the parts holds of the      *)
(* node.                                                                      *)
(***************************************************************************)
EXTENDS MCNode, Votes_proofs, MigrationWal_proofs

UTypes ==
  /\ spent \in [Entry -> BOOLEAN] /\ oks \in [Entry -> {0, 1}]
  /\ at \in [Spender -> {"out", "enter", "find", "check", "set", "leave"}]
  /\ index \in [Spender -> Index]

Holding == \A t \in Spender : at[t] \in {"find", "check", "set", "leave"} => lock = {t}

Looked ==
  \A t \in Spender :
    /\ at[t] \in {"check", "set"} => index[t] \in Entry
    /\ at[t] = "set" => oks[index[t]] = 0

FlagMatches == \A e \in Entry : spent[e] <=> oks[e] = 1

UInv == UTypes /\ Holding /\ Looked /\ FlagMatches

-----------------------------------------------------------------------------
LEMMA UtxoInvariant == UtxoSpec => []UInv
<1>1. UtxoInit => UInv
  BY UtxoConstants DEF UtxoInit, UInv, UTypes, Holding, Looked, FlagMatches, Index, Entry
<1>2. UInv /\ [UtxoNext]_utxoVars => UInv'
  <2> SUFFICES ASSUME UInv, [UtxoNext]_utxoVars PROVE UInv'
    OBVIOUS
  <2> USE DEF UInv, UTypes, Holding, Looked, FlagMatches, Move, Answer
  <2>1. ASSUME NEW t \in Spender, SpendCall(t) PROVE UInv'
    BY <2>1 DEF SpendCall
  <2>2. ASSUME NEW t \in Spender, FindEntry(t) PROVE UInv'
    BY <2>2 DEF FindEntry
  <2>3. ASSUME NEW t \in Spender, CheckSpent(t) PROVE UInv'
    BY <2>3 DEF CheckSpent
  <2>4. ASSUME NEW t \in Spender, SetSpent(t) PROVE UInv'
    <3>1. /\ at[t] = "set" /\ at' = [at EXCEPT ![t] = "leave"]
          /\ index[t] \in Entry /\ oks[index[t]] = 0
          /\ spent' = [spent EXCEPT ![index[t]] = TRUE]
          /\ oks' = [oks EXCEPT ![index[t]] = oks[index[t]] + 1]
          /\ lock = {t} /\ UNCHANGED <<lock, index>>
      BY <2>4 DEF SetSpent
    <3>2. oks' = [oks EXCEPT ![index[t]] = 1]
      BY <3>1
    <3>3. UTypes' /\ Holding' /\ FlagMatches'
      BY <3>1, <3>2
    <3>4. \A s \in Spender : s # t => at[s] \notin {"find", "check", "set", "leave"}
      BY <3>1
    <3>5. Looked'
      BY <3>1, <3>2, <3>4
    <3>6. QED
      BY <3>3, <3>5
  <2>5. ASSUME NEW t \in Spender, Leave(t) PROVE UInv'
    BY <2>5 DEF Leave
  <2>6. ASSUME NEW t \in Spender, Acquire(t) PROVE UInv'
    BY <2>6 DEF Acquire
  <2>7. CASE UNCHANGED utxoVars
    BY <2>7 DEF utxoVars
  <2>8. QED
    BY <2>1, <2>2, <2>3, <2>4, <2>5, <2>6, <2>7 DEF UtxoNext
<1>3. QED
  BY <1>1, <1>2, PTL DEF UtxoSpec

(* However the calls are ordered under the mutex their callers hold, an entry   *)
(* is spent for one caller at most and exactly when a caller was told so        *)
(* (cbmc_utxo.c:102-126), for any number of threads, entries and calls.         *)
THEOREM EntriesSpentOnce == UtxoSpec => []SpentOnce
<1>1. UInv => SpentOnce
  BY DEF UInv, UTypes, FlagMatches, SpentOnce
<1>2. QED
  BY <1>1, UtxoInvariant, PTL

-----------------------------------------------------------------------------
(* Token ledger *)

(* What a passed check says of the word it computes. *)
LEMMA CheckedAdd ==
  ASSUME NEW a \in Word, NEW b \in Word, SafeAdd(a, b).ok
  PROVE  SafeAdd(a, b).out = a + b /\ a + b \in Word
<1>1. Top \in Nat /\ a \in Nat /\ b \in Nat /\ a <= Top - b
  <2>1. a <= Top - b
    BY Zenon DEF SafeAdd
  <2>2. QED
    BY <2>1, LedgerConstants DEF Word
<1>2. (a + b) % (Top + 1) = a + b /\ a + b \in 0 .. Top
  BY <1>1
<1>3. QED
  BY <1>2 DEF SafeAdd, Wrap, Word

LEMMA CheckedSub ==
  ASSUME NEW a \in Word, NEW b \in Word, SafeSub(a, b).ok
  PROVE  SafeSub(a, b).out = a - b /\ a - b \in Word
<1>1. Top \in Nat /\ a \in Nat /\ b \in Nat /\ a >= b /\ a <= Top
  <2>1. a >= b
    BY Zenon DEF SafeSub
  <2>2. QED
    BY <2>1, LedgerConstants DEF Word
<1>2. (a - b) % (Top + 1) = a - b /\ a - b \in 0 .. Top
  BY <1>1
<1>3. QED
  BY <1>2 DEF SafeSub, Wrap, Word

Balances == balance \in [Account -> Word]
Conserved == Sum(balance, Account) = issued

LEMMA BalancesAdd ==
  ASSUME Balances
  PROVE  Summable(balance, Account) /\ Natural(balance, Account)
BY LedgerConstants DEF Balances, Summable, Natural, Word

LEMMA CreditConserves ==
  ASSUME Balances, Conserved, NEW a \in Account, NEW x \in Word, Credit(a, x)
  PROVE  Balances' /\ Conserved'
<1>1. /\ balance' = [balance EXCEPT ![a] = balance[a] + x] /\ balance[a] + x \in Word
      /\ issued' = issued + x
  BY CheckedAdd DEF Credit, Balances
<1>2. balance[a] \in Int /\ x \in Int
  BY LedgerConstants DEF Balances, Word
<1>3. Balances' /\ balance'[a] = balance[a] + x
      /\ \A b \in Account \ {a} : balance'[b] = balance[b]
  BY <1>1 DEF Balances
<1>4. Sum(balance', Account) = Sum(balance, Account) + balance'[a] - balance[a]
  BY <1>2, <1>3, BalancesAdd, SumChange
<1>5. Sum(balance, Account) \in Int
  BY BalancesAdd, SumInt
<1>6. QED
  BY <1>1, <1>2, <1>3, <1>4, <1>5 DEF Conserved

LEMMA DebitConserves ==
  ASSUME Balances, Conserved, NEW a \in Account, NEW x \in Word, Debit(a, x)
  PROVE  Balances' /\ Conserved'
<1>1. /\ balance' = [balance EXCEPT ![a] = balance[a] - x] /\ balance[a] - x \in Word
      /\ issued' = issued - x
  BY CheckedSub DEF Debit, Balances
<1>2. balance[a] \in Int /\ x \in Int
  BY LedgerConstants DEF Balances, Word
<1>3. Balances' /\ balance'[a] = balance[a] - x
      /\ \A b \in Account \ {a} : balance'[b] = balance[b]
  BY <1>1 DEF Balances
<1>4. Sum(balance', Account) = Sum(balance, Account) + balance'[a] - balance[a]
  BY <1>2, <1>3, BalancesAdd, SumChange
<1>5. Sum(balance, Account) \in Int
  BY BalancesAdd, SumInt
<1>6. QED
  BY <1>1, <1>2, <1>3, <1>4, <1>5 DEF Conserved

LEMMA TransferConserves ==
  ASSUME ~SameAccount, Balances, Conserved,
         NEW s \in Account, NEW r \in Account, NEW x \in Word, Transfer(s, r, x)
  PROVE  Balances' /\ Conserved'
<1> DEFINE half == [balance EXCEPT ![s] = balance[s] - x]
<1>1. /\ s # r /\ issued' = issued
      /\ balance' = [balance EXCEPT ![s] = balance[s] - x, ![r] = balance[r] + x]
      /\ balance[s] - x \in Word /\ balance[r] + x \in Word
  BY CheckedAdd, CheckedSub DEF Transfer, Balances
<1>2. balance[s] \in Int /\ balance[r] \in Int /\ x \in Int
  BY LedgerConstants DEF Balances, Word
<1>3. /\ half \in [Account -> Word] /\ half[s] = balance[s] - x /\ half[r] = balance[r]
      /\ \A b \in Account \ {s} : half[b] = balance[b]
  BY <1>1 DEF Balances
<1>4. /\ Balances' /\ balance'[r] = balance[r] + x
      /\ \A b \in Account \ {r} : balance'[b] = half[b]
  BY <1>1 DEF Balances
<1> HIDE DEF half
<1>5. Sum(half, Account) = Sum(balance, Account) + half[s] - balance[s]
  BY <1>2, <1>3, BalancesAdd, SumChange
<1>6. Sum(balance', Account) = Sum(half, Account) + balance'[r] - half[r]
  <2>1. Summable(half, Account)
    BY <1>3, LedgerConstants DEF Summable, Word
  <2>2. QED
    BY <1>2, <1>4, <2>1, SumChange
<1>7. Sum(balance, Account) \in Int
  BY BalancesAdd, SumInt
<1>8. QED
  BY <1>1, <1>2, <1>3, <1>4, <1>5, <1>6, <1>7 DEF Conserved

LEMMA WordsStayWords == LedgerSpec => []Balances
<1>1. LedgerInit => Balances
  BY LedgerConstants DEF LedgerInit, Balances, Word
<1>2. Balances /\ [LedgerNext]_ledgerVars => Balances'
  BY CheckedAdd, CheckedSub DEF LedgerNext, Credit, Debit, Transfer, ledgerVars, Balances
<1>3. QED
  BY <1>1, <1>2, PTL DEF LedgerSpec

LEMMA LedgerInvariant == ASSUME ~SameAccount PROVE LedgerSpec => [](Balances /\ Conserved)
<1>1. LedgerInit => Balances /\ Conserved
  BY LedgerConstants, SumZero DEF LedgerInit, Balances, Conserved, Word
<1>2. Balances /\ Conserved /\ [LedgerNext]_ledgerVars => Balances' /\ Conserved'
  BY CreditConserves, DebitConserves, TransferConserves
  DEF LedgerNext, ledgerVars, Balances, Conserved
<1>3. QED
  BY <1>1, <1>2, PTL DEF LedgerSpec

(* Nothing is created or lost in any sequence of calls (cbmc_overflow.c:130-151,  *)
(* "Transfer preserves total supply"; wp_token_ledger.c:141-164), for every      *)
(* width of a word and number of accounts, as long as a transfer names two       *)
(* accounts, which the contract of the code requires.                           *)
THEOREM SupplyIsConserved == ASSUME ~SameAccount PROVE LedgerSpec => []SupplyConserved
<1>1. Conserved => SupplyConserved
  BY DEF Conserved, SupplyConserved, Sum
<1>2. QED
  BY <1>1, LedgerInvariant, PTL

LEMMA SaturatingProduct ==
  ASSUME NEW b \in Word, NEW x \in Word
  PROVE  SaturatingMul(b, x) = IF b * x > Top THEN Top ELSE b * x
<1>1. Top \in Nat /\ b \in Nat /\ x \in Nat /\ b * x \in Nat
  BY LedgerConstants DEF Word
<1>2. CASE b = 0 \/ x = 0
  BY <1>1, <1>2 DEF SaturatingMul
<1>3. CASE b # 0 /\ x # 0
  <2> DEFINE q == Top \div x
  <2>1. q \in Nat /\ x * q <= Top /\ Top < x * q + x
    BY <1>1, <1>3
  <2>2. CASE b > q
    <3>1. x * b >= x * (q + 1)
      BY <1>1, <2>1, <2>2
    <3>2. b * x > Top
      BY <1>1, <2>1, <3>1
    <3>3. QED
      BY <1>3, <2>2, <3>2 DEF SaturatingMul
  <2>3. CASE ~(b > q)
    <3>1. x * b <= x * q
      BY <1>1, <2>1, <2>3
    <3>2. b * x <= Top
      BY <1>1, <2>1, <3>1
    <3>3. (b * x) % (Top + 1) = b * x
      BY <1>1, <3>2
    <3>4. QED
      BY <1>1, <1>3, <2>3, <3>2, <3>3 DEF SaturatingMul, Wrap
  <2>4. QED
    BY <2>2, <2>3
<1>4. QED
  BY <1>2, <1>3

(* The saturating product is the product cut off at the largest word              *)
(* (wp_token_ledger.c:166-193), and a fee covers its priority times the size      *)
(* (cbmc_overflow.c:83-91), for every balance and every width of a word, also    *)
(* when a transfer names one account twice.                                     *)
THEOREM FeesAreSaturated == LedgerSpec => []FeesSaturate
<1>1. Balances => FeesSaturate
  <2> SUFFICES ASSUME NEW b \in Word, NEW x \in Word
               PROVE  /\ SaturatingMul(b, x) = IF b * x > Top THEN Top ELSE b * x
                      /\ SaturatingMul(Priority(b, x), x) <= b
    BY DEF Balances, FeesSaturate
  <2>1. Top \in Nat /\ b \in Nat /\ x \in Nat /\ b <= Top
    BY LedgerConstants DEF Word
  <2>2. CASE x = 0
    BY <2>1, <2>2 DEF SaturatingMul, Priority
  <2>3. CASE x # 0
    <3> DEFINE q == b \div x
    <3>1. q \in Nat /\ q * x <= b
      BY <2>1, <2>3
    <3>2. q <= q * x
      BY <2>1, <2>3, <3>1
    <3>3. q \in Word
      BY <2>1, <3>1, <3>2 DEF Word
    <3>4. SaturatingMul(q, x) = IF q * x > Top THEN Top ELSE q * x
      <4> HIDE DEF q
      <4>1. QED
        BY <3>3, SaturatingProduct
    <3>5. q * x \in Nat
      BY <2>1, <3>1
    <3>6. SaturatingMul(q, x) <= b
      <4> HIDE DEF q
      <4>1. QED
        BY <2>1, <3>1, <3>4, <3>5
    <3>7. QED
      BY <2>3, <3>6, SaturatingProduct DEF Priority
  <2>4. QED
    BY <2>2, <2>3, SaturatingProduct
<1>2. QED
  BY <1>1, WordsStayWords, PTL

-----------------------------------------------------------------------------
(* Gateway sessions *)

SessionTypes ==
  /\ state \in {"active", "draining"} /\ verdict \in {"none", "kept", "rejected"}
  /\ c2u_len \in 0 .. BufferSize
  /\ c2u_buf \in [1 .. BufferSize -> Letter]
  /\ u_fd \in Upstream \cup {-1}

LEMMA PrefixIs ==
  ASSUME NEW p \in Seq(Letter), NEW s \in Seq(Letter)
  PROVE  IsPrefix(p, s) <=> Len(p) <= Len(s) /\ \A k \in 1 .. Len(p) : s[k] = p[k]
<1> DEFINE t == SubSeq(s, 1, Len(p))
<1>1. Len(p) \in Nat /\ Len(s) \in Nat
  BY LenProperties
<1>2. CASE Len(p) <= Len(s)
  <2>1. \A k \in 1 .. Len(p) : s[k] \in Letter
    BY <1>1, <1>2, ElementOfSeq
  <2>2. t \in Seq(Letter) /\ Len(t) = Len(p) /\ \A k \in 1 .. Len(p) : t[k] = s[k]
    BY <1>1, <2>1, SubSeqProperties
  <2>3. t = p <=> \A k \in 1 .. Len(p) : s[k] = p[k]
    BY <2>2, SeqEqual
  <2>4. QED
    BY <1>2, <2>3 DEF IsPrefix
<1>3. QED
  BY <1>2 DEF IsPrefix

(* A pattern at a place in the first n bytes of the buffer.                    *)
LEMMA Window ==
  ASSUME NEW n \in Nat, NEW s \in Seq(Letter), Len(s) = n,
         \A k \in 1 .. n : s[k] = c2u_buf[k],
         NEW i \in 0 .. n, NEW p \in Seq(Letter)
  PROVE  IsPrefix(p, SubSeq(s, i + 1, n)) <=> i + Len(p) <= n /\ MatchAt(p, i)
<1> DEFINE t == SubSeq(s, i + 1, n)
<1>1. Len(p) \in Nat
  BY LenProperties
<1>2. \A k \in i + 1 .. n : s[k] \in Letter
  BY ElementOfSeq
<1>3. /\ t \in Seq(Letter) /\ Len(t) = IF i + 1 <= n THEN n - (i + 1) + 1 ELSE 0
      /\ \A k \in 1 .. n - (i + 1) + 1 : t[k] = s[k + (i + 1) - 1]
  BY <1>2, SubSeqProperties
<1>4. Len(t) = n - i
  BY <1>3
<1>5. \A k \in 1 .. n - i : t[k] = c2u_buf[i + k]
  <2>1. SUFFICES ASSUME NEW k \in 1 .. n - i PROVE t[k] = c2u_buf[i + k]
    OBVIOUS
  <2>2. k \in 1 .. n - (i + 1) + 1 /\ k + (i + 1) - 1 = i + k /\ i + k \in 1 .. n
    OBVIOUS
  <2>3. QED
    BY <1>3, <2>2
<1>6. IsPrefix(p, t) <=> Len(p) <= Len(t) /\ \A k \in 1 .. Len(p) : t[k] = p[k]
  BY <1>3, PrefixIs
<1>7. CASE i + Len(p) <= n
  <2>1. \A k \in 1 .. Len(p) : t[k] = c2u_buf[i + k]
    BY <1>1, <1>5, <1>7
  <2>2. QED
    BY <1>1, <1>4, <1>6, <1>7, <2>1 DEF MatchAt
<1>8. CASE ~(i + Len(p) <= n)
  BY <1>1, <1>4, <1>6, <1>8
<1>9. QED
  BY <1>7, <1>8

LEMMA Occurrence ==
  ASSUME NEW n \in Nat, NEW s \in Seq(Letter), Len(s) = n,
         \A k \in 1 .. n : s[k] = c2u_buf[k],
         NEW p \in Seq(Letter), p # << >>
  PROVE  Occurs(p, s) <=> \E i \in 0 .. n - Len(p) : MatchAt(p, i)
<1>1. Len(p) \in Nat \ {0}
  BY EmptySeq
<1>2. ASSUME NEW i \in 1 .. n, IsPrefix(p, SubSeq(s, i, n))
      PROVE  \E j \in 0 .. n - Len(p) : MatchAt(p, j)
  <2>1. i - 1 \in 0 .. n /\ (i - 1) + 1 = i
    OBVIOUS
  <2>2. (i - 1) + Len(p) <= n /\ MatchAt(p, i - 1)
    BY <1>2, <2>1, Window
  <2>3. i - 1 \in 0 .. n - Len(p)
    BY <1>1, <2>2
  <2>4. QED
    BY <2>2, <2>3
<1>3. ASSUME NEW j \in 0 .. n - Len(p), MatchAt(p, j)
      PROVE  \E i \in 1 .. n : IsPrefix(p, SubSeq(s, i, n))
  <2>1. j \in 0 .. n /\ j + Len(p) <= n /\ j + 1 \in 1 .. n
    BY <1>1
  <2>2. IsPrefix(p, SubSeq(s, j + 1, n))
    BY <1>3, <2>1, Window
  <2>3. QED
    BY <2>1, <2>2
<1>4. QED
  BY <1>2, <1>3 DEF Occurs

(* The verdict follows from the bytes received since the last request alone,     *)
(* never from what an earlier one left in the buffer                           *)
(* (wp_gateway.c:84-130), for any patterns and sizes of the buffer.            *)
THEOREM VerdictsAreOfReceived == SessionSpec => []VerdictFromReceived
<1> DEFINE GInv == SessionTypes /\ VerdictFromReceived
<1>1. SessionInit => GInv
  <2>1. Letter # {}
    BY GatewayConstants, EmptySeq, ElementOfSeq
  <2>2. QED
    BY <2>1, GatewayConstants DEF SessionInit, SessionTypes, VerdictFromReceived
<1>2. GInv /\ [SessionNext]_sessionVars => GInv'
  <2> SUFFICES ASSUME GInv, [SessionNext]_sessionVars PROVE GInv'
    OBVIOUS
  <2>1. CASE HandleClientIn
    <3> DEFINE s == SubSeq(Received, 1, ScanLen)
    <3>1. /\ c2u_len \in 0 .. BufferSize /\ BufferSize \in Nat /\ ScanLimit \in 0 .. BufferSize
          /\ ScanLen \in 0 .. c2u_len
      BY GatewayConstants DEF SessionTypes, ScanLen
    <3>2. /\ Received \in Seq(Letter) /\ Len(Received) = c2u_len
          /\ \A k \in 1 .. c2u_len : Received[k] = c2u_buf[k]
      <4>1. \A k \in 1 .. c2u_len : c2u_buf[k] \in Letter
        BY <3>1 DEF SessionTypes
      <4>2. QED
        BY <3>1, <4>1, SubSeqProperties DEF Received
    <3>3. /\ s \in Seq(Letter) /\ Len(s) = ScanLen
          /\ \A k \in 1 .. ScanLen : s[k] = c2u_buf[k]
      <4>1. \A k \in 1 .. ScanLen : Received[k] \in Letter /\ Received[k] = c2u_buf[k]
        BY <3>1, <3>2, ElementOfSeq
      <4>2. QED
        BY <3>1, <4>1, SubSeqProperties
    <3>4. ASSUME NEW p \in {Route, HttpVer} PROVE Found(p) <=> Occurs(p, s)
      <4>1. p \in Seq(Letter) /\ p # << >> /\ ScanLen \in Nat
        BY <3>1, GatewayConstants
      <4>2. Occurs(p, s) <=> \E i \in 0 .. ScanLen - Len(p) : MatchAt(p, i)
        <5> HIDE DEF s
        <5>1. QED
          BY <3>3, <4>1, Occurrence
      <4>3. QED
        BY <4>2 DEF Found
    <3>5. ASSUME NEW p \in {GetVerb, PostVerb}, c2u_len >= Len(p)
          PROVE MatchAt(p, 0) <=> IsPrefix(p, Received)
      <4>1. p \in Seq(Letter)
        BY GatewayConstants
      <4>2. \A k \in 1 .. Len(p) : c2u_buf[0 + k] = Received[k]
        BY <3>1, <3>2, <3>5, <4>1, LenProperties
      <4>3. QED
        BY <3>2, <3>5, <4>1, <4>2, PrefixIs DEF MatchAt
    <3>6. IsRequest <=> \/ IsPrefix(GetVerb, Received) /\ c2u_len > Len(GetVerb)
                        \/ IsPrefix(PostVerb, Received)
      <4>1. Len(GetVerb) \in Nat /\ Len(PostVerb) = Len(GetVerb) + 1
        BY GatewayConstants, LenProperties
      <4>2. IsPrefix(PostVerb, Received) => c2u_len > Len(GetVerb)
        BY <3>1, <3>2, <4>1 DEF IsPrefix
      <4>3. QED
        BY <3>1, <3>5, <4>1, <4>2 DEF IsRequest
    <3>7. QED
      BY <2>1, <3>4, <3>6
      DEF HandleClientIn, Send403, SessionTypes, VerdictFromReceived, Received, ScanLen
  <2>2. ASSUME NEW b \in Letter, ClientSends(b) PROVE GInv'
    BY <2>2, GatewayConstants DEF ClientSends, SessionTypes, VerdictFromReceived
  <2>3. CASE PumpUpstream
    BY <2>3, GatewayConstants DEF PumpUpstream, SessionTypes, VerdictFromReceived
  <2>4. CASE UpstreamReplies \/ UNCHANGED sessionVars
    BY <2>4
    DEF UpstreamReplies, sessionVars, SessionTypes, VerdictFromReceived, Received, ScanLen
  <2>5. QED
    BY <2>1, <2>2, <2>3, <2>4 DEF SessionNext
<1>3. QED
  BY <1>1, <1>2, PTL DEF SessionSpec

-----------------------------------------------------------------------------
(* The parts side by side *)

Whole == /\ [RoundNext]_roundVars /\ [LedgerNext]_ledgerVars /\ [UtxoNext]_utxoVars
         /\ [GovNext]_govVars /\ [SessionNext]_sessionVars /\ [SnapshotNext]_snapshotVars
         /\ [MigrationNext]_migrationVars /\ [SepNext]_sepVars /\ [CodecNext]_codecVars
         /\ [BridgeNext]_bridgeVars

LEMMA StepsOfParts == [NodeNext]_nodeVars => Whole
<1>1. CASE UNCHANGED nodeVars
  BY <1>1 DEF nodeVars, Whole
<1>2. CASE NodeNext
  BY <1>2 DEF NodeNext, Only, Keeps, Whole
<1>3. QED
  BY <1>1, <1>2

(* What is proved of a part holds of the node: every execution of the node is    *)
(* one of each of its parts, which share nothing.                             *)
THEOREM NodeRunsItsParts ==
  NodeSpec => /\ RoundSpec /\ LedgerSpec /\ UtxoSpec /\ GovSpec /\ SessionSpec
              /\ SnapshotSpec /\ MigrationSpec /\ SepSpec /\ CodecSpec /\ BridgeSpec
<1>1. NodeInit => /\ RoundInit /\ LedgerInit /\ UtxoInit /\ GovInit /\ SessionInit
                  /\ SnapshotInit /\ MigrationInit /\ SepInit /\ CodecInit /\ BridgeInit
  BY DEF NodeInit
<1>2. QED
  BY <1>1, StepsOfParts, PTL
  DEF NodeSpec, Whole, RoundSpec, LedgerSpec, UtxoSpec, GovSpec, SessionSpec, SnapshotSpec,
      MigrationSpec, SepSpec, CodecSpec, BridgeSpec

(* The supply is never negative, being a sum of balances.                     *)
LEMMA LedgerTypes == ASSUME ~SameAccount PROVE LedgerSpec => []LedgerTypeOK
<1> DEFINE Outputs == utxo_count \in [Account -> 0 .. CountTop]
<1>1. LedgerInit => Outputs
  BY LedgerConstants DEF LedgerInit
<1>2. Outputs /\ [LedgerNext]_ledgerVars => Outputs'
  BY LedgerConstants DEF LedgerNext, Credit, Debit, Transfer, WrapCount, ledgerVars
<1>3. Balances /\ Conserved /\ Outputs => LedgerTypeOK
  <2>1. Balances => Sum(balance, Account) \in Nat
    BY BalancesAdd, SumNatural
  <2>2. QED
    BY <2>1 DEF Balances, Conserved, LedgerTypeOK
<1>4. QED
  BY <1>1, <1>2, <1>3, LedgerInvariant, PTL DEF LedgerSpec

(* The words, tables, logs and tallies of the node stay in their ranges.        *)
THEOREM NodeTypes == ASSUME ~SameAccount PROVE NodeSpec => []NodeTypeOK
<1>1. RoundSpec => []RoundTypeOK
  BY RoundInvariant, PTL DEF RInv
<1>2. QED
  BY <1>1, NodeRunsItsParts, LedgerTypes, GovTypes, MigrationTypes, PTL DEF NodeTypeOK
=============================================================================
