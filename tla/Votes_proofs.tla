----------------------------- MODULE Votes_proofs ----------------------------
(***************************************************************************)
(* Rounds of votes, for every finite number of validators of which fewer than  *)
(* a third are faulty: two quorums overlap in more validators than are faulty;  *)
(* a correct one of them would have voted twice.                              *)
(*                                                                         *)
(* Proposals, for every finite number of voters and any stakes: a tally is the  *)
(* stake behind its choice, because a ballot adds its voter to one side only.   *)
(***************************************************************************)
EXTENDS Quorums, Governance, Sums_proofs, SequenceTheorems

BallotsApart ==
  \A w \in View : \A v1, v2 \in Value :
    v1 # v2 => ballots[w][v1] \cap ballots[w][v2] \subseteq Faulty

DecidedHasQuorum ==
  \A w \in View : \A v \in decided[w] : Cardinality(ballots[w][v]) >= BftQuorum(N)

VotesAreForProposals ==
  \A w \in View : \A v \in Value : ballots[w][v] # {} => v \in proposed[w]

RInv == RoundTypeOK /\ BallotsApart /\ DecidedHasQuorum /\ VotesAreForProposals

-----------------------------------------------------------------------------
LEMMA Counts ==
  /\ N \in Nat \ {0}
  /\ IsFiniteSet(Faulty) /\ Cardinality(Faulty) \in Nat
  /\ \A V \in SUBSET Validator : IsFiniteSet(V) /\ Cardinality(V) \in Nat
<1>1. \A V \in SUBSET Validator : IsFiniteSet(V) /\ Cardinality(V) \in Nat
  BY QuorumConstants, FS_Subset, FS_CardinalityType
<1>2. Cardinality(Validator) # 0
  BY QuorumConstants, FS_EmptySet
<1>3. QED
  BY <1>1, <1>2, QuorumConstants DEF N

(* Twice a quorum exceeds the validators by more than the faulty ones.        *)
LEMMA QuorumsOverlap ==
  ASSUME NEW n \in Nat \ {0}, NEW f \in Nat, 3 * f < n
  PROVE  BftQuorum(n) \in Nat /\ 2 * BftQuorum(n) > n + f
BY DEF BftQuorum

(* The views that follow one another reach every remainder. *)
LEMMA Remainders ==
  ASSUME NEW n \in Nat \ {0}, NEW a \in Nat, NEW i \in 0 .. n - 1
  PROVE  \E k \in 0 .. n - 1 : (a + k) % n = i
<1> DEFINE q == a \div n
           r == a % n
<1>1. a = n * q + r /\ r \in 0 .. n - 1 /\ q \in Int
  OBVIOUS
<1>2. \A p \in Int : (n * p + i) % n = i
  OBVIOUS
<1>3. CASE i >= r
  <2>1. a + (i - r) = n * q + i /\ i - r \in 0 .. n - 1
    BY <1>1, <1>3
  <2>2. QED
    BY <1>1, <1>2, <2>1
<1>4. CASE i < r
  <2>1. a + (i - r + n) = n * (q + 1) + i /\ i - r + n \in 0 .. n - 1
    BY <1>1, <1>4
  <2>2. (n * (q + 1) + i) % n = i
    BY <1>1, <1>2
  <2>3. QED
    BY <2>1, <2>2
<1>5. QED
  BY <1>1, <1>3, <1>4

(* The correct validators alone are a quorum. *)
LEMMA QuorumReachable ==
  ASSUME NEW n \in Nat \ {0}, NEW f \in Nat, 3 * f < n
  PROVE  BftQuorum(n) <= n - f
BY DEF BftQuorum

LEMMA EveryoneLeads ==
  ASSUME NEW w \in View
  PROVE  {Leader(w + k, N) : k \in 0 .. N - 1} = Validator
<1>1. N \in Nat \ {0}
  BY Counts
<1>2. w - 1 \in Nat
  BY QuorumConstants
<1>3. \A k \in 0 .. N - 1 : Leader(w + k, N) = ((w - 1) + k) % N
  <2>1. \A k \in 0 .. N - 1 : (w + k) - 1 = (w - 1) + k
    BY <1>1, <1>2, QuorumConstants
  <2>2. QED
    BY <2>1 DEF Leader
<1>4. \A k \in 0 .. N - 1 : ((w - 1) + k) % N \in 0 .. N - 1
  BY <1>1, <1>2
<1>5. \A i \in 0 .. N - 1 : \E k \in 0 .. N - 1 : ((w - 1) + k) % N = i
  BY <1>1, <1>2, Remainders
<1>6. {Leader(w + k, N) : k \in 0 .. N - 1} = 0 .. N - 1
  BY <1>3, <1>4, <1>5
<1>7. QED
  BY <1>6, QuorumConstants

-----------------------------------------------------------------------------
LEMMA RoundInvariant == RoundSpec => []RInv
<1>1. RoundInit => RInv
  BY DEF RoundInit, RInv, RoundTypeOK, BallotsApart, DecidedHasQuorum, VotesAreForProposals
<1>2. RInv /\ [RoundNext]_roundVars => RInv'
  <2> SUFFICES ASSUME RInv, [RoundNext]_roundVars PROVE RInv'
    OBVIOUS
  <2>1. ASSUME NEW w \in View, NEW v \in Value, Propose(w, v) PROVE RInv'
    BY <2>1 DEF Propose, RInv, RoundTypeOK, BallotsApart, DecidedHasQuorum, VotesAreForProposals
  <2>2. ASSUME NEW w \in View, NEW v \in Value, Decide(w, v) PROVE RInv'
    BY <2>2 DEF Decide, RInv, RoundTypeOK, BallotsApart, DecidedHasQuorum, VotesAreForProposals
  <2>3. ASSUME NEW w \in View, NEW v \in Value, NEW i \in Validator, Vote(i, w, v) PROVE RInv'
    <3>1. /\ i \notin ballots[w][v]
          /\ i \notin Faulty => \A u \in Value : i \notin ballots[w][u]
          /\ ballots' = [ballots EXCEPT ![w][v] = @ \cup {i}]
          /\ UNCHANGED <<proposed, decided>>
      BY <2>3 DEF Vote, VotedIn
    <3>2. RoundTypeOK'
      BY <3>1 DEF RInv, RoundTypeOK
    <3>3. \A x \in View, u \in Value :
            ballots'[x][u] = IF x = w /\ u = v THEN ballots[w][v] \cup {i} ELSE ballots[x][u]
      BY <3>1 DEF RInv, RoundTypeOK
    <3>4. BallotsApart'
      BY <3>1, <3>3 DEF RInv, BallotsApart
    <3>5. DecidedHasQuorum'
      <4>1. \A x \in View, u \in Value :
              ballots[x][u] \in SUBSET Validator /\ ballots'[x][u] \in SUBSET Validator
        BY <3>2 DEF RInv, RoundTypeOK
      <4>2. \A x \in View, u \in Value :
              Cardinality(ballots'[x][u]) >= Cardinality(ballots[x][u])
        <5> SUFFICES ASSUME NEW x \in View, NEW u \in Value
                     PROVE  Cardinality(ballots'[x][u]) >= Cardinality(ballots[x][u])
          OBVIOUS
        <5>1. ballots[x][u] \subseteq ballots'[x][u]
          BY <3>3
        <5>2. IsFiniteSet(ballots'[x][u]) /\ IsFiniteSet(ballots[x][u])
          BY <4>1, Counts
        <5>3. Cardinality(ballots[x][u]) <= Cardinality(ballots'[x][u])
          BY <5>1, <5>2, FS_Subset
        <5>4. QED
          BY <5>3, <5>2, FS_CardinalityType
      <4>3. N \in Nat \ {0} /\ BftQuorum(N) \in Nat
        BY Counts, QuorumConstants, QuorumsOverlap
      <4>4. SUFFICES ASSUME NEW x \in View, NEW u \in decided'[x]
                     PROVE  Cardinality(ballots'[x][u]) >= BftQuorum(N)
        BY DEF DecidedHasQuorum
      <4>5. u \in Value /\ u \in decided[x]
        BY <3>1 DEF RInv, RoundTypeOK
      <4>6. /\ Cardinality(ballots[x][u]) >= BftQuorum(N)
            /\ Cardinality(ballots[x][u]) \in Nat /\ Cardinality(ballots'[x][u]) \in Nat
        BY <4>1, <4>5, Counts DEF RInv, DecidedHasQuorum
      <4>7. QED
        BY <4>2, <4>3, <4>5, <4>6
    <3>6. VotesAreForProposals'
      BY <2>3, <3>1, <3>3 DEF RInv, VotesAreForProposals, Vote
    <3>7. QED
      BY <3>2, <3>4, <3>5, <3>6 DEF RInv
  <2>4. CASE UNCHANGED roundVars
    BY <2>4 DEF roundVars, RInv, RoundTypeOK, BallotsApart, DecidedHasQuorum, VotesAreForProposals
  <2>5. QED
    BY <2>1, <2>2, <2>3, <2>4 DEF RoundNext
<1>3. QED
  BY <1>1, <1>2, PTL DEF RoundSpec

(* No view decides two values, whatever the number of validators, as long as   *)
(* fewer than a third of them are faulty (wp_consensus.c:63-103).              *)
THEOREM RoundsAgree == RoundSpec => []Agreement
<1>1. RInv => Agreement
  <2> SUFFICES ASSUME RInv, NEW w \in View, NEW v1 \in decided[w], NEW v2 \in decided[w],
                      v1 # v2
               PROVE  FALSE
    BY DEF Agreement
  <2> DEFINE A == ballots[w][v1]
             B == ballots[w][v2]
  <2>1. v1 \in Value /\ v2 \in Value /\ A \in SUBSET Validator /\ B \in SUBSET Validator
    BY DEF RInv, RoundTypeOK
  <2>2. A \cap B \subseteq Faulty
    BY <2>1 DEF RInv, BallotsApart
  <2>3. /\ IsFiniteSet(A) /\ IsFiniteSet(B) /\ IsFiniteSet(A \cup B) /\ IsFiniteSet(A \cap B)
        /\ Cardinality(A) \in Nat /\ Cardinality(B) \in Nat
        /\ Cardinality(A \cup B) \in Nat /\ Cardinality(A \cap B) \in Nat
    <3>1. A \cup B \in SUBSET Validator /\ A \cap B \in SUBSET Validator
      BY <2>1
    <3>2. QED
      BY <2>1, <3>1, Counts
  <2>4. Cardinality(A \cup B) = Cardinality(A) + Cardinality(B) - Cardinality(A \cap B)
    BY <2>3, FS_Union
  <2>5. Cardinality(A \cap B) <= Cardinality(Faulty)
    BY <2>2, Counts, FS_Subset
  <2>6. Cardinality(A \cup B) <= N
    <3>1. A \cup B \subseteq Validator
      BY <2>1
    <3>2. QED
      BY <3>1, QuorumConstants, FS_Subset DEF N
  <2>7. Cardinality(A) >= BftQuorum(N) /\ Cardinality(B) >= BftQuorum(N)
    BY DEF RInv, DecidedHasQuorum
  <2>8. /\ BftQuorum(N) \in Nat /\ 2 * BftQuorum(N) > N + Cardinality(Faulty)
        /\ N \in Nat /\ Cardinality(Faulty) \in Nat
    BY Counts, QuorumConstants, QuorumsOverlap
  <2>9. QED
    BY <2>3, <2>4, <2>5, <2>6, <2>7, <2>8
<1>2. QED
  BY <1>1, RoundInvariant, PTL

(* Silence of the faulty validators cannot keep a round from a decision, and     *)
(* no validator waits for more than N views to lead (cbmc_consensus.c:59-65,    *)
(* 84-108).                                                                *)
THEOREM RoundsCanFinish == RoundSpec => []RoundCanFinish
<1>1. RInv => RoundCanFinish
  <2> SUFFICES ASSUME RInv, NEW w \in View, NEW v \in Value, proposed[w] = {v}
               PROVE  BftQuorum(N) <= Cardinality(ballots[w][v] \cup {i \in Validator \ Faulty : ~VotedIn(w, i)})
    BY EveryoneLeads DEF RoundCanFinish
  <2> DEFINE S == ballots[w][v] \cup {i \in Validator \ Faulty : ~VotedIn(w, i)}
             C == Validator \ Faulty
  <2>1. C \subseteq S
    <3> SUFFICES ASSUME NEW i \in C, VotedIn(w, i) PROVE i \in ballots[w][v]
      OBVIOUS
    <3>1. PICK u \in Value : i \in ballots[w][u]
      BY DEF VotedIn
    <3>2. u = v
      BY <3>1 DEF RInv, VotesAreForProposals
    <3>3. QED
      BY <3>1, <3>2
  <2>2. S \in SUBSET Validator /\ C \in SUBSET Validator
    BY DEF RInv, RoundTypeOK
  <2>3. /\ IsFiniteSet(S) /\ IsFiniteSet(C)
        /\ Cardinality(S) \in Nat /\ Cardinality(C) \in Nat
    BY <2>2, Counts
  <2>4. Cardinality(C) <= Cardinality(S)
    BY <2>1, <2>3, FS_Subset
  <2>5. Cardinality(C) = N - Cardinality(Faulty)
    <3>1. Cardinality(C) = Cardinality(Validator) - Cardinality(Validator \cap Faulty)
      BY QuorumConstants, FS_Difference
    <3>2. Validator \cap Faulty = Faulty
      BY QuorumConstants
    <3>3. QED
      BY <3>1, <3>2 DEF N
  <2>6. BftQuorum(N) <= N - Cardinality(Faulty)
    BY Counts, QuorumConstants, QuorumReachable
  <2>7. BftQuorum(N) \in Nat /\ N \in Nat /\ Cardinality(Faulty) \in Nat
    BY Counts, QuorumConstants, QuorumsOverlap
  <2>8. BftQuorum(N) <= Cardinality(S)
    <3> HIDE DEF S, C
    <3>1. QED
      BY <2>3, <2>4, <2>5, <2>6, <2>7
  <2>9. QED
    BY <2>8
<1>2. QED
  BY <1>1, RoundInvariant, PTL

-----------------------------------------------------------------------------
(* Votes on a proposal *)

Ballot == [voter : Voter, choice : Choice, weight : Stakes]

Ballots ==
  /\ stake \in [Voter -> Stakes]
  /\ votes \in Seq(Ballot)
  /\ tally \in [Choice -> 0 .. VoteTop]

OneBallotEach ==
  \A i, j \in 1 .. Len(votes) : votes[i].voter = votes[j].voter => i = j

TallyIsSum == \A c \in Choice : tally[c] = Sum(stake, Behind(c))

VInv == Ballots /\ OneBallotEach /\ TallyIsSum

LEMMA StakeIsWord ==
  ASSUME stake \in [Voter -> Stakes], NEW v \in Voter
  PROVE  stake[v] \in Nat /\ stake[v] <= VoteTop /\ VoteTop \in Nat
<1>1. stake[v] \in Stakes /\ Stakes \subseteq 1 .. VoteTop /\ VoteTop \in Nat
  BY GovernanceConstants
<1>2. stake[v] \in 1 .. VoteTop
  BY <1>1
<1>3. QED
  BY <1>1, <1>2

LEMMA StakesAdd ==
  ASSUME stake \in [Voter -> Stakes], NEW V \in SUBSET Voter
  PROVE  Natural(stake, V) /\ Summable(stake, V)
<1>1. \A v \in V : stake[v] \in Nat
  BY StakeIsWord
<1>2. IsFiniteSet(V)
  BY PartsFinite, GovernanceConstants
<1>3. QED
  BY <1>1, <1>2 DEF Natural, Summable

LEMMA BehindAreVoters ==
  ASSUME votes \in Seq(Ballot), NEW c
  PROVE  Behind(c) \in SUBSET Voter
<1>1. \A i \in 1 .. Len(votes) : votes[i] \in Ballot
  BY ElementOfSeq
<1>2. \A i \in 1 .. Len(votes) : votes[i].voter \in Voter
  BY <1>1 DEF Ballot
<1>3. QED
  BY <1>2 DEF Behind

LEMMA CastAddsVoter ==
  ASSUME votes \in Seq(Ballot), stake \in [Voter -> Stakes],
         NEW v \in Voter, NEW c \in Choice, CastVote(v, c)
  PROVE  /\ votes' \in Seq(Ballot) /\ Len(votes') = Len(votes) + 1
         /\ \A i \in 1 .. Len(votes) : votes'[i] = votes[i]
         /\ votes'[Len(votes) + 1].voter = v /\ votes'[Len(votes) + 1].choice = c
         /\ \A i \in 1 .. Len(votes) : votes[i].voter # v
<1> DEFINE b == [voter |-> v, choice |-> c, weight |-> stake[v]]
<1>1. votes' = Append(votes, b) /\ b \in Ballot
  BY DEF CastVote, Ballot
<1>2. b.voter = v /\ b.choice = c
  OBVIOUS
<1> HIDE DEF b
<1>3. /\ votes' \in Seq(Ballot) /\ Len(votes') = Len(votes) + 1
      /\ \A i \in 1 .. Len(votes) : votes'[i] = votes[i]
      /\ votes'[Len(votes) + 1] = b
  BY <1>1, AppendProperties
<1>4. QED
  BY <1>2, <1>3 DEF CastVote, HasVoted

LEMMA CastKeepsTallies ==
  ASSUME VInv, NEW v \in Voter, NEW c \in Choice, CastVote(v, c)
  PROVE  VInv'
<1> DEFINE n == Len(votes)
<1>1. /\ votes' \in Seq(Ballot) /\ Len(votes') = n + 1 /\ n \in Nat
      /\ \A i \in 1 .. n : votes'[i] = votes[i] /\ votes[i].voter # v
      /\ votes'[n + 1].voter = v /\ votes'[n + 1].choice = c
  BY CastAddsVoter, LenProperties DEF VInv, Ballots
<1>2. \A i \in 1 .. n + 1 : i \in 1 .. n \/ i = n + 1
  BY <1>1
<1>3. OneBallotEach'
  BY <1>1, <1>2 DEF VInv, OneBallotEach
<1>4. Behind(c)' = Behind(c) \cup {v} /\ v \notin Behind(c)
  BY <1>1, <1>2 DEF Behind
<1>5. ASSUME NEW d \in Choice, d # c PROVE Behind(d)' = Behind(d)
  BY <1>1, <1>2, <1>5 DEF Behind
<1>6. /\ stake' = stake /\ stake[v] \in Nat /\ stake[v] <= VoteTop /\ VoteTop \in Nat
      /\ tally[c] \in Nat /\ tally[c] <= VoteTop - stake[v]
  <2>1. stake' = stake /\ tally[c] <= VoteTop - stake[v]
    BY DEF CastVote, FitsTally
  <2>2. tally[c] \in 0 .. VoteTop
    BY DEF VInv, Ballots
  <2>3. QED
    BY <2>1, <2>2, StakeIsWord DEF VInv, Ballots
<1>7. tally[c] + stake[v] \in 0 .. VoteTop /\ (tally[c] + stake[v]) % (VoteTop + 1) = tally[c] + stake[v]
  BY <1>6
<1>8. tally' = [tally EXCEPT ![c] = tally[c] + stake[v]]
  BY <1>7 DEF CastVote, AccumulateVote, WrapVote
<1>9. Ballots'
  BY <1>1, <1>6, <1>7, <1>8 DEF VInv, Ballots
<1>10. Sum(stake, Behind(c) \cup {v}) = stake[v] + Sum(stake, Behind(c))
  BY <1>4, <1>6, BehindAreVoters, StakesAdd, SumAdd DEF VInv, Ballots
<1>11. ASSUME NEW d \in Choice PROVE tally'[d] = Sum(stake', Behind(d)')
  <2>1. tally'[c] = tally[c] + stake[v] /\ tally[c] = Sum(stake, Behind(c))
    BY <1>8 DEF VInv, Ballots, TallyIsSum
  <2>2. tally'[c] = Sum(stake', Behind(c)')
    <3>1. Sum(stake', Behind(c)') = Sum(stake, Behind(c) \cup {v})
      BY <1>4, <1>6
    <3>2. tally[c] \in Int /\ stake[v] \in Int
      BY <1>6
    <3>3. QED
      BY <1>10, <2>1, <3>1, <3>2
  <2>3. CASE d # c
    BY <1>5, <1>6, <1>8, <2>3 DEF VInv, Ballots, TallyIsSum
  <2>4. QED
    BY <2>2, <2>3
<1>12. QED
  BY <1>3, <1>9, <1>11 DEF VInv, TallyIsSum

LEMMA GovInvariant == GovSpec => []VInv
<1>1. GovInit => VInv
  <2> SUFFICES ASSUME GovInit PROVE VInv
    OBVIOUS
  <2>1. votes = << >> /\ Len(votes) = 0 /\ votes \in Seq(Ballot)
    BY EmptySeq DEF GovInit
  <2>2. \A c \in Choice : Behind(c) = {}
    BY <2>1 DEF Behind
  <2>3. \A c \in Choice : tally[c] = 0 /\ Sum(stake, Behind(c)) = 0
    BY <2>2, SumEmpty DEF GovInit
  <2>4. Ballots
    BY <2>1, GovernanceConstants DEF GovInit, Ballots
  <2>5. OneBallotEach
    BY <2>1 DEF OneBallotEach
  <2>6. QED
    BY <2>3, <2>4, <2>5 DEF VInv, TallyIsSum
<1>2. VInv /\ [GovNext]_govVars => VInv'
  <2> SUFFICES ASSUME VInv, [GovNext]_govVars PROVE VInv'
    OBVIOUS
  <2>1. CASE UNCHANGED govVars
    BY <2>1 DEF govVars, VInv, Ballots, OneBallotEach, TallyIsSum, Behind
  <2>2. QED
    BY <2>1, CastKeepsTallies DEF GovNext
<1>3. QED
  BY <1>1, <1>2, PTL DEF GovSpec

LEMMA SidesApart ==
  ASSUME VInv
  PROVE  \A c, d \in Choice : c # d => Behind(c) \cap Behind(d) = {}
BY DEF VInv, OneBallotEach, Behind

(* Each tally is the stake behind its choice, every voter counted at most once    *)
(* and no sum wrapped, whatever the order of the ballots                        *)
(* (wp_governance.c:79-167).                                                   *)
THEOREM TalliesAreTrue == GovSpec => []TalliesAreStakes
<1>1. VInv => TalliesAreStakes
  BY SidesApart DEF VInv, TallyIsSum, TalliesAreStakes, StakeOf, Sum
<1>2. QED
  BY <1>1, GovInvariant, PTL

(* The two thresholds in words that do not wrap. *)
LEMMA Thresholds ==
  ASSUME NEW f \in Nat, NEW total \in Nat, NEW staked \in Nat,
         f <= total, total <= staked, staked <= VoteTop \div 100
  PROVE  QuorumReached(total, staked) /\ ApprovalReached(f, total)
           <=> 10 * total > staked /\ 100 * f >= 67 * total
<1>1. VoteTop \in Nat /\ 100 * staked <= VoteTop
  BY GovernanceConstants
<1>2. WrapVote(f * 100) = 100 * f
  <2>1. f * 100 \in 0 .. VoteTop
    BY <1>1
  <2>2. QED
    BY <1>1, <2>1 DEF WrapVote
<1>3. WrapVote(total * 67) = 67 * total
  <2>1. total * 67 \in 0 .. VoteTop
    BY <1>1
  <2>2. QED
    BY <1>1, <2>1 DEF WrapVote
<1>4. total >= staked \div 10 + 1 <=> 10 * total > staked
  OBVIOUS
<1>5. 10 * total > staked => staked # 0 /\ total # 0
  OBVIOUS
<1>6. QED
  BY <1>2, <1>3, <1>4, <1>5 DEF QuorumReached, ApprovalReached

(* A proposal is accepted only when a tenth of the stake voted and at least 67   *)
(* of 100 parts of what voted were for it, and always when more than a tenth     *)
(* did, as long as the stakes stay under the bound approval_reached requires     *)
(* (wp_governance.c:169-197).  The code draws the line above a tenth (<2>9); the *)
(* property leaves the tenth itself open, where cbmc_overflow.c:116 disagrees.   *)
THEOREM AcceptanceIsMajority == GovSpec => []AcceptedByMajority
<1>1. VInv => AcceptedByMajority
  <2> DEFINE F == Behind("for")
             A == Behind("against")
             B == Behind("abstain")
             T == Sum(stake, Voter)
             cast == Sum(stake, (F \cup A) \cup B)
  <2> SUFFICES ASSUME VInv, T <= VoteTop \div 100
               PROVE  /\ Accepted => 10 * cast >= T /\ 100 * Sum(stake, F) >= 67 * cast
                      /\ 10 * cast > T /\ 100 * Sum(stake, F) >= 67 * cast => Accepted
    <3>1. UNION {Behind(c) : c \in Choice} = (F \cup A) \cup B
      BY DEF Choice
    <3>2. QED
      BY <3>1 DEF AcceptedByMajority, TotalStake, StakeOf, Sum
  <2>1. F \in SUBSET Voter /\ A \in SUBSET Voter /\ B \in SUBSET Voter
    BY BehindAreVoters DEF VInv, Ballots
  <2>2. F \cap A = {} /\ (F \cup A) \cap B = {}
    BY SidesApart DEF Choice
  <2>3. cast = (Sum(stake, F) + Sum(stake, A)) + Sum(stake, B)
    <3>1. /\ Summable(stake, F) /\ Summable(stake, A) /\ Summable(stake, B)
          /\ Summable(stake, F \cup A)
      BY <2>1, StakesAdd DEF VInv, Ballots
    <3>2. Sum(stake, F \cup A) = Sum(stake, F) + Sum(stake, A)
      BY <2>2, <3>1, SumUnion
    <3>3. QED
      BY <2>2, <3>1, <3>2, SumUnion
  <2>4. /\ Sum(stake, F) \in Nat /\ Sum(stake, A) \in Nat /\ Sum(stake, B) \in Nat
        /\ cast \in Nat /\ T \in Nat /\ cast <= T
    <3>1. (F \cup A) \cup B \in SUBSET Voter /\ Natural(stake, Voter)
      BY <2>1, StakesAdd DEF VInv, Ballots
    <3>2. QED
      BY <2>1, <3>1, SumGrows
  <2>5. VoteTop \in Nat /\ T <= VoteTop
    BY <2>4, GovernanceConstants
  <2>6. TotalVotes = cast
    <3>1. /\ tally["for"] = Sum(stake, F) /\ tally["against"] = Sum(stake, A)
          /\ tally["abstain"] = Sum(stake, B)
      BY DEF VInv, TallyIsSum, Choice
    <3> DEFINE f == Sum(stake, F)
               a == Sum(stake, A)
               b == Sum(stake, B)
    <3>2. (f + a) % (VoteTop + 1) = f + a /\ ((f + a) + b) % (VoteTop + 1) = (f + a) + b
      <4> HIDE DEF f, a, b, cast, T
      <4>1. f \in Nat /\ a \in Nat /\ b \in Nat /\ (f + a) + b <= VoteTop
        BY <2>3, <2>4, <2>5 DEF f, a, b
      <4>2. QED
        BY <2>5, <4>1
    <3>3. QED
      BY <2>3, <3>1, <3>2 DEF TotalVotes, WrapVote
  <2>7. Sum(stake, F) <= cast
    BY <2>3, <2>4
  <2>8. tally["for"] = Sum(stake, F) /\ TotalStake = T
    BY DEF VInv, TallyIsSum, Choice, TotalStake, StakeOf, Sum
  <2>9. Accepted <=> 10 * cast > T /\ 100 * Sum(stake, F) >= 67 * cast
    <3> HIDE DEF cast, T, F
    <3>1. QED
      BY <2>4, <2>6, <2>7, <2>8, Thresholds DEF Accepted
  <2>10. QED
    <3> HIDE DEF cast, T, F
    <3>1. QED
      BY <2>4, <2>9
<1>2. QED
  BY <1>1, GovInvariant, PTL

(* There are as many ballots as voters that cast one.                        *)
Voted == {votes[i].voter : i \in 1 .. Len(votes)}

OnePerVoter ==
  /\ Voted \subseteq Voter /\ IsFiniteSet(Voted) /\ Cardinality(Voted) = Len(votes)

LEMMA BallotsCounted == GovSpec => []OnePerVoter
<1>1. GovInit => OnePerVoter
  <2> SUFFICES ASSUME GovInit PROVE OnePerVoter
    OBVIOUS
  <2>1. Len(votes) = 0
    BY DEF GovInit
  <2>2. Voted = {}
    BY <2>1 DEF Voted
  <2>3. QED
    BY <2>1, <2>2, FS_EmptySet DEF OnePerVoter
<1>2. VInv /\ OnePerVoter /\ [GovNext]_govVars => OnePerVoter'
  <2> SUFFICES ASSUME VInv, OnePerVoter, [GovNext]_govVars PROVE OnePerVoter'
    OBVIOUS
  <2>1. CASE UNCHANGED govVars
    BY <2>1 DEF govVars, OnePerVoter, Voted
  <2>2. ASSUME NEW v \in Voter, NEW c \in Choice, CastVote(v, c) PROVE OnePerVoter'
    <3>1. /\ Len(votes') = Len(votes) + 1 /\ Len(votes) \in Nat
          /\ \A i \in 1 .. Len(votes) : votes'[i] = votes[i] /\ votes[i].voter # v
          /\ votes'[Len(votes) + 1].voter = v
      BY <2>2, CastAddsVoter, LenProperties DEF VInv, Ballots
    <3>2. Voted' = Voted \cup {v} /\ v \notin Voted
      BY <3>1 DEF Voted
    <3>3. Cardinality(Voted \cup {v}) = Len(votes) + 1 /\ IsFiniteSet(Voted \cup {v})
      BY <3>2, FS_AddElement DEF OnePerVoter
    <3>4. QED
      BY <3>1, <3>2, <3>3 DEF OnePerVoter
  <2>3. QED
    BY <2>1, <2>2 DEF GovNext
<1>3. QED
  BY <1>1, <1>2, GovInvariant, PTL DEF GovSpec

(* Nobody votes twice, so the list of ballots never outgrows the voters, and no   *)
(* tally outgrows its word (wp_governance.c:79-131).                           *)
LEMMA GovTypes == GovSpec => []GovTypeOK
<1>1. VInv /\ OnePerVoter => GovTypeOK
  <2> SUFFICES ASSUME VInv, OnePerVoter PROVE GovTypeOK
    OBVIOUS
  <2>1. Cardinality(Voted) <= Cardinality(Voter)
    BY GovernanceConstants, FS_Subset DEF OnePerVoter
  <2>2. QED
    BY <2>1 DEF VInv, Ballots, OnePerVoter, GovTypeOK
<1>2. QED
  BY <1>1, GovInvariant, BallotsCounted, PTL
=============================================================================
