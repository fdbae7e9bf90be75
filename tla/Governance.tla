----------------------------- MODULE Governance -----------------------------
(***************************************************************************)
(* Casting and tallying votes on a proposal: has_voted, accumulate_vote,     *)
(* quorum_reached and approval_reached of verification/framac/               *)
(* wp_governance.c.  gov_cast_vote and gov_tally, which call them, are not   *)
(* in the tree and are external: a voter that has not voted casts its stake  *)
(* where the contract of accumulate_vote lets it, and a tally counts every   *)
(* ballot.  VoteTop is the largest word.                                    *)
(***************************************************************************)
EXTENDS Integers, FiniteSets, FiniteSetsExt, Sequences

CONSTANTS Voter, Stakes, VoteTop

ASSUME GovernanceConstants ==
  /\ IsFiniteSet(Voter)
  /\ VoteTop \in Nat /\ Stakes \subseteq 1 .. VoteTop

Choice == {"for", "against", "abstain"}
WrapVote(x) == x % (VoteTop + 1)

VARIABLES
  stake,    \* stake[v]: the weight of v's vote
  votes,    \* the ballots of the proposal, in the order they were cast
  tally     \* tally[c]: votes_for, votes_against, votes_abstain

govVars == <<stake, votes, tally>>

StakeOf(V) == MapThenSumSet(LAMBDA v : stake[v], V)
TotalStake == StakeOf(Voter)
TotalVotes == WrapVote(WrapVote(tally["for"] + tally["against"]) + tally["abstain"])

-----------------------------------------------------------------------------
(* Mutated: the last ballot is not looked at. *)
HasVotedButLast(v) == \E i \in 1 .. Len(votes) - 1 : votes[i].voter = v

HasVoted(v) == \E i \in 1 .. Len(votes) : votes[i].voter = v

AccumulateVote(c, weight) == tally' = [tally EXCEPT ![c] = WrapVote(@ + weight)]

(* What accumulate_vote assumes of the caller and does not check.           *)
FitsTally(c, weight) == tally[c] <= VoteTop - weight

CastVote(v, c) ==
  /\ ~HasVoted(v)
  /\ FitsTally(c, stake[v])
  /\ AccumulateVote(c, stake[v])
  /\ votes' = Append(votes, [voter |-> v, choice |-> c, weight |-> stake[v]])
  /\ UNCHANGED stake

QuorumReached(total, staked) == staked # 0 /\ total >= staked \div 10 + 1

(* Mutated: two thirds in place of 67 parts of 100. *)
ApprovalTwoThirds(for, total) == total # 0 /\ WrapVote(for * 3) >= WrapVote(total * 2)

ApprovalReached(for, total) == total # 0 /\ WrapVote(for * 100) >= WrapVote(total * 67)

Accepted == QuorumReached(TotalVotes, TotalStake) /\ ApprovalReached(tally["for"], TotalVotes)

GovInit ==
  /\ stake \in [Voter -> Stakes]
  /\ votes = << >>
  /\ tally = [c \in Choice |-> 0]

GovNext == \E v \in Voter, c \in Choice : CastVote(v, c)

GovSpec == GovInit /\ [][GovNext]_govVars

-----------------------------------------------------------------------------
(* Properties *)

GovTypeOK ==
  /\ stake \in [Voter -> Stakes]
  /\ Len(votes) <= Cardinality(Voter)
  /\ tally \in [Choice -> 0 .. VoteTop]

Behind(c) == {votes[i].voter : i \in {j \in 1 .. Len(votes) : votes[j].choice = c}}

(* Each tally is the stake behind its choice, every voter counted at most    *)
(* once and no sum wrapped, whatever the order of the ballots               *)
(* (wp_governance.c:79-167).                                                *)
TalliesAreStakes ==
  /\ \A c \in Choice : tally[c] = StakeOf(Behind(c))
  /\ \A c, d \in Choice : c # d => Behind(c) \cap Behind(d) = {}

(* A proposal is accepted only when a tenth of the stake voted and at least  *)
(* 67 of 100 parts of what voted were for it, and always when more than a    *)
(* tenth did, however the ballots were spread and as long as the stakes stay *)
(* under the bound approval_reached requires (wp_governance.c:169-197).      *)
(* Exactly a tenth is left open: wp_governance.c:175 refuses it,             *)
(* cbmc_overflow.c:116 says "10% quorum floor: votes >= total/10".          *)
AcceptedByMajority ==
  TotalStake <= VoteTop \div 100 =>
    LET cast == StakeOf(UNION {Behind(c) : c \in Choice})
        approved == 100 * StakeOf(Behind("for")) >= 67 * cast
    IN /\ Accepted => 10 * cast >= TotalStake /\ approved
       /\ 10 * cast > TotalStake /\ approved => Accepted
=============================================================================
