------------------------------ MODULE Quorums -------------------------------
(***************************************************************************)
(* The quorum size and the leader of a view, as verification/framac/        *)
(* wp_consensus.c and verification/cbmc/cbmc_consensus.c carry them, inside *)
(* the round of votes they are for: the leader of a view proposes, every    *)
(* validator votes, a value with bft_quorum votes is decided.  The round is *)
(* external (consensus.c is not in the tree): a correct leader proposes one *)
(* value and a correct validator votes once in a view; a faulty one may do  *)
(* anything.                                                               *)
(***************************************************************************)
EXTENDS Integers, FiniteSets

CONSTANTS
  Validator,   \* the validators, numbered from 0
  Faulty,      \* those that may propose and vote twice
  View, Value

N == Cardinality(Validator)

ASSUME QuorumConstants ==
  /\ IsFiniteSet(Validator) /\ Validator # {}
  /\ Validator = 0 .. N - 1
  /\ Faulty \subseteq Validator
  /\ 3 * Cardinality(Faulty) < N       \* n >= 3f + 1, cbmc_consensus.c:47
  /\ View \subseteq Nat \ {0}

VARIABLES
  proposed,   \* proposed[w]: the values the leader of view w proposed
  ballots,    \* ballots[w][v]: the validators that voted for v in view w
  decided     \* decided[w]: the values decided in view w

roundVars == <<proposed, ballots, decided>>

-----------------------------------------------------------------------------
(* Mutated: two thirds rounded down, without the one on top. *)
BftQuorumRounded(n) == IF n <= 1 THEN 1 ELSE IF n <= 3 THEN 2 ELSE (n * 2) \div 3

(* There are at most 256 validators (wp_consensus.c:80): n * 2 does not wrap.  *)
BftQuorum(n) == IF n <= 1 THEN 1 ELSE IF n <= 3 THEN 2 ELSE (n * 2) \div 3 + 1

(* Mutated: the view number used as it is divided, not what is left. *)
LeaderStuck(w, n) == ((w - 1) \div n) % n

Leader(w, n) == (w - 1) % n

-----------------------------------------------------------------------------
(* One round of votes *)

VotedIn(w, i) == \E v \in Value : i \in ballots[w][v]

Propose(w, v) ==
  /\ v \notin proposed[w]
  /\ Leader(w, N) \notin Faulty => proposed[w] = {}
  /\ proposed' = [proposed EXCEPT ![w] = @ \cup {v}]
  /\ UNCHANGED <<ballots, decided>>

Vote(i, w, v) ==
  /\ v \in proposed[w] /\ i \notin ballots[w][v]
  /\ i \notin Faulty => ~VotedIn(w, i)
  /\ ballots' = [ballots EXCEPT ![w][v] = @ \cup {i}]
  /\ UNCHANGED <<proposed, decided>>

Decide(w, v) ==
  /\ v \notin decided[w]
  /\ Cardinality(ballots[w][v]) >= BftQuorum(N)
  /\ decided' = [decided EXCEPT ![w] = @ \cup {v}]
  /\ UNCHANGED <<proposed, ballots>>

RoundInit ==
  /\ proposed = [w \in View |-> {}]
  /\ ballots = [w \in View |-> [v \in Value |-> {}]]
  /\ decided = [w \in View |-> {}]

RoundNext ==
  \E w \in View, v \in Value :
    Propose(w, v) \/ Decide(w, v) \/ \E i \in Validator : Vote(i, w, v)

RoundSpec == RoundInit /\ [][RoundNext]_roundVars

-----------------------------------------------------------------------------
(* Properties *)

RoundTypeOK ==
  /\ proposed \in [View -> SUBSET Value]
  /\ ballots \in [View -> [Value -> SUBSET Validator]]
  /\ decided \in [View -> SUBSET Value]

(* With fewer than a third of the validators faulty no view decides two     *)
(* values: any two quorums share a correct validator, which is what the     *)
(* supermajority of wp_consensus.c:63-103 is for; it holds for the smaller  *)
(* quorums of two and three validators too (wp_consensus.c:41-45).          *)
Agreement == \A w \in View : \A v1, v2 \in decided[w] : v1 = v2

(* A view whose leader proposed one value can be decided however the votes so  *)
(* far fell and whether or not the faulty validators ever vote: the votes cast *)
(* for it and those correct validators can still cast reach the quorum          *)
(* (cbmc_consensus.c:59-65).  And no validator waits for more than N views to   *)
(* lead one (cbmc_consensus.c:84-108).                                       *)
RoundCanFinish ==
  \A w \in View :
    /\ {Leader(w + k, N) : k \in 0 .. N - 1} = Validator
    /\ \A v \in Value : proposed[w] = {v} =>
         BftQuorum(N) <= Cardinality(ballots[w][v] \cup {i \in Validator \ Faulty : ~VotedIn(w, i)})
=============================================================================
