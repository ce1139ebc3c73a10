---------------------------- MODULE BlockchainFinality -------------------------
(***************************************************************************)
(* The finality rules of blockchain_consensus.c: Casper's justification    *)
(* and finalization of epochs, Tendermint's steps through rounds and       *)
(* heights, and an atomic swap.  (Probabilities are not modelled.)         *)
(***************************************************************************)
EXTENDS Integers, FiniteSets

CONSTANTS Validators,   \* validator_count, Tendermint's N
          MaxEpoch,     \* bound: epochs
          MaxHeight,    \* bound: heights
          MaxTmRound,   \* bound: rounds of one height
          Block         \* the blocks a proposer may propose

ASSUME FinalityAssumption ==
  /\ {Validators, MaxEpoch, MaxHeight, MaxTmRound} \subseteq Nat \ {0}

VARIABLES chain,              \* which of the three runs
          justified_epoch, finalized_epoch,
          justified,          \* history: the epochs that were justified
          height, tm_round, tm_step, proposed_block_hash, block_committed, committed_block_hash,
          precommitted,       \* history: the block two quorums of this round voted for
          swap

casperVars == <<justified_epoch, finalized_epoch, justified>>
tendermintVars == <<height, tm_round, tm_step, proposed_block_hash, block_committed,
                    committed_block_hash, precommitted>>
finalityVars == <<chain, casperVars, tendermintVars, swap>>

NoBlock == -1
MaxByzantine == (Validators - 1) \div 3
TmQuorum == 2 * MaxByzantine + 1

FinalityInit ==
  /\ chain \in {"CASPER", "TENDERMINT", "SWAP"}
  /\ justified_epoch = 0 /\ finalized_epoch = 0 /\ justified = {0}
  /\ height = 1 /\ tm_round = 0 /\ tm_step = "PROPOSE"
  /\ proposed_block_hash = 0 /\ block_committed = FALSE /\ committed_block_hash = NoBlock
  /\ precommitted = NoBlock
  /\ swap = [a |-> "LOCKED", b |-> "LOCKED"]

\* Mutant: a justified epoch is final at once.
FinalizesAtOnce(target) == target

\* What justifying target finalizes: the epoch before it, once more than one
\* epoch lies between it and the last finalized one.
Finalizes(target) ==
  IF target > finalized_epoch + 1 THEN target - 1 ELSE finalized_epoch

\* gasper_process_votes: two thirds of the votes justify a later epoch.
ProcessVotes(target, votes) ==
  /\ chain = "CASPER"
  /\ 3 * votes >= 2 * Validators
  /\ target > justified_epoch
  /\ justified_epoch' = target
  /\ justified' = justified \cup {target}
  /\ finalized_epoch' = Finalizes(target)
  /\ UNCHANGED <<chain, tendermintVars, swap>>

\* TENDERMINT_PROPOSE; a faulty proposer proposes NoBlock.
Propose ==
  /\ tm_step = "PROPOSE"
  /\ proposed_block_hash' \in Block \cup {NoBlock}
  /\ tm_step' = "PREVOTE"
  /\ UNCHANGED <<height, tm_round, block_committed, committed_block_hash, precommitted>>

\* TENDERMINT_PREVOTE and TENDERMINT_PRECOMMIT, where a quorum votes.
Voted(votes) ==
  /\ votes >= TmQuorum
  /\ \/ tm_step = "PREVOTE" /\ tm_step' = "PRECOMMIT" /\ UNCHANGED precommitted
     \/ tm_step = "PRECOMMIT" /\ tm_step' = "COMMIT" /\ precommitted' = proposed_block_hash
  /\ UNCHANGED <<height, tm_round, proposed_block_hash, block_committed, committed_block_hash>>

\* Mutant: a round without a quorum of precommits is tried again, not left.
RepeatPrecommit(votes) ==
  /\ votes < TmQuorum /\ tm_step \in {"PREVOTE", "PRECOMMIT"}
  /\ tm_step' = "PROPOSE"
  /\ UNCHANGED <<height, tm_round, proposed_block_hash, block_committed,
                 committed_block_hash, precommitted>>

\* The same, where no quorum votes: the next round begins.
NextTmRound(votes) ==
  /\ votes < TmQuorum /\ tm_step \in {"PREVOTE", "PRECOMMIT"}
  /\ tm_round < MaxTmRound
  /\ tm_round' = tm_round + 1
  /\ tm_step' = "PROPOSE"
  /\ UNCHANGED <<height, proposed_block_hash, block_committed, committed_block_hash, precommitted>>

\* Mutant: the next height keeps the round it is in.
CommitKeepsRound ==
  /\ tm_step = "COMMIT" /\ height < MaxHeight
  /\ block_committed' = TRUE /\ committed_block_hash' = proposed_block_hash
  /\ height' = height + 1 /\ tm_step' = "PROPOSE"
  /\ UNCHANGED <<tm_round, proposed_block_hash, precommitted>>

\* TENDERMINT_COMMIT; block_committed is never reset.
Commit ==
  /\ tm_step = "COMMIT" /\ height < MaxHeight
  /\ block_committed' = TRUE /\ committed_block_hash' = proposed_block_hash
  /\ height' = height + 1 /\ tm_round' = 0 /\ tm_step' = "PROPOSE"
  /\ UNCHANGED <<proposed_block_hash, precommitted>>

\* tendermint_step
TendermintStep ==
  /\ chain = "TENDERMINT"
  /\ Propose \/ Commit \/ \E votes \in 0 .. Validators : Voted(votes) \/ NextTmRound(votes)
  /\ UNCHANGED <<chain, casperVars, swap>>

\* htlc_atomic_swap_execute: Bob can only claim with what Alice's claim reveals.
Swap(alice_claims, bob_claims) ==
  /\ chain = "SWAP" /\ swap.b = "LOCKED"
  /\ swap' = [b |-> IF alice_claims THEN "CLAIMED" ELSE "REFUNDED",
              a |-> IF alice_claims /\ bob_claims THEN "CLAIMED" ELSE "REFUNDED"]
  /\ UNCHANGED <<chain, casperVars, tendermintVars>>

FinalityNext ==
  \/ \E target \in 1 .. MaxEpoch, votes \in 0 .. Validators : ProcessVotes(target, votes)
  \/ TendermintStep
  \/ \E alice_claims, bob_claims \in BOOLEAN : Swap(alice_claims, bob_claims)
================================================================================
