------------------------------- MODULE MCPaxos -------------------------------
(***************************************************************************)
(* Small instances of PaxosSynod: two proposers that take turns in the     *)
(* order of their ballots.                                                 *)
(***************************************************************************)
EXTENDS PaxosSynod, TLC

CONSTANT MaxBallot

MCBallot == 1..MaxBallot
MCOwner == [b \in MCBallot |-> IF b % 2 = 1 THEN "p1" ELSE "p2"]
Symmetric == Permutations(Acceptor) \cup Permutations(Value)

Consensus == INSTANCE ConsensusChoice WITH chosen <- Chosen

\* The synod implements consensus: one value chosen, for good, and once it is, no
\* higher ballot proposes another; and what Multi-Paxos reads off the acceptors, who
\* leads and what is chosen, is true of the synod.
ImplementsConsensus == Consensus!Spec /\ [](OnlyChosenProposed /\ LogAnswers)
=============================================================================
