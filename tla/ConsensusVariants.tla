---------------------------- MODULE ConsensusVariants ---------------------------
(***************************************************************************)
(* What mini-consensus-fault-tolerance offers beside each other, with the  *)
(* quorums and the Byzantine Paxos of mini-paxos-raft-formal: one of them  *)
(* is chosen, and the others keep still.                                   *)
(***************************************************************************)
EXTENDS CftRaft, DirectPaxos, PbftReplicas, ByzantineGenerals, QuorumSystems,
        ByzantinePaxos, NakamotoChain, MessageDelivery

VARIABLE variant     \* the system that runs

variantVars == <<variant, vars, paxosVars, pbftVars, generalsVars, quorumVars,
                 byzVars, nakamotoVars, deliveryVars>>

\* The sizes of the quorums: those that the tests build, their neighbours, and a
\* plane of a prime, of another and of a composite order.
Constructions ==
  {[kind |-> kind, size |-> n, faults |-> (n - 1) \div 3] :
     kind \in {"MAJORITY", "MASKING", "ALL"}, n \in 1 .. 7}
  \cup {[kind |-> "GRID", size |-> n, faults |-> 0] : n \in {2, 3}}
  \cup {[kind |-> "PLANE", size |-> n, faults |-> 0] : n \in {2, 3, 4}}

\* What the systems that do not run stand at
AnyCouncil == CHOOSE c \in Councils : TRUE
AnyQuorums == [kind |-> "MAJORITY", size |-> 1, faults |-> 0]

VariantsInit ==
  /\ variant \in {"RAFT", "PAXOS", "PBFT", "GENERALS", "QUORUMS", "BYZANTINE_PAXOS",
                  "NAKAMOTO", "DELIVERY"}
  /\ Init /\ PaxosStart /\ NakamotoStart /\ DeliveryStart
  /\ PbftStart /\ (variant = "PBFT" \/ concern = "VIEWS")
  /\ GeneralsStart /\ (variant = "GENERALS" \/ council = AnyCouncil)
  /\ QuorumsStart /\ (variant = "QUORUMS" \/ quorums = AnyQuorums)
  /\ ByzantinePaxosStart /\ (variant = "BYZANTINE_PAXOS" \/ behavior[Liar] = "OK")

RaftRuns == variant = "RAFT" /\ Next /\
  UNCHANGED <<paxosVars, pbftVars, generalsVars, quorumVars, byzVars, nakamotoVars, deliveryVars>>
PaxosRuns == variant = "PAXOS" /\ PaxosStep /\
  UNCHANGED <<vars, pbftVars, generalsVars, quorumVars, byzVars, nakamotoVars, deliveryVars>>
PbftRuns == variant = "PBFT" /\ PbftStep /\
  UNCHANGED <<vars, paxosVars, generalsVars, quorumVars, byzVars, nakamotoVars, deliveryVars>>
GeneralsRun == variant = "GENERALS" /\ GeneralsStep /\
  UNCHANGED <<vars, paxosVars, pbftVars, quorumVars, byzVars, nakamotoVars, deliveryVars>>
QuorumsRun == variant = "QUORUMS" /\ QuorumsStep /\
  UNCHANGED <<vars, paxosVars, pbftVars, generalsVars, byzVars, nakamotoVars, deliveryVars>>
ByzantinePaxosRuns == variant = "BYZANTINE_PAXOS" /\ ByzantinePaxosStep /\
  UNCHANGED <<vars, paxosVars, pbftVars, generalsVars, quorumVars, nakamotoVars, deliveryVars>>
NakamotoRuns == variant = "NAKAMOTO" /\ NakamotoStep /\
  UNCHANGED <<vars, paxosVars, pbftVars, generalsVars, quorumVars, byzVars, deliveryVars>>
DeliveryRuns == variant = "DELIVERY" /\ DeliveryStep /\
  UNCHANGED <<vars, paxosVars, pbftVars, generalsVars, quorumVars, byzVars, nakamotoVars>>

VariantsNext ==
  /\ \/ RaftRuns \/ PaxosRuns \/ PbftRuns \/ GeneralsRun \/ QuorumsRun
     \/ ByzantinePaxosRuns \/ NakamotoRuns \/ DeliveryRuns
  /\ UNCHANGED variant

VariantsSpec == VariantsInit /\ [][VariantsNext]_variantVars

--------------------------------------------------------------------------------
\* The tolerated faults are what the directory says: of the generals under oral and
\* signed messages, and of quorums, which meet and let a read see the last write.
FaultBoundsHold == [](FaultAnswers /\ QuorumsMeet) /\ ReadsLast

\* What is decided is decided by a quorum of one proposal and stays: in Paxos and
\* PBFT by direct calls and in Byzantine Paxos over its network.
DecisionsCertified == PaxosDecisionsStay /\ PbftQuorums /\ []CertificatesSound

\* Histories stay in order: blocks follow the blocks they were mined on, and messages
\* and entries are taken in the order they came.
HistoriesKept == [](BlocksLinked /\ QueueKeepsOrder) /\ ChainsImprove
================================================================================
