------------------------------ MODULE ByzantinePaxos ----------------------------
(***************************************************************************)
(* byzantine_paxos.c of mini-paxos-raft-formal: proposers that gather      *)
(* certificates of 2f + 1 replies.  Messages stay in the network, so they  *)
(* arrive late, twice or never.  Acceptors answer by their behaviour and   *)
(* remember nothing; that they accept what they are sent is the caller's.  *)
(***************************************************************************)
EXTENDS Integers, FiniteSets

CONSTANTS ByzAcceptor,   \* acceptors
          Liar,          \* the acceptor that may not follow the protocol
          ByzProposer,
          MaxBallot      \* bound: ballots proposers use

ASSUME ByzantinePaxosAssumption ==
  IsFiniteSet(ByzAcceptor) /\ Liar \in ByzAcceptor /\ MaxBallot \in Nat

VARIABLES behavior,      \* of each acceptor
          byzProposers,  \* ballot, prepare_cert and accept_cert of each, and the phase
          replies,       \* the messages to proposers sent so far
          finished       \* history: <<proposer, ballot, accept certificate>>

byzVars == <<behavior, byzProposers, replies, finished>>

\* n, and the faults that byzantine_nodes_sufficient allows it
Nodes == Cardinality(ByzAcceptor)
NodesSufficient(n, f) == n >= 3 * f + 1
MaxFaults(n) == IF n < 4 THEN 0 ELSE (n - 1) \div 3

QuorumOf(f) == 2 * f + 1
Liars == {a \in ByzAcceptor : behavior[a] # "OK"}

\* byzantine_acceptor_respond: a liar may raise the ballot, or invent a value that
\* no proposer looks at; a late or silent one sends what no proposer waits for.
Respond(a, b) ==
  [type |-> IF behavior[a] \in {"DELAY", "OMISSION"} THEN "PREPARE" ELSE "PROMISE",
   from |-> a, ballot |-> IF behavior[a] = "LYING_BALLOT" THEN b + 100 ELSE b]

\* BYZ_EQUIVOCATION answers as BYZ_OK does.
Behaviors == {"OK", "OMISSION", "LYING_BALLOT", "LYING_VALUE", "DELAY"}

ByzantinePaxosStart ==
  /\ behavior \in {[a \in ByzAcceptor |-> IF a = Liar THEN k ELSE "OK"] : k \in Behaviors}
  /\ byzProposers = [p \in ByzProposer |->
       [ballot |-> 0, prepare_cert |-> {}, accept_cert |-> {}, sent |-> FALSE]]
  /\ replies = {}
  /\ finished = {}

\* byzantine_paxos_prepare_send, and the acceptors that answer
PrepareSend(p, b) ==
  /\ b > byzProposers[p].ballot /\ b <= MaxBallot
  /\ \A q \in ByzProposer : byzProposers[q].ballot < b
  /\ byzProposers' = [byzProposers EXCEPT ![p].ballot = b, ![p].prepare_cert = {}, ![p].sent = FALSE]
  /\ replies' = replies \cup {Respond(a, b) : a \in ByzAcceptor}
  /\ UNCHANGED finished

\* byzantine_paxos_accept_send, called whenever a promise completes or exceeds the
\* quorum: it starts the accept certificate over.
Sending(prop, cert, f) ==
  IF Cardinality(cert) >= QuorumOf(f)
  THEN [prop EXCEPT !.prepare_cert = cert, !.accept_cert = {}, !.sent = TRUE]
  ELSE [prop EXCEPT !.prepare_cert = cert]

\* Mutant: a reply counts whatever its ballot.
FreshAnyBallot(prop, msg, type, cert) == msg.type = type /\ msg.from \notin cert

\* What both receive functions check first
Fresh(prop, msg, type, cert) ==
  msg.type = type /\ msg.ballot = prop.ballot /\ msg.from \notin cert

\* What acceptors answer to an accept; a silent one does not.
AcceptedReplies(prop) ==
  {[type |-> "ACCEPTED", from |-> a, ballot |-> prop.ballot] :
     a \in {a \in ByzAcceptor : behavior[a] # "OMISSION"}}

\* byzantine_paxos_prepare_receive
PrepareReceive(p, msg) ==
  LET prop == byzProposers[p]
      now == Sending(prop, prop.prepare_cert \cup {msg.from}, MaxFaults(Nodes))
  IN  /\ prop.ballot > 0 /\ Fresh(prop, msg, "PROMISE", prop.prepare_cert)
      /\ byzProposers' = [byzProposers EXCEPT ![p] = now]
      /\ replies' = IF now.sent THEN replies \cup AcceptedReplies(now) ELSE replies
      /\ UNCHANGED finished

\* byzantine_paxos_accept_receive
AcceptReceive(p, msg) ==
  LET prop == byzProposers[p]
      cert == prop.accept_cert \cup {msg.from}
  IN  /\ prop.ballot > 0 /\ Fresh(prop, msg, "ACCEPTED", prop.accept_cert)
      /\ byzProposers' = [byzProposers EXCEPT ![p].accept_cert = cert]
      /\ finished' = IF Cardinality(cert) >= QuorumOf(MaxFaults(Nodes))
                     THEN finished \cup {<<p, prop.ballot, cert>>} ELSE finished
      /\ UNCHANGED replies

ByzantinePaxosStep ==
  /\ \E p \in ByzProposer :
       \/ \E b \in 1 .. MaxBallot : PrepareSend(p, b)
       \/ \E msg \in replies : PrepareReceive(p, msg) \/ AcceptReceive(p, msg)
     /\ UNCHANGED behavior

--------------------------------------------------------------------------------
\* A proposal is finished by 2f + 1 acceptors that each answered it under that very
\* ballot, though a new prepare leaves the old accept certificate in place; no
\* acceptor that came late or kept silent ever helps to prepare, and one that lies
\* about ballots only once a proposer reaches the ballots it made up.  f is the
\* greatest number of faults the nodes suffice for; if they are just 3f + 1, any two
\* certificates share an acceptor that does not lie.
CertificatesSound ==
  LET f == MaxFaults(Nodes) IN
  /\ \A d \in finished :
       /\ Cardinality(d[3]) >= QuorumOf(f)
       /\ \A a \in d[3] : [type |-> "ACCEPTED", from |-> a, ballot |-> d[2]] \in replies
  /\ \A p \in ByzProposer : \A a \in byzProposers[p].prepare_cert :
       /\ behavior[a] \notin {"DELAY", "OMISSION"}
       /\ behavior[a] = "LYING_BALLOT" => byzProposers[p].ballot > 100
  /\ \A g \in 0 .. Nodes : NodesSufficient(Nodes, g) <=> g <= f
  /\ Nodes = 3 * f + 1 /\ Cardinality(Liars) <= f =>
       \A p \in ByzProposer, d \in finished :
         Cardinality(byzProposers[p].prepare_cert) >= QuorumOf(f) =>
           byzProposers[p].prepare_cert \cap (d[3] \ Liars) # {}
================================================================================
