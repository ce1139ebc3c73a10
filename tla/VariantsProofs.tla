------------------------------ MODULE VariantsProofs ----------------------------
(***************************************************************************)
(* The variants keep what they decide, and in order what they take, with   *)
(* any number of processes: each from an invariant of its own variables,   *)
(* which the others leave alone.  Byzantine Paxos: what the certificates   *)
(* say was really answered.  PBFT: the counters stand for the replicas     *)
(* that raised them until the window moves.  Paxos: the numbers that were  *)
(* promised and accepted tell of what was chosen before.  The queue: its   *)
(* ring holds what is pending.  The chains: each block names the one below.*)
(***************************************************************************)
EXTENDS ConsensusVariants, FiniteSetTheorems, NaturalsInduction, SequenceTheorems, WellFoundedInduction, TLAPS

--------------------------------------------------------------------------------
\* Each variant takes a step of its own or stands still.
LEMMA VariantSteps ==
  ASSUME [VariantsNext]_variantVars
  PROVE  /\ ByzantinePaxosStep \/ UNCHANGED byzVars
         /\ PbftStep \/ UNCHANGED pbftVars
         /\ PaxosStep \/ UNCHANGED paxosVars
         /\ NakamotoStep \/ UNCHANGED nakamotoVars
         /\ DeliveryStep \/ UNCHANGED deliveryVars
         /\ QuorumsStep \/ UNCHANGED quorumVars
         /\ GeneralsStep \/ UNCHANGED generalsVars
<1>1. CASE VariantsNext
  BY <1>1 DEF VariantsNext, RaftRuns, PaxosRuns, PbftRuns, GeneralsRun, QuorumsRun,
              ByzantinePaxosRuns, NakamotoRuns, DeliveryRuns
<1>2. CASE UNCHANGED variantVars
  BY <1>2 DEF variantVars
<1> QED
  BY <1>1, <1>2

\* Finite sets of one set that are large enough meet in as many members as they exceed it.
LEMMA SharedMembers ==
  ASSUME NEW U, IsFiniteSet(U), NEW A \in SUBSET U, NEW B \in SUBSET U
  PROVE  /\ IsFiniteSet(A \cap B) /\ Cardinality(A \cap B) \in Nat
         /\ Cardinality(A \cap B) >= Cardinality(A) + Cardinality(B) - Cardinality(U)
<1>1. IsFiniteSet(A) /\ IsFiniteSet(B) /\ IsFiniteSet(A \cup B) /\ IsFiniteSet(A \cap B)
  BY FS_Subset
<1>2. Cardinality(A \cup B) = Cardinality(A) + Cardinality(B) - Cardinality(A \cap B)
  BY <1>1, FS_Union
<1>3. Cardinality(A \cup B) <= Cardinality(U)
  BY FS_Subset
<1> QED
  BY <1>1, <1>2, <1>3, FS_CardinalityType

\* A non-empty set of naturals has a least member.
LEMMA SmallestMember ==
  ASSUME NEW T, T \subseteq Nat, T # {}
  PROVE  \E x \in T : \A y \in T : x <= y
<1>1. PICK x \in T : \A y \in T : ~ (<<y, x>> \in OpToRel(<, Nat))
  BY WFMin, NatLessThanWellFounded
<1>2. \A y \in T : ~ (y < x)
  BY <1>1 DEF OpToRel
<1> QED
  BY <1>2

\* What holds at 0 and passes from each number to the next holds up to n.
LEMMA UpTo ==
  ASSUME NEW n \in Nat, NEW Good, 0 \in Good,
         \A k \in 1 .. n : k - 1 \in Good => k \in Good
  PROVE  \A k \in 0 .. n : k \in Good
<1> DEFINE Bad == {k \in 0 .. n : k \notin Good}
<1> SUFFICES ASSUME Bad # {} PROVE FALSE
  OBVIOUS
<1>1. PICK k \in Bad : \A y \in Bad : k <= y
  <2>1. Bad \subseteq Nat
    OBVIOUS
  <2> HIDE DEF Bad
  <2> QED
    BY <2>1, SmallestMember
<1>2. k \in 1 .. n /\ k \notin Good
  OBVIOUS
<1>3. k - 1 \in Bad
  BY <1>2
<1> QED
  BY <1>1, <1>2, <1>3

\* f starts at a and makes n steps, each by a function on S.
StepsOn(S, n) == [1 .. n -> [S -> S]]

Unfolds(f, S, a, n, G) ==
  f \in [0 .. n -> S] /\ f[0] = a /\ \A k \in 1 .. n : f[k] = G[k][f[k - 1]]

\* A recursion on 0 .. n whose steps stay in S defines a function into S.
LEMMA Recursion ==
  ASSUME NEW S, NEW a \in S, NEW n \in Nat, NEW G \in StepsOn(S, n)
  PROVE  \E f : Unfolds(f, S, a, n, G)
<1> USE DEF StepsOn
<1> DEFINE Good == {m \in 0 .. n : \E f \in [0 .. m -> S] :
                      /\ f[0] = a
                      /\ \A k \in 1 .. m : f[k] = G[k][f[k - 1]]}
<1>1. 0 \in Good
  <2> DEFINE c == [k \in 0 .. 0 |-> a]
  <2>1. c \in [0 .. 0 -> S] /\ c[0] = a /\ 0 \in 0 .. n
    OBVIOUS
  <2>2. 1 .. 0 = {}
    OBVIOUS
  <2> HIDE DEF c
  <2> QED
    BY <2>1, <2>2
<1>2. ASSUME NEW m \in 1 .. n, m - 1 \in Good PROVE m \in Good
  <2>1. PICK f \in [0 .. m - 1 -> S] : /\ f[0] = a
                                       /\ \A k \in 1 .. m - 1 : f[k] = G[k][f[k - 1]]
    BY <1>2
  <2> DEFINE h == [k \in 0 .. m |-> IF k = m THEN G[m][f[m - 1]] ELSE f[k]]
  <2>2. G[m][f[m - 1]] \in S
    OBVIOUS
  <2>3. h \in [0 .. m -> S]
    BY <2>2
  <2>4. h[0] = a
    BY <2>1
  <2>5. ASSUME NEW k \in 1 .. m PROVE h[k] = G[k][h[k - 1]]
    <3>1. CASE k = m
      BY <3>1
    <3>2. CASE k # m
      <4>1. k \in 1 .. m - 1 /\ k - 1 \in 0 .. m - 1 /\ k - 1 # m
        BY <3>2
      <4>2. h[k] = f[k] /\ h[k - 1] = f[k - 1]
        BY <3>2, <4>1
      <4> QED
        BY <2>1, <4>1, <4>2
    <3> QED
      BY <3>1, <3>2
  <2>6. m \in 0 .. n
    OBVIOUS
  <2> HIDE DEF h
  <2> QED
    BY <2>3, <2>4, <2>5, <2>6
<1>3. n \in Good
  <2>1. \A k \in 1 .. n : k - 1 \in Good => k \in Good
    BY <1>2
  <2>2. n \in 0 .. n
    OBVIOUS
  <2> HIDE DEF Good
  <2>3. \A k \in 0 .. n : k \in Good
    BY <1>1, <2>1, UpTo
  <2> QED
    BY <2>2, <2>3
<1> QED
  BY <1>3 DEF Good, Unfolds

--------------------------------------------------------------------------------
Reply == [type : {"PREPARE", "PROMISE", "ACCEPTED"}, from : ByzAcceptor, ballot : Nat]
ByzPhase == [ballot : Nat, prepare_cert : SUBSET ByzAcceptor,
             accept_cert : SUBSET ByzAcceptor, sent : BOOLEAN]

ByzTyped ==
  /\ behavior \in [ByzAcceptor -> Behaviors]
  /\ byzProposers \in [ByzProposer -> ByzPhase]
  /\ replies \subseteq Reply
  /\ finished \subseteq ByzProposer \X Nat \X SUBSET ByzAcceptor

\* A ballot that is in use has one proposer.
BallotsOwned ==
  \A p, q \in ByzProposer :
    byzProposers[p].ballot = byzProposers[q].ballot /\ byzProposers[p].ballot > 0 => p = q

\* Who promises shows how it behaves.
PromisesTell ==
  \A msg \in replies : msg.type = "PROMISE" =>
    /\ behavior[msg.from] \notin {"DELAY", "OMISSION"}
    /\ behavior[msg.from] = "LYING_BALLOT" => msg.ballot > 100

\* Acceptances are of ballots that were begun.
AcceptedBegun ==
  \A msg \in replies : msg.type = "ACCEPTED" =>
    \E p \in ByzProposer : msg.ballot <= byzProposers[p].ballot

Answered(type, cert, b) == \A a \in cert : [type |-> type, from |-> a, ballot |-> b] \in replies

\* The prepare certificate is of the current ballot, and so is the accept
\* certificate once anyone accepted that ballot; before, it is the last one's.
CertificatesCurrent ==
  \A p \in ByzProposer :
    LET prop == byzProposers[p] IN
    /\ Answered("PROMISE", prop.prepare_cert, prop.ballot)
    /\ prop.sent => Cardinality(prop.prepare_cert) >= QuorumOf(MaxFaults(Nodes))
    /\ (\E msg \in replies : msg.type = "ACCEPTED" /\ msg.ballot = prop.ballot) =>
         Answered("ACCEPTED", prop.accept_cert, prop.ballot)

FinishedStand ==
  \A d \in finished :
    /\ Cardinality(d[3]) >= QuorumOf(MaxFaults(Nodes))
    /\ Answered("ACCEPTED", d[3], d[2])

ByzInv == ByzTyped /\ BallotsOwned /\ PromisesTell /\ AcceptedBegun /\ CertificatesCurrent /\ FinishedStand

\* The number of nodes, the faults tolerated and the quorum are numbers, and the
\* greatest number of faults tolerated is what it says.
LEMMA FaultNumbers ==
  LET f == MaxFaults(Nodes) IN
  /\ Nodes \in Nat /\ Nodes > 0 /\ f \in Nat /\ QuorumOf(f) \in Nat
  /\ QuorumOf(f) = 2 * f + 1
  /\ \A g \in 0 .. Nodes : NodesSufficient(Nodes, g) <=> g <= f
<1>1. Nodes \in Nat /\ Nodes > 0
  BY ByzantinePaxosAssumption, FS_CardinalityType, FS_EmptySet DEF Nodes
<1>2. MaxFaults(Nodes) \in Nat
  BY <1>1 DEF MaxFaults
<1>3. \A g \in 0 .. Nodes : NodesSufficient(Nodes, g) <=> g <= MaxFaults(Nodes)
  BY <1>1 DEF MaxFaults, NodesSufficient
<1> QED
  BY <1>1, <1>2, <1>3 DEF QuorumOf

\* What the acceptors answer to a prepare
LEMMA ResponseTells ==
  ASSUME ByzTyped, NEW a \in ByzAcceptor, NEW b \in Nat
  PROVE  /\ Respond(a, b) \in Reply /\ Respond(a, b).type # "ACCEPTED"
         /\ Respond(a, b).from = a
         /\ Respond(a, b).type = "PROMISE" =>
              /\ behavior[a] \notin {"DELAY", "OMISSION"}
              /\ behavior[a] = "LYING_BALLOT" => Respond(a, b).ballot > 100 \/ b = 0
<1>1. CASE behavior[a] = "LYING_BALLOT"
  BY <1>1 DEF Respond, Reply, ByzTyped
<1>2. CASE behavior[a] # "LYING_BALLOT"
  BY <1>2 DEF Respond, Reply, ByzTyped
<1> QED
  BY <1>1, <1>2

\* Starting a ballot keeps the invariant.
LEMMA ByzPrepareSend ==
  ASSUME ByzInv, NEW p \in ByzProposer, NEW b \in Nat, PrepareSend(p, b), UNCHANGED behavior
  PROVE  ByzInv'
<1> DEFINE new == {Respond(a, b) : a \in ByzAcceptor}
<1>1. /\ b > byzProposers[p].ballot /\ b > 0
      /\ \A q \in ByzProposer : byzProposers[q].ballot < b /\ byzProposers[q].ballot \in Nat
      /\ replies' = replies \cup new /\ finished' = finished
  BY DEF PrepareSend, ByzInv, ByzTyped, ByzPhase
<1>2. /\ byzProposers'[p] = [byzProposers[p] EXCEPT !.ballot = b, !.prepare_cert = {}, !.sent = FALSE]
      /\ \A q \in ByzProposer \ {p} : byzProposers'[q] = byzProposers[q]
      /\ byzProposers' \in [ByzProposer -> ByzPhase]
  BY DEF PrepareSend, ByzInv, ByzTyped, ByzPhase
<1>3. /\ byzProposers'[p].ballot = b /\ byzProposers'[p].prepare_cert = {}
      /\ byzProposers'[p].sent = FALSE
  BY <1>2 DEF ByzInv, ByzTyped, ByzPhase
<1>4. \A msg \in new : /\ msg \in Reply /\ msg.type # "ACCEPTED"
                       /\ msg.type = "PROMISE" =>
                            /\ behavior[msg.from] \notin {"DELAY", "OMISSION"}
                            /\ behavior[msg.from] = "LYING_BALLOT" => msg.ballot > 100
  BY <1>1, ResponseTells DEF ByzInv
<1> HIDE DEF new
<1>5. ByzTyped'
  BY <1>1, <1>2, <1>4 DEF ByzInv, ByzTyped
<1>6. BallotsOwned'
  <2> SUFFICES ASSUME NEW q \in ByzProposer, NEW r \in ByzProposer, q # r, r # p,
                      byzProposers'[q].ballot = byzProposers'[r].ballot,
                      byzProposers'[q].ballot > 0
               PROVE  FALSE
    BY DEF BallotsOwned
  <2>1. byzProposers'[r].ballot = byzProposers[r].ballot
    BY <1>2
  <2>2. CASE q = p
    BY <2>1, <2>2, <1>1, <1>3
  <2>3. CASE q # p
    <3>1. byzProposers'[q].ballot = byzProposers[q].ballot
      BY <2>3, <1>2
    <3> QED
      BY <2>1, <3>1 DEF ByzInv, BallotsOwned
  <2> QED
    BY <2>2, <2>3
<1>7. PromisesTell'
  BY <1>1, <1>4 DEF ByzInv, PromisesTell
<1>8. AcceptedBegun'
  <2> SUFFICES ASSUME NEW msg \in replies', msg.type = "ACCEPTED"
               PROVE  \E q \in ByzProposer : msg.ballot <= byzProposers'[q].ballot
    BY DEF AcceptedBegun
  <2>1. msg \in replies
    BY <1>1, <1>4
  <2>2. PICK q \in ByzProposer : msg.ballot <= byzProposers[q].ballot
    BY <2>1 DEF ByzInv, AcceptedBegun
  <2>3. byzProposers[q].ballot <= byzProposers'[q].ballot
    <3>1. CASE q = p
      BY <3>1, <1>1, <1>3
    <3>2. CASE q # p
      <4>1. byzProposers'[q] = byzProposers[q] /\ byzProposers[q].ballot \in Nat
        BY <3>2, <1>1, <1>2
      <4> QED
        BY <4>1
    <3> QED
      BY <3>1, <3>2
  <2>4. msg.ballot \in Nat /\ byzProposers[q].ballot \in Nat /\ byzProposers'[q].ballot \in Nat
    BY <2>1, <1>2 DEF ByzInv, ByzTyped, ByzPhase, Reply
  <2> QED
    BY <2>2, <2>3, <2>4
<1>9. CertificatesCurrent'
  <2> SUFFICES ASSUME NEW q \in ByzProposer
               PROVE  LET prop == byzProposers'[q] IN
                 /\ \A a \in prop.prepare_cert :
                      [type |-> "PROMISE", from |-> a, ballot |-> prop.ballot] \in replies'
                 /\ prop.sent => Cardinality(prop.prepare_cert) >= QuorumOf(MaxFaults(Nodes))
                 /\ (\E msg \in replies' : msg.type = "ACCEPTED" /\ msg.ballot = prop.ballot) =>
                      \A a \in prop.accept_cert :
                        [type |-> "ACCEPTED", from |-> a, ballot |-> prop.ballot] \in replies'
    BY DEF CertificatesCurrent, Answered, Nodes
  <2>1. CASE q = p
    <3>1. ASSUME NEW msg \in replies', msg.type = "ACCEPTED", msg.ballot = b
          PROVE  FALSE
      <4>1. msg \in replies
        BY <3>1, <1>1, <1>4
      <4>2. PICK r \in ByzProposer : msg.ballot <= byzProposers[r].ballot
        BY <3>1, <4>1 DEF ByzInv, AcceptedBegun
      <4> QED
        BY <4>2, <3>1, <1>1
    <3> QED
      BY <2>1, <3>1, <1>3
  <2>2. CASE q # p
    <3>1. \A msg \in replies' : msg.type = "ACCEPTED" => msg \in replies
      BY <1>1, <1>4
    <3> QED
      BY <2>2, <3>1, <1>1, <1>2 DEF ByzInv, CertificatesCurrent, Answered
  <2> QED
    BY <2>1, <2>2
<1>10. FinishedStand'
  BY <1>1 DEF ByzInv, FinishedStand, Answered, Nodes
<1> QED
  BY <1>5, <1>6, <1>7, <1>8, <1>9, <1>10 DEF ByzInv

\* Counting a promise keeps the invariant, whoever sent it.
LEMMA ByzPrepareReceive ==
  ASSUME ByzInv, NEW p \in ByzProposer, NEW msg \in replies, PrepareReceive(p, msg), UNCHANGED behavior
  PROVE  ByzInv'
<1> DEFINE prop == byzProposers[p]
           cert == prop.prepare_cert \cup {msg.from}
           full == Cardinality(cert) >= QuorumOf(MaxFaults(Nodes))
           now == byzProposers'[p]
<1>1. /\ prop.ballot > 0 /\ msg.type = "PROMISE" /\ msg.ballot = prop.ballot
      /\ byzProposers' = [byzProposers EXCEPT ![p] = Sending(prop, cert, MaxFaults(Nodes))]
      /\ replies' = IF Sending(prop, cert, MaxFaults(Nodes)).sent
                    THEN replies \cup AcceptedReplies(Sending(prop, cert, MaxFaults(Nodes))) ELSE replies
      /\ finished' = finished
  BY DEF PrepareReceive, Fresh
<1>2. prop \in ByzPhase /\ msg \in Reply /\ cert \in SUBSET ByzAcceptor
  BY DEF ByzInv, ByzTyped, ByzPhase, Reply
<1>3. /\ now = Sending(prop, cert, MaxFaults(Nodes))
      /\ \A q \in ByzProposer \ {p} : byzProposers'[q] = byzProposers[q]
  BY <1>1 DEF ByzInv, ByzTyped
<1>4. /\ now \in ByzPhase /\ now.ballot = prop.ballot /\ now.prepare_cert = cert
      /\ full => now.sent /\ now.accept_cert = {}
      /\ ~full => now.sent = prop.sent /\ now.accept_cert = prop.accept_cert
  <2> HIDE DEF cert
  <2>1. CASE full
    BY <2>1, <1>2, <1>3 DEF Sending, ByzPhase
  <2>2. CASE ~full
    BY <2>2, <1>2, <1>3 DEF Sending, ByzPhase
  <2> QED
    BY <2>1, <2>2
<1>5. prop.sent => full
  <2>1. prop.prepare_cert \in SUBSET cert /\ IsFiniteSet(cert)
    BY <1>2, FS_Subset, ByzantinePaxosAssumption
  <2>2. Cardinality(prop.prepare_cert) <= Cardinality(cert)
    BY <2>1, FS_Subset
  <2>3. Cardinality(prop.prepare_cert) \in Nat /\ Cardinality(cert) \in Nat
    BY <2>1, FS_Subset, FS_CardinalityType
  <2>4. prop.sent => Cardinality(prop.prepare_cert) >= QuorumOf(MaxFaults(Nodes))
    BY DEF ByzInv, CertificatesCurrent
  <2> HIDE DEF cert, prop
  <2> QED
    BY <2>2, <2>3, <2>4, FaultNumbers DEF full
<1>6. now.sent = full
  BY <1>4, <1>5, <1>2 DEF ByzPhase
<1>7. /\ replies' = IF full THEN replies \cup AcceptedReplies(now) ELSE replies
      /\ byzProposers' \in [ByzProposer -> ByzPhase]
  BY <1>1, <1>3, <1>4, <1>6 DEF ByzInv, ByzTyped
<1>8. \A m \in AcceptedReplies(now) : m \in Reply /\ m.type = "ACCEPTED" /\ m.ballot = prop.ballot
  BY <1>4, <1>2 DEF AcceptedReplies, Reply, ByzPhase
<1>9. \A m \in replies' : m \in Reply /\ (m \in replies \/ (m.type = "ACCEPTED" /\ m.ballot = prop.ballot))
  BY <1>7, <1>8 DEF ByzInv, ByzTyped
<1>10. \A q \in ByzProposer : byzProposers'[q].ballot = byzProposers[q].ballot
  BY <1>3, <1>4
<1>11. replies \subseteq replies'
  BY <1>7
<1> HIDE DEF full, now
<1>12. ByzTyped'
  BY <1>1, <1>7, <1>9 DEF ByzInv, ByzTyped
<1>13. BallotsOwned' /\ PromisesTell'
  BY <1>10, <1>9 DEF ByzInv, BallotsOwned, PromisesTell
<1>14. AcceptedBegun'
  <2> SUFFICES ASSUME NEW m \in replies', m.type = "ACCEPTED"
               PROVE  \E q \in ByzProposer : m.ballot <= byzProposers'[q].ballot
    BY DEF AcceptedBegun
  <2>1. CASE m \in replies
    BY <2>1, <1>10 DEF ByzInv, AcceptedBegun
  <2>2. CASE m.ballot = prop.ballot
    BY <2>2, <1>10, <1>2 DEF ByzPhase
  <2> QED
    BY <2>1, <2>2, <1>9
<1>15. CertificatesCurrent'
  <2> SUFFICES ASSUME NEW q \in ByzProposer
               PROVE  LET r == byzProposers'[q] IN
                 /\ \A a \in r.prepare_cert :
                      [type |-> "PROMISE", from |-> a, ballot |-> r.ballot] \in replies'
                 /\ r.sent => Cardinality(r.prepare_cert) >= QuorumOf(MaxFaults(Nodes))
                 /\ (\E m \in replies' : m.type = "ACCEPTED" /\ m.ballot = r.ballot) =>
                      \A a \in r.accept_cert :
                        [type |-> "ACCEPTED", from |-> a, ballot |-> r.ballot] \in replies'
    BY DEF CertificatesCurrent, Answered, Nodes
  <2>1. CASE q = p
    <3>1. now.sent => Cardinality(now.prepare_cert) >= QuorumOf(MaxFaults(Nodes))
      BY <1>4, <1>6 DEF full
    <3>2. ASSUME NEW a \in now.prepare_cert
          PROVE  [type |-> "PROMISE", from |-> a, ballot |-> now.ballot] \in replies'
      <4>1. CASE a \in prop.prepare_cert
        BY <4>1, <1>4, <1>11 DEF ByzInv, CertificatesCurrent, Answered
      <4>2. CASE a = msg.from
        <5>1. msg = [type |-> "PROMISE", from |-> a, ballot |-> now.ballot]
          BY <4>2, <1>1, <1>2, <1>4 DEF Reply
        <5> QED
          BY <5>1, <1>11
      <4> QED
        BY <3>2, <4>1, <4>2, <1>4
    <3>3. CASE full
      BY <2>1, <3>1, <3>2, <3>3, <1>4 DEF now
    <3>4. CASE ~full
      <4>1. replies' = replies /\ now.accept_cert = prop.accept_cert
        BY <3>4, <1>4, <1>7
      <4>2. (\E m \in replies' : m.type = "ACCEPTED" /\ m.ballot = now.ballot) =>
              \A a \in now.accept_cert :
                [type |-> "ACCEPTED", from |-> a, ballot |-> now.ballot] \in replies'
        BY <4>1, <1>4 DEF ByzInv, CertificatesCurrent, Answered
      <4> QED
        BY <2>1, <3>1, <3>2, <4>2 DEF now
    <3> QED
      BY <3>3, <3>4
  <2>2. CASE q # p
    <3>1. byzProposers'[q] = byzProposers[q] /\ byzProposers[q].ballot # prop.ballot
      BY <2>2, <1>1, <1>3 DEF ByzInv, BallotsOwned
    <3>2. \A m \in replies' : m.ballot = byzProposers[q].ballot => m \in replies
      BY <3>1, <1>9
    <3> QED
      BY <3>1, <3>2, <1>11 DEF ByzInv, CertificatesCurrent, Answered
  <2> QED
    BY <2>1, <2>2
<1>16. FinishedStand'
  BY <1>1, <1>11 DEF ByzInv, FinishedStand, Answered, Nodes
<1> QED
  BY <1>12, <1>13, <1>14, <1>15, <1>16 DEF ByzInv

\* Counting an accepted answer keeps the invariant, whoever sent it.
LEMMA ByzAcceptReceive ==
  ASSUME ByzInv, NEW p \in ByzProposer, NEW msg \in replies, AcceptReceive(p, msg), UNCHANGED behavior
  PROVE  ByzInv'
<1> DEFINE prop == byzProposers[p]
           cert == prop.accept_cert \cup {msg.from}
<1>1. /\ prop.ballot > 0 /\ msg.type = "ACCEPTED" /\ msg.ballot = prop.ballot
      /\ byzProposers' = [byzProposers EXCEPT ![p].accept_cert = cert]
      /\ finished' = IF Cardinality(cert) >= QuorumOf(MaxFaults(Nodes))
                     THEN finished \cup {<<p, prop.ballot, cert>>} ELSE finished
      /\ replies' = replies
  BY DEF AcceptReceive, Fresh
<1>2. prop \in ByzPhase /\ msg \in Reply /\ cert \in SUBSET ByzAcceptor /\ prop.ballot \in Nat
  BY DEF ByzInv, ByzTyped, ByzPhase, Reply
<1>3. Answered("ACCEPTED", cert, prop.ballot)
  <2>1. Answered("ACCEPTED", prop.accept_cert, prop.ballot)
    BY <1>1 DEF ByzInv, CertificatesCurrent
  <2>2. msg = [type |-> "ACCEPTED", from |-> msg.from, ballot |-> prop.ballot]
    BY <1>1, <1>2 DEF Reply
  <2> QED
    BY <2>1, <2>2 DEF Answered
<1> HIDE DEF cert
<1>4. /\ byzProposers' \in [ByzProposer -> ByzPhase]
      /\ byzProposers'[p] = [prop EXCEPT !.accept_cert = cert]
      /\ \A q \in ByzProposer \ {p} : byzProposers'[q] = byzProposers[q]
  BY <1>1, <1>2 DEF ByzInv, ByzTyped, ByzPhase
<1>5. /\ byzProposers'[p].ballot = prop.ballot /\ byzProposers'[p].prepare_cert = prop.prepare_cert
      /\ byzProposers'[p].sent = prop.sent /\ byzProposers'[p].accept_cert = cert
  BY <1>4, <1>2 DEF ByzPhase
<1>6. \A q \in ByzProposer : byzProposers'[q].ballot = byzProposers[q].ballot
  BY <1>4, <1>5
<1>7. ByzTyped'
  BY <1>1, <1>2, <1>4 DEF ByzInv, ByzTyped
<1>8. BallotsOwned' /\ PromisesTell' /\ AcceptedBegun'
  BY <1>6, <1>1 DEF ByzInv, BallotsOwned, PromisesTell, AcceptedBegun
<1>9. CertificatesCurrent'
  <2> SUFFICES ASSUME NEW q \in ByzProposer
               PROVE  LET r == byzProposers'[q] IN
                 /\ Answered("PROMISE", r.prepare_cert, r.ballot)
                 /\ r.sent => Cardinality(r.prepare_cert) >= QuorumOf(MaxFaults(Nodes))
                 /\ (\E m \in replies : m.type = "ACCEPTED" /\ m.ballot = r.ballot) =>
                      Answered("ACCEPTED", r.accept_cert, r.ballot)
    BY <1>1 DEF CertificatesCurrent, Answered, Nodes
  <2>1. CASE q = p
    BY <2>1, <1>3, <1>5 DEF ByzInv, CertificatesCurrent
  <2>2. CASE q # p
    BY <2>2, <1>4 DEF ByzInv, CertificatesCurrent
  <2> QED
    BY <2>1, <2>2
<1>10. FinishedStand'
  <2> SUFFICES ASSUME NEW d \in finished'
               PROVE  /\ Cardinality(d[3]) >= QuorumOf(MaxFaults(Nodes))
                      /\ Answered("ACCEPTED", d[3], d[2])
    BY <1>1 DEF FinishedStand, Answered, Nodes
  <2>1. CASE d \in finished
    BY <2>1 DEF ByzInv, FinishedStand
  <2>2. CASE d \notin finished
    BY <2>2, <1>1, <1>3
  <2> QED
    BY <2>1, <2>2
<1> QED
  BY <1>7, <1>8, <1>9, <1>10 DEF ByzInv

\* The invariant of Byzantine Paxos is inductive.
LEMMA ByzInvStep ==
  ASSUME ByzInv, ByzantinePaxosStep \/ UNCHANGED byzVars
  PROVE  ByzInv'
<1>1. CASE UNCHANGED byzVars
  BY <1>1 DEF byzVars, ByzInv, ByzTyped, BallotsOwned, PromisesTell, AcceptedBegun,
              CertificatesCurrent, FinishedStand, Answered, Nodes
<1>2. ASSUME NEW p \in ByzProposer, NEW b \in 1 .. MaxBallot, PrepareSend(p, b), UNCHANGED behavior
      PROVE  ByzInv'
  BY <1>2, ByzPrepareSend, ByzantinePaxosAssumption
<1>3. ASSUME NEW p \in ByzProposer, NEW msg \in replies, UNCHANGED behavior,
             PrepareReceive(p, msg) \/ AcceptReceive(p, msg)
      PROVE  ByzInv'
  BY <1>3, ByzPrepareReceive, ByzAcceptReceive
<1> QED
  BY <1>1, <1>2, <1>3 DEF ByzantinePaxosStep

\* The invariant of Byzantine Paxos holds initially.
LEMMA ByzInvInit == ByzantinePaxosStart => ByzInv
<1> SUFFICES ASSUME ByzantinePaxosStart PROVE ByzInv
  OBVIOUS
<1>1. behavior \in [ByzAcceptor -> Behaviors]
  BY DEF ByzantinePaxosStart, Behaviors
<1>2. /\ byzProposers \in [ByzProposer -> ByzPhase] /\ replies = {} /\ finished = {}
      /\ \A p \in ByzProposer : /\ byzProposers[p].ballot = 0 /\ byzProposers[p].prepare_cert = {}
                                /\ byzProposers[p].sent = FALSE
  BY DEF ByzantinePaxosStart, ByzPhase
<1> QED
  BY <1>1, <1>2 DEF ByzInv, ByzTyped, BallotsOwned, PromisesTell, AcceptedBegun,
                    CertificatesCurrent, FinishedStand, Answered

\* Two certificates share an acceptor that is not a liar.
LEMMA CertificatesMeet ==
  ASSUME NEW f \in Nat, Nodes = 3 * f + 1, Cardinality(Liars) <= f,
         NEW A \in SUBSET ByzAcceptor, Cardinality(A) >= 2 * f + 1,
         NEW B \in SUBSET ByzAcceptor, Cardinality(B) >= 2 * f + 1
  PROVE  A \cap (B \ Liars) # {}
<1> SUFFICES ASSUME A \cap B \subseteq Liars PROVE FALSE
  OBVIOUS
<1>1. IsFiniteSet(ByzAcceptor) /\ Cardinality(ByzAcceptor) = 3 * f + 1
  BY ByzantinePaxosAssumption DEF Nodes
<1>2. Cardinality(A \cap B) \in Nat /\ Cardinality(A) \in Nat /\ Cardinality(B) \in Nat
  BY <1>1, FS_Subset, FS_CardinalityType
<1>3. Cardinality(A \cap B) >= Cardinality(A) + Cardinality(B) - (3 * f + 1)
  BY <1>1, SharedMembers
<1>4. IsFiniteSet(Liars) /\ Cardinality(Liars) \in Nat
  BY <1>1, FS_Subset, FS_CardinalityType DEF Liars
<1>5. Cardinality(A \cap B) <= Cardinality(Liars)
  BY <1>4, FS_Subset
<1> QED
  BY <1>2, <1>3, <1>4, <1>5

\* The invariant makes every certificate genuine.
LEMMA ByzInvSound == ByzInv => CertificatesSound
<1> SUFFICES ASSUME ByzInv PROVE CertificatesSound
  OBVIOUS
<1> DEFINE f == MaxFaults(Nodes)
<1>1. \A d \in finished :
        /\ Cardinality(d[3]) >= QuorumOf(f)
        /\ \A a \in d[3] : [type |-> "ACCEPTED", from |-> a, ballot |-> d[2]] \in replies
  BY DEF ByzInv, FinishedStand, Answered
<1>2. ASSUME NEW p \in ByzProposer, NEW a \in byzProposers[p].prepare_cert
      PROVE  /\ behavior[a] \notin {"DELAY", "OMISSION"}
             /\ behavior[a] = "LYING_BALLOT" => byzProposers[p].ballot > 100
  <2> DEFINE msg == [type |-> "PROMISE", from |-> a, ballot |-> byzProposers[p].ballot]
  <2>1. msg \in replies
    BY DEF ByzInv, CertificatesCurrent, Answered
  <2>2. msg.type = "PROMISE" /\ msg.from = a /\ msg.ballot = byzProposers[p].ballot
    OBVIOUS
  <2> HIDE DEF msg
  <2> QED
    BY <2>1, <2>2 DEF ByzInv, PromisesTell
<1>3. \A g \in 0 .. Nodes : NodesSufficient(Nodes, g) <=> g <= f
  BY FaultNumbers
<1>4. ASSUME Nodes = 3 * f + 1, Cardinality(Liars) <= f, NEW p \in ByzProposer, NEW d \in finished,
             Cardinality(byzProposers[p].prepare_cert) >= QuorumOf(f)
      PROVE  byzProposers[p].prepare_cert \cap (d[3] \ Liars) # {}
  <2>1. byzProposers[p].prepare_cert \in SUBSET ByzAcceptor /\ d[3] \in SUBSET ByzAcceptor
    BY DEF ByzInv, ByzTyped, ByzPhase
  <2>2. f \in Nat /\ QuorumOf(f) = 2 * f + 1
    BY FaultNumbers
  <2>3. Cardinality(d[3]) >= QuorumOf(f)
    BY <1>1
  <2> HIDE DEF f
  <2> QED
    BY <1>4, <2>1, <2>2, <2>3, CertificatesMeet
<1> QED
  BY <1>1, <1>2, <1>3, <1>4 DEF CertificatesSound

\* Every certificate of Byzantine Paxos is genuine and of its ballot.
THEOREM CertificatesAreSound == VariantsSpec => []CertificatesSound
<1>1. VariantsInit => ByzInv
  BY ByzInvInit DEF VariantsInit
<1>2. ByzInv /\ [VariantsNext]_variantVars => ByzInv'
  BY ByzInvStep, VariantSteps
<1> QED
  BY <1>1, <1>2, ByzInvSound, PTL DEF VariantsSpec

--------------------------------------------------------------------------------
\* PBFT.  A replica counts each sender once, so its certificates stand on quorums.

PbftTyped ==
  /\ current_view \in [Replica -> Nat] /\ last_seq_num \in [Replica -> Nat]
  /\ low_water_mark \in [Replica -> Nat] /\ last_executed_seq \in [Replica -> Nat]
  /\ prepare_count \in [Replica -> [Index -> Nat]] /\ commit_count \in [Replica -> [Index -> Nat]]
  /\ prepared_cert \in [Replica -> SUBSET Index]
  /\ primaries \in [0 .. MaxSeq -> SUBSET Replica]
  /\ handled \in [Replica -> SUBSET ({"PREPARE", "COMMIT"} \X Replica \X (0 .. MaxSeq))]

\* A replica does not handle messages of its own, and a primary uses a number once.
SentOnce ==
  /\ \A r \in Replica : \A m \in handled[r] : m[2] # r
  /\ \A n \in 0 .. MaxSeq : \A p \in primaries[n] : n <= last_seq_num[p]

Requesters(n) == IF n \in 0 .. MaxSeq THEN primaries[n] ELSE {}

\* Until a checkpoint moves the window of r, its counters stand for the replicas
\* they were raised by, and its certificates for the counters.
CountersStand(r) ==
  low_water_mark[r] = 0 =>
    /\ \A n \in Index :
         /\ prepare_count[r][n] = Cardinality(Requesters(n)) + Cardinality(Senders(r, "PREPARE", n))
         /\ commit_count[r][n] = Cardinality(Senders(r, "COMMIT", n))
         /\ n \in prepared_cert[r] => prepare_count[r][n] >= QuorumSize
    /\ last_executed_seq[r] > 0 =>
         Cardinality(Senders(r, "COMMIT", last_executed_seq[r])) >= QuorumSize

\* A window moves only after an execution, and the first one was on a quorum.
ExecutedOnQuorum(r) ==
  /\ low_water_mark[r] <= last_executed_seq[r]
  /\ last_executed_seq[r] > 0 =>
       \E n \in 0 .. MaxSeq : Cardinality(Senders(r, "COMMIT", n)) >= QuorumSize

PbftInv ==
  PbftTyped /\ SentOnce /\ \A r \in Replica : CountersStand(r) /\ ExecutedOnQuorum(r)

\* There are finitely many replicas.
LEMMA ReplicasFinite == IsFiniteSet(Replica)
<1> DEFINE last == 3 * Faulty
<1>1. 0 \in Int /\ last \in Int
  BY PbftAssumption
<1> HIDE DEF last
<1>2. IsFiniteSet(0 .. last)
  BY <1>1, FS_Interval
<1> QED
  BY <1>2 DEF Replica, last

\* The senders of a number are replicas, and none beyond the last request.
LEMMA SendersTyped ==
  ASSUME PbftTyped, NEW r \in Replica, NEW type, NEW n
  PROVE  /\ Senders(r, type, n) \subseteq Replica /\ IsFiniteSet(Senders(r, type, n))
         /\ Cardinality(Senders(r, type, n)) \in Nat
         /\ n \notin 0 .. MaxSeq => Cardinality(Senders(r, type, n)) = 0
<1>1. IsFiniteSet(Replica)
  BY ReplicasFinite
<1>2. Senders(r, type, n) \in SUBSET Replica
  BY DEF Senders
<1>3. IsFiniteSet(Senders(r, type, n)) /\ Cardinality(Senders(r, type, n)) \in Nat
  BY <1>1, <1>2, FS_Subset, FS_CardinalityType
<1>4. n \notin 0 .. MaxSeq => Senders(r, type, n) = {}
  BY DEF Senders, PbftTyped
<1> QED
  BY <1>2, <1>3, <1>4, FS_EmptySet

\* The replicas that ask for a view are a finite set of replicas.
LEMMA RequestersTyped ==
  ASSUME PbftTyped, NEW n
  PROVE  IsFiniteSet(Requesters(n)) /\ Cardinality(Requesters(n)) \in Nat /\ Requesters(n) \subseteq Replica
<1>1. IsFiniteSet(Replica)
  BY ReplicasFinite
<1>2. Requesters(n) \in SUBSET Replica
  BY DEF Requesters, PbftTyped
<1> QED
  BY <1>1, <1>2, FS_Subset, FS_CardinalityType

\* The constants of the replicas are numbers, and a quorum is not empty.
LEMMA PbftNumbers ==
  /\ Faulty \in Nat /\ Window \in Nat /\ MaxSeq \in Nat /\ QuorumSize \in Nat /\ QuorumSize > 0
  /\ Index \subseteq Nat
BY PbftAssumption DEF QuorumSize, Index

\* The invariant of the replicas holds initially.
LEMMA PbftInvInit == PbftStart => PbftInv
<1> SUFFICES ASSUME PbftStart PROVE PbftInv
  OBVIOUS
<1>1. PbftTyped
  BY PbftNumbers DEF PbftTyped, PbftStart
<1>2. \A r \in Replica : \A type, n : Senders(r, type, n) = {}
  BY DEF PbftStart, Senders
<1>3. \A n : Requesters(n) = {}
  BY DEF PbftStart, Requesters
<1>4. \A r \in Replica, n \in Index : prepare_count[r][n] = 0 /\ commit_count[r][n] = 0
  BY DEF PbftStart
<1>5. \A r \in Replica : last_executed_seq[r] = 0 /\ low_water_mark[r] = 0 /\ prepared_cert[r] = {}
  BY DEF PbftStart
<1>6. SentOnce
  BY DEF PbftStart, SentOnce
<1>7. ASSUME NEW r \in Replica
      PROVE  CountersStand(r) /\ ExecutedOnQuorum(r)
  <2>1. \A n : Cardinality(Requesters(n)) = 0
    BY <1>3, FS_EmptySet
  <2>2. \A n, type : Cardinality(Senders(r, type, n)) = 0
    BY <1>2, FS_EmptySet
  <2> QED
    BY <2>1, <2>2, <1>4, <1>5 DEF CountersStand, ExecutedOnQuorum
<1> QED
  BY <1>1, <1>6, <1>7 DEF PbftInv

\* A request raises each prepare counter of its number and the number of those
\* who requested it.
LEMMA PbftSendPrePrepare ==
  ASSUME PbftInv, NEW p \in Replica, SendPrePrepare(p), UNCHANGED current_view
  PROVE  PbftInv'
<1> DEFINE n == last_seq_num[p] + 1
<1>1. /\ n \in Nat /\ n > 0 /\ n <= MaxSeq /\ last_seq_num[p] \in Nat
      /\ last_seq_num' = [last_seq_num EXCEPT ![p] = n]
      /\ primaries' = [primaries EXCEPT ![n] = @ \cup {p}]
      /\ UNCHANGED <<low_water_mark, last_executed_seq, commit_count, prepared_cert, handled, current_view>>
  BY DEF SendPrePrepare, PbftInv, PbftTyped
<1>2. n \in 0 .. MaxSeq
  BY <1>1, PbftNumbers
<1>3. prepare_count' = [r \in Replica |->
        IF InWindow(r, n) THEN [prepare_count[r] EXCEPT ![n - low_water_mark[r]] = @ + 1]
        ELSE prepare_count[r]]
  BY DEF SendPrePrepare, IndexOf
<1>4. \A r \in Replica : InWindow(r, n) => n - low_water_mark[r] \in Index
  <2> HIDE DEF n
  <2> QED
    BY <1>1, PbftNumbers DEF InWindow, Index, PbftInv, PbftTyped
<1> HIDE DEF n
<1>5. prepare_count' \in [Replica -> [Index -> Nat]]
  <2>1. ASSUME NEW r \in Replica, NEW i \in Index, NEW f \in [Index -> Nat]
        PROVE  [f EXCEPT ![i] = @ + 1] \in [Index -> Nat]
    OBVIOUS
  <2> QED
    BY <1>3, <1>4, <2>1 DEF PbftInv, PbftTyped
<1>12. PbftTyped'
  <2>1. primaries' \in [0 .. MaxSeq -> SUBSET Replica] /\ last_seq_num' \in [Replica -> Nat]
    BY <1>1, <1>2 DEF PbftInv, PbftTyped
  <2> QED
    BY <2>1, <1>5, <1>1 DEF PbftInv, PbftTyped
<1>6. p \notin primaries[n]
  BY <1>1, <1>2 DEF PbftInv, SentOnce, n
<1>7. SentOnce'
  <2>1. ASSUME NEW m \in 0 .. MaxSeq, NEW q \in primaries'[m]
        PROVE  m <= last_seq_num'[q]
    <3>1. q \in primaries[m] \/ (m = n /\ q = p)
      BY <1>1, <1>2 DEF PbftInv, PbftTyped
    <3>2. CASE m = n /\ q = p
      BY <3>2, <1>1 DEF PbftInv, PbftTyped
    <3>3. CASE q \in primaries[m]
      <4>1. q \in Replica /\ m <= last_seq_num[q]
        BY <3>3 DEF PbftInv, SentOnce, PbftTyped
      <4>2. last_seq_num[q] <= last_seq_num'[q] /\ last_seq_num[q] \in Nat /\ last_seq_num'[q] \in Nat
        <5>1. CASE q = p
          BY <5>1, <1>1, <4>1 DEF PbftInv, PbftTyped, n
        <5>2. CASE q # p
          BY <5>2, <1>1, <4>1 DEF PbftInv, PbftTyped
        <5> QED
          BY <5>1, <5>2
      <4> QED
        BY <4>1, <4>2
    <3> QED
      BY <3>1, <3>2, <3>3
  <2> QED
    BY <2>1, <1>1 DEF PbftInv, SentOnce
<1>8. \A r \in Replica : \A type, k : Senders(r, type, k)' = Senders(r, type, k)
  BY <1>1 DEF Senders
<1>9. ASSUME NEW r \in Replica, low_water_mark[r] = 0, NEW k \in Index
      PROVE  prepare_count'[r][k] - prepare_count[r][k] =
               Cardinality(Requesters(k)') - Cardinality(Requesters(k))
  <2>0. k \in Nat /\ k < Window
    BY PbftNumbers DEF Index
  <2>1. InWindow(r, n) <=> n \in Index
    BY <1>1, <1>9, PbftNumbers DEF InWindow, Index
  <2>2. CASE k = n
    <3>1. prepare_count'[r][k] = prepare_count[r][k] + 1
      BY <2>1, <2>2, <1>3, <1>9, <1>1 DEF PbftInv, PbftTyped
    <3>2. Requesters(k)' = Requesters(k) \cup {p} /\ p \notin Requesters(k)
      BY <2>2, <1>1, <1>2, <1>6 DEF Requesters, PbftInv, PbftTyped
    <3>3. Cardinality(Requesters(k)') = Cardinality(Requesters(k)) + 1
      BY <3>2, FS_AddElement, RequestersTyped DEF PbftInv
    <3>4. prepare_count[r][k] \in Nat /\ Cardinality(Requesters(k)) \in Nat
      BY RequestersTyped DEF PbftInv, PbftTyped
    <3> QED
      BY <3>1, <3>3, <3>4
  <2>3. CASE k # n
    <3>1. prepare_count'[r][k] = prepare_count[r][k]
      BY <2>1, <2>3, <1>3, <1>9, <1>1 DEF PbftInv, PbftTyped
    <3>2. Requesters(k)' = Requesters(k)
      BY <2>3, <1>1, <1>2 DEF Requesters, PbftInv, PbftTyped
    <3>4. prepare_count[r][k] \in Nat /\ Cardinality(Requesters(k)) \in Nat
      BY RequestersTyped DEF PbftInv, PbftTyped
    <3> QED
      BY <3>1, <3>2, <3>4
  <2> QED
    BY <2>2, <2>3
<1>10. ASSUME NEW r \in Replica PROVE CountersStand(r)'
  <2> SUFFICES ASSUME low_water_mark[r] = 0
               PROVE  /\ \A k \in Index :
                          /\ prepare_count'[r][k] = Cardinality(Requesters(k)')
                               + Cardinality(Senders(r, "PREPARE", k))
                          /\ commit_count[r][k] = Cardinality(Senders(r, "COMMIT", k))
                          /\ k \in prepared_cert[r] => prepare_count'[r][k] >= QuorumSize
                      /\ last_executed_seq[r] > 0 =>
                           Cardinality(Senders(r, "COMMIT", last_executed_seq[r])) >= QuorumSize
    BY <1>1, <1>8 DEF CountersStand, Index, QuorumSize
  <2>1. CountersStand(r)
    BY DEF PbftInv
  <2>2. ASSUME NEW k \in Index
        PROVE  /\ prepare_count'[r][k] = Cardinality(Requesters(k)') + Cardinality(Senders(r, "PREPARE", k))
               /\ k \in prepared_cert[r] => prepare_count'[r][k] >= QuorumSize
    <3>1. prepare_count'[r][k] \in Nat /\ prepare_count[r][k] \in Nat
      BY <1>5 DEF PbftTyped, PbftInv
    <3>2. /\ Cardinality(Requesters(k)') \in Nat /\ Cardinality(Requesters(k)) \in Nat
          /\ Cardinality(Senders(r, "PREPARE", k)) \in Nat
      <4>1. Requesters(k)' = Requesters(k) \/ Requesters(k)' = Requesters(k) \cup {p}
        BY <1>1, <1>2 DEF Requesters, PbftInv, PbftTyped
      <4>2. IsFiniteSet(Requesters(k)) /\ IsFiniteSet(Requesters(k) \cup {p})
        BY RequestersTyped, FS_AddElement DEF PbftInv
      <4> QED
        BY <4>1, <4>2, SendersTyped, FS_CardinalityType DEF PbftInv
    <3>3. prepare_count'[r][k] >= prepare_count[r][k]
      <4>1. CASE k = n
        <5>1. prepare_count'[r][k] = prepare_count[r][k] + 1 \/ prepare_count'[r][k] = prepare_count[r][k]
          BY <1>3 DEF PbftInv, PbftTyped
        <5> QED
          BY <5>1, <3>1
      <4>2. CASE k # n
        <5>1. prepare_count'[r][k] = prepare_count[r][k] + 1 \/ prepare_count'[r][k] = prepare_count[r][k]
          BY <1>3 DEF PbftInv, PbftTyped
        <5> QED
          BY <5>1, <3>1
      <4> QED
        BY <4>1, <4>2
    <3>4. /\ prepare_count[r][k] = Cardinality(Requesters(k)) + Cardinality(Senders(r, "PREPARE", k))
          /\ k \in prepared_cert[r] => prepare_count[r][k] >= QuorumSize
      BY <2>1 DEF CountersStand
    <3> QED
      BY <3>1, <3>2, <3>3, <3>4, <1>9, PbftNumbers
  <2> QED
    BY <2>1, <2>2 DEF CountersStand
<1>11. ASSUME NEW r \in Replica PROVE ExecutedOnQuorum(r)'
  <2>1. ExecutedOnQuorum(r)
    BY DEF PbftInv
  <2> QED
    BY <2>1, <1>1, <1>8 DEF ExecutedOnQuorum, QuorumSize
<1> QED
  BY <1>12, <1>7, <1>10, <1>11 DEF PbftInv, Replica

\* A message that arrives adds its sender to the senders of its kind and number.
LEMMA ArrivalCounts ==
  ASSUME PbftInv, NEW r \in Replica, NEW type \in {"PREPARE", "COMMIT"}, NEW s \in Replica,
         NEW n \in 0 .. MaxSeq, Arrives(r, type, s, n)
  PROVE  /\ handled' \in [Replica -> SUBSET ({"PREPARE", "COMMIT"} \X Replica \X (0 .. MaxSeq))]
         /\ \A q \in Replica : \A m \in handled'[q] : m[2] # q
         /\ \A q \in Replica, t \in {"PREPARE", "COMMIT"} : \A k :
              /\ Cardinality(Senders(q, t, k)') \in Nat
              /\ Cardinality(Senders(q, t, k)) \in Nat
              /\ Cardinality(Senders(q, t, k)') = Cardinality(Senders(q, t, k))
                   + IF q = r /\ t = type /\ k = n THEN 1 ELSE 0
         /\ low_water_mark[r] \in Nat /\ n - low_water_mark[r] \in Index
<1>1. /\ s # r /\ InWindow(r, n) /\ <<type, s, n>> \notin handled[r]
      /\ handled' = [handled EXCEPT ![r] = @ \cup {<<type, s, n>>}]
  BY DEF Arrives
<1>2. /\ handled' \in [Replica -> SUBSET ({"PREPARE", "COMMIT"} \X Replica \X (0 .. MaxSeq))]
      /\ handled'[r] = handled[r] \cup {<<type, s, n>>}
      /\ \A q \in Replica \ {r} : handled'[q] = handled[q]
  BY <1>1 DEF PbftInv, PbftTyped
<1>3. \A q \in Replica : \A m \in handled'[q] : m[2] # q
  BY <1>1, <1>2 DEF PbftInv, SentOnce
<1>4. ASSUME NEW q \in Replica, NEW t \in {"PREPARE", "COMMIT"}, NEW k
      PROVE  /\ Cardinality(Senders(q, t, k)') \in Nat
             /\ Cardinality(Senders(q, t, k)) \in Nat
             /\ Cardinality(Senders(q, t, k)') = Cardinality(Senders(q, t, k))
                  + IF q = r /\ t = type /\ k = n THEN 1 ELSE 0
  <2>1. Cardinality(Senders(q, t, k)) \in Nat /\ IsFiniteSet(Senders(q, t, k))
    BY SendersTyped DEF PbftInv
  <2>2. CASE q = r /\ t = type /\ k = n
    <3>1. Senders(q, t, k)' = Senders(q, t, k) \cup {s}
      BY <2>2, <1>2 DEF Senders
    <3>2. s \notin Senders(q, t, k)
      BY <2>2, <1>1 DEF Senders
    <3>3. Cardinality(Senders(q, t, k) \cup {s}) = Cardinality(Senders(q, t, k)) + 1
      BY <2>1, <3>2, FS_AddElement
    <3> QED
      BY <2>1, <2>2, <3>1, <3>3
  <2>3. CASE ~(q = r /\ t = type /\ k = n)
    <3>1. Senders(q, t, k)' = Senders(q, t, k)
      BY <2>3, <1>2 DEF Senders
    <3> QED
      BY <2>1, <2>3, <3>1
  <2> QED
    BY <2>2, <2>3
<1>5. low_water_mark[r] \in Nat /\ n - low_water_mark[r] \in Index
  BY <1>1, PbftNumbers DEF InWindow, Index, PbftInv, PbftTyped
<1> QED
  BY <1>2, <1>3, <1>4, <1>5

\* Counting a prepare keeps the invariant: a certificate has its quorum.
LEMMA PbftHandlePrepare ==
  ASSUME PbftInv, NEW r \in Replica, NEW s \in Replica, NEW n \in 0 .. MaxSeq,
         HandlePrepare(r, s, n), UNCHANGED current_view
  PROVE  PbftInv'
<1> DEFINE i == n - low_water_mark[r]
<1>1. /\ Arrives(r, "PREPARE", s, n)
      /\ prepare_count' = [prepare_count EXCEPT ![r][i] = @ + 1]
      /\ prepared_cert' = [prepared_cert EXCEPT ![r] =
           IF prepare_count'[r][i] >= QuorumSize THEN @ \cup {i} ELSE @]
      /\ UNCHANGED <<last_seq_num, low_water_mark, last_executed_seq, commit_count, primaries, current_view>>
  BY DEF HandlePrepare, IndexOf, Certifies
<1>2. i \in Index
  BY <1>1, ArrivalCounts
<1>3. prepare_count[r] \in [Index -> Nat]
  BY DEF PbftInv, PbftTyped
<1> HIDE DEF i
<1>4. /\ prepare_count' \in [Replica -> [Index -> Nat]]
      /\ \A q \in Replica \ {r} : prepare_count'[q] = prepare_count[q]
      /\ prepare_count'[r][i] = prepare_count[r][i] + 1
      /\ \A k \in Index \ {i} : prepare_count'[r][k] = prepare_count[r][k]
  BY <1>1, <1>2, <1>3 DEF PbftInv, PbftTyped
<1>5. /\ prepared_cert' \in [Replica -> SUBSET Index]
      /\ \A q \in Replica \ {r} : prepared_cert'[q] = prepared_cert[q]
      /\ \A k \in prepared_cert'[r] : k \in prepared_cert[r] \/ (k = i /\ prepare_count'[r][i] >= QuorumSize)
  BY <1>1, <1>2 DEF PbftInv, PbftTyped
<1>6. PbftTyped' /\ SentOnce'
  <2>1. /\ handled' \in [Replica -> SUBSET ({"PREPARE", "COMMIT"} \X Replica \X (0 .. MaxSeq))]
        /\ \A q \in Replica : \A m \in handled'[q] : m[2] # q
    BY <1>1, ArrivalCounts
  <2> QED
    BY <2>1, <1>1, <1>4, <1>5 DEF PbftInv, PbftTyped, SentOnce
<1>7. \A k : Requesters(k)' = Requesters(k)
  BY <1>1 DEF Requesters
<1>8. \A q \in Replica : \A k :
        /\ Cardinality(Senders(q, "COMMIT", k)') = Cardinality(Senders(q, "COMMIT", k))
        /\ Cardinality(Senders(q, "PREPARE", k)') = Cardinality(Senders(q, "PREPARE", k))
             + IF q = r /\ k = n THEN 1 ELSE 0
        /\ Cardinality(Senders(q, "PREPARE", k)) \in Nat /\ Cardinality(Senders(q, "COMMIT", k)) \in Nat
  BY <1>1, ArrivalCounts
<1>9. ASSUME NEW q \in Replica PROVE CountersStand(q)'
  <2> SUFFICES ASSUME low_water_mark[q] = 0
               PROVE  /\ \A k \in Index :
                          /\ prepare_count'[q][k] = Cardinality(Requesters(k))
                               + Cardinality(Senders(q, "PREPARE", k)')
                          /\ commit_count[q][k] = Cardinality(Senders(q, "COMMIT", k)')
                          /\ k \in prepared_cert'[q] => prepare_count'[q][k] >= QuorumSize
                      /\ \A k : k = last_executed_seq[q] /\ k > 0 =>
                           Cardinality(Senders(q, "COMMIT", k)') >= QuorumSize
    BY <1>1, <1>7 DEF CountersStand, Index, QuorumSize
  <2>1. CountersStand(q)
    BY DEF PbftInv
  <2>2. q = r => i = n
    BY DEF i
  <2>3. ASSUME NEW k \in Index
        PROVE  /\ prepare_count'[q][k] = Cardinality(Requesters(k)) + Cardinality(Senders(q, "PREPARE", k)')
               /\ k \in prepared_cert'[q] => prepare_count'[q][k] >= QuorumSize
    <3>1. /\ prepare_count[q][k] = Cardinality(Requesters(k)) + Cardinality(Senders(q, "PREPARE", k))
          /\ k \in prepared_cert[q] => prepare_count[q][k] >= QuorumSize
      BY <2>1 DEF CountersStand
    <3>2. prepare_count[q][k] \in Nat /\ Cardinality(Requesters(k)) \in Nat
      BY RequestersTyped DEF PbftInv, PbftTyped
    <3>3. CASE q = r /\ k = n
      BY <3>1, <3>2, <3>3, <2>2, <1>4, <1>5, <1>8, PbftNumbers
    <3>4. CASE ~(q = r /\ k = n)
      <4>1. prepare_count'[q][k] = prepare_count[q][k]
        BY <3>4, <2>2, <1>4
      <4>2. k \in prepared_cert'[q] => k \in prepared_cert[q]
        BY <3>4, <2>2, <1>5
      <4> QED
        BY <3>1, <3>2, <3>4, <4>1, <4>2, <1>8
    <3> QED
      BY <3>3, <3>4
  <2>4. ASSUME NEW k, k = last_executed_seq[q], k > 0
        PROVE  Cardinality(Senders(q, "COMMIT", k)') >= QuorumSize
    <3>1. Cardinality(Senders(q, "COMMIT", k)) >= QuorumSize
      BY <2>1, <2>4 DEF CountersStand
    <3> QED
      BY <3>1, <1>8
  <2> QED
    BY <2>1, <2>3, <2>4, <1>8 DEF CountersStand
<1>10. ASSUME NEW q \in Replica PROVE ExecutedOnQuorum(q)'
  <2>1. ExecutedOnQuorum(q)
    BY DEF PbftInv
  <2> QED
    BY <2>1, <1>1, <1>8 DEF ExecutedOnQuorum, QuorumSize
<1> QED
  BY <1>6, <1>9, <1>10 DEF PbftInv, Replica

\* Counting a commit keeps the invariant: each replica is counted once.
LEMMA PbftHandleCommit ==
  ASSUME PbftInv, NEW r \in Replica, NEW s \in Replica, NEW n \in 0 .. MaxSeq,
         HandleCommit(r, s, n), UNCHANGED current_view
  PROVE  PbftInv'
<1> DEFINE i == n - low_water_mark[r]
<1>1. /\ Arrives(r, "COMMIT", s, n)
      /\ commit_count' = [commit_count EXCEPT ![r][i] = @ + 1]
      /\ UNCHANGED <<last_seq_num, low_water_mark, last_executed_seq, prepare_count,
                     prepared_cert, primaries, current_view>>
  BY DEF HandleCommit, IndexOf
<1>2. i \in Index
  BY <1>1, ArrivalCounts
<1>3. commit_count[r] \in [Index -> Nat]
  BY DEF PbftInv, PbftTyped
<1> HIDE DEF i
<1>4. /\ commit_count' \in [Replica -> [Index -> Nat]]
      /\ \A q \in Replica \ {r} : commit_count'[q] = commit_count[q]
      /\ commit_count'[r][i] = commit_count[r][i] + 1
      /\ \A k \in Index \ {i} : commit_count'[r][k] = commit_count[r][k]
  BY <1>1, <1>2, <1>3 DEF PbftInv, PbftTyped
<1>6. PbftTyped' /\ SentOnce'
  <2>1. /\ handled' \in [Replica -> SUBSET ({"PREPARE", "COMMIT"} \X Replica \X (0 .. MaxSeq))]
        /\ \A q \in Replica : \A m \in handled'[q] : m[2] # q
    BY <1>1, ArrivalCounts
  <2> QED
    BY <2>1, <1>1, <1>4 DEF PbftInv, PbftTyped, SentOnce
<1>7. \A k : Requesters(k)' = Requesters(k)
  BY <1>1 DEF Requesters
<1>8. \A q \in Replica : \A k :
        /\ Cardinality(Senders(q, "PREPARE", k)') = Cardinality(Senders(q, "PREPARE", k))
        /\ Cardinality(Senders(q, "COMMIT", k)') = Cardinality(Senders(q, "COMMIT", k))
             + IF q = r /\ k = n THEN 1 ELSE 0
        /\ Cardinality(Senders(q, "COMMIT", k)') >= Cardinality(Senders(q, "COMMIT", k))
        /\ Cardinality(Senders(q, "COMMIT", k)') \in Nat /\ Cardinality(Senders(q, "COMMIT", k)) \in Nat
  BY <1>1, ArrivalCounts
<1>9. ASSUME NEW q \in Replica PROVE CountersStand(q)'
  <2> SUFFICES ASSUME low_water_mark[q] = 0
               PROVE  /\ \A k \in Index :
                          /\ prepare_count[q][k] = Cardinality(Requesters(k))
                               + Cardinality(Senders(q, "PREPARE", k)')
                          /\ commit_count'[q][k] = Cardinality(Senders(q, "COMMIT", k)')
                          /\ k \in prepared_cert[q] => prepare_count[q][k] >= QuorumSize
                      /\ \A k : k = last_executed_seq[q] /\ k > 0 =>
                           Cardinality(Senders(q, "COMMIT", k)') >= QuorumSize
    BY <1>1, <1>7 DEF CountersStand, Index, QuorumSize
  <2>1. CountersStand(q)
    BY DEF PbftInv
  <2>2. q = r => i = n
    BY DEF i
  <2>3. ASSUME NEW k \in Index
        PROVE  commit_count'[q][k] = Cardinality(Senders(q, "COMMIT", k)')
    <3>1. commit_count[q][k] = Cardinality(Senders(q, "COMMIT", k))
      BY <2>1 DEF CountersStand
    <3>2. CASE q = r /\ k = n
      BY <3>1, <3>2, <2>2, <1>4, <1>8
    <3>3. CASE ~(q = r /\ k = n)
      <4>1. commit_count'[q][k] = commit_count[q][k]
        BY <3>3, <2>2, <1>4
      <4> QED
        BY <3>1, <3>3, <4>1, <1>8
    <3> QED
      BY <3>2, <3>3
  <2>4. ASSUME NEW k, k = last_executed_seq[q], k > 0
        PROVE  Cardinality(Senders(q, "COMMIT", k)') >= QuorumSize
    <3>1. Cardinality(Senders(q, "COMMIT", k)) >= QuorumSize
      BY <2>1, <2>4 DEF CountersStand
    <3> QED
      BY <3>1, <1>8, PbftNumbers
  <2> QED
    BY <2>1, <2>3, <2>4, <1>8 DEF CountersStand
<1>10. ASSUME NEW q \in Replica PROVE ExecutedOnQuorum(q)'
  <2>1. ExecutedOnQuorum(q)
    BY DEF PbftInv
  <2>2. last_executed_seq[q] > 0 =>
          \E k \in 0 .. MaxSeq : Cardinality(Senders(q, "COMMIT", k)') >= QuorumSize
    BY <2>1, <1>8, PbftNumbers DEF ExecutedOnQuorum
  <2> QED
    BY <2>1, <2>2, <1>1 DEF ExecutedOnQuorum, QuorumSize
<1> QED
  BY <1>6, <1>9, <1>10 DEF PbftInv, Replica

\* Executing a request keeps the invariant: it had its commits.
LEMMA PbftExecute ==
  ASSUME PbftInv, NEW r \in Replica, NEW n \in Nat, Execute(r, n), UNCHANGED current_view
  PROVE  PbftInv'
<1>1. /\ n > last_executed_seq[r] /\ InWindow(r, n)
      /\ commit_count[r][n - low_water_mark[r]] >= QuorumSize
      /\ last_executed_seq' = [last_executed_seq EXCEPT ![r] = n]
      /\ UNCHANGED <<last_seq_num, low_water_mark, prepare_count, commit_count,
                     prepared_cert, primaries, handled, current_view>>
  BY DEF Execute, IndexOf
<1>2. /\ \A q \in Replica : \A type, k : Senders(q, type, k)' = Senders(q, type, k)
      /\ \A k : Requesters(k)' = Requesters(k)
  BY <1>1 DEF Senders, Requesters
<1>3. PbftTyped' /\ SentOnce'
  BY <1>1 DEF PbftInv, PbftTyped, SentOnce
<1>4. /\ last_executed_seq'[r] = n
      /\ \A q \in Replica \ {r} : last_executed_seq'[q] = last_executed_seq[q]
  BY <1>1 DEF PbftInv, PbftTyped
<1>5. low_water_mark[r] = 0 => Cardinality(Senders(r, "COMMIT", n)) >= QuorumSize
  <2> SUFFICES ASSUME low_water_mark[r] = 0
               PROVE  Cardinality(Senders(r, "COMMIT", n)) >= QuorumSize
    OBVIOUS
  <2>1. n \in Index /\ n - low_water_mark[r] = n
    BY <1>1, PbftNumbers DEF InWindow, Index
  <2>2. commit_count[r][n] = Cardinality(Senders(r, "COMMIT", n))
    BY <2>1 DEF PbftInv, CountersStand
  <2> QED
    BY <2>1, <2>2, <1>1
<1>6. ASSUME NEW q \in Replica PROVE CountersStand(q)'
  <2>1. CountersStand(q)
    BY DEF PbftInv
  <2>2. CASE q = r
    BY <2>1, <2>2, <1>1, <1>2, <1>4, <1>5 DEF CountersStand, QuorumSize, Index
  <2>3. CASE q # r
    BY <2>1, <2>3, <1>1, <1>2, <1>4 DEF CountersStand, QuorumSize, Index
  <2> QED
    BY <2>2, <2>3
<1>7. \E k \in 0 .. MaxSeq : Cardinality(Senders(r, "COMMIT", k)) >= QuorumSize
  <2>1. CASE last_executed_seq[r] > 0
    BY <2>1 DEF PbftInv, ExecutedOnQuorum
  <2>2. CASE ~(last_executed_seq[r] > 0)
    <3>1. low_water_mark[r] = 0
      BY <2>2 DEF PbftInv, ExecutedOnQuorum, PbftTyped
    <3>2. n \in 0 .. MaxSeq
      BY <3>1, <1>5, SendersTyped, PbftNumbers DEF PbftInv
    <3> QED
      BY <3>1, <3>2, <1>5
  <2> QED
    BY <2>1, <2>2
<1>8. ASSUME NEW q \in Replica PROVE ExecutedOnQuorum(q)'
  <2>1. ExecutedOnQuorum(q)
    BY DEF PbftInv
  <2>2. CASE q = r
    <3>1. low_water_mark[r] <= n
      BY <1>1 DEF InWindow
    <3> QED
      BY <2>2, <3>1, <1>1, <1>2, <1>4, <1>7 DEF ExecutedOnQuorum, QuorumSize
  <2>3. CASE q # r
    BY <2>1, <2>3, <1>1, <1>2, <1>4 DEF ExecutedOnQuorum, QuorumSize
  <2> QED
    BY <2>2, <2>3
<1> QED
  BY <1>3, <1>6, <1>8 DEF PbftInv, Replica

\* A checkpoint keeps the invariant.
LEMMA PbftCreateCheckpoint ==
  ASSUME PbftInv, NEW r \in Replica, CreateCheckpoint(r), UNCHANGED current_view
  PROVE  PbftInv'
<1>1. /\ low_water_mark' = [low_water_mark EXCEPT ![r] = last_executed_seq[r]]
      /\ UNCHANGED <<last_seq_num, last_executed_seq, prepare_count, commit_count,
                     prepared_cert, primaries, handled, current_view>>
  BY DEF CreateCheckpoint
<1>2. /\ \A q \in Replica : \A type, k : Senders(q, type, k)' = Senders(q, type, k)
      /\ \A k : Requesters(k)' = Requesters(k)
  BY <1>1 DEF Senders, Requesters
<1>3. PbftTyped' /\ SentOnce'
  BY <1>1 DEF PbftInv, PbftTyped, SentOnce
<1>4. \A q \in Replica : /\ low_water_mark'[q] \in {low_water_mark[q], last_executed_seq[q]}
                         /\ last_executed_seq[q] \in Nat
  BY <1>1 DEF PbftInv, PbftTyped
<1>5. ASSUME NEW q \in Replica PROVE CountersStand(q)' /\ ExecutedOnQuorum(q)'
  <2>1. CountersStand(q) /\ ExecutedOnQuorum(q) /\ low_water_mark[q] \in Nat
    BY DEF PbftInv, PbftTyped
  <2>2. low_water_mark'[q] = 0 => low_water_mark[q] = 0
    BY <2>1, <1>4 DEF ExecutedOnQuorum
  <2>3. low_water_mark'[q] <= last_executed_seq[q]
    BY <2>1, <1>4 DEF ExecutedOnQuorum
  <2>4. CountersStand(q)'
    BY <2>1, <2>2, <1>1, <1>2 DEF CountersStand, QuorumSize, Index
  <2>5. ExecutedOnQuorum(q)'
    BY <2>1, <2>3, <1>1, <1>2 DEF ExecutedOnQuorum, QuorumSize
  <2> QED
    BY <2>4, <2>5
<1> QED
  BY <1>3, <1>5 DEF PbftInv, Replica

\* View changes touch nothing else, and only fall together.
LEMMA PbftViewStep ==
  ASSUME PbftInv,
         \/ \E r \in Replica : InitiateViewChange(r)
         \/ \E r \in Replica, view \in Nat : HandleViewChange(r, view)
  PROVE  /\ current_view' \in [Replica -> Nat]
         /\ \A r \in Replica : current_view'[r] < current_view[r] =>
              /\ \A s \in Replica : current_view'[s] = current_view'[r]
              /\ \E s \in Replica : current_view[s] < current_view'[r]
<1>1. current_view \in [Replica -> Nat]
  BY DEF PbftInv, PbftTyped
<1>2. ASSUME NEW r \in Replica, InitiateViewChange(r)
      PROVE  /\ \A q \in Replica : current_view'[q] = current_view[r] + 1
             /\ current_view' \in [Replica -> Nat]
             /\ current_view[r] < current_view[r] + 1
  BY <1>1, <1>2 DEF InitiateViewChange
<1>3. ASSUME NEW r \in Replica, NEW view \in Nat, HandleViewChange(r, view)
      PROVE  /\ \A q \in Replica : current_view'[q] >= current_view[q]
             /\ current_view' \in [Replica -> Nat]
  BY <1>1, <1>3 DEF HandleViewChange
<1>4. CASE \E r \in Replica : InitiateViewChange(r)
  BY <1>2, <1>4
<1>5. CASE \E r \in Replica, view \in Nat : HandleViewChange(r, view)
  BY <1>1, <1>3, <1>5
<1> QED
  BY <1>4, <1>5

PbftData == <<last_seq_num, low_water_mark, last_executed_seq,
              prepare_count, commit_count, prepared_cert, primaries, handled>>

\* The invariant of the replicas is inductive, and a view is lowered only for all at once.
LEMMA PbftInvStep ==
  ASSUME PbftInv, PbftStep \/ UNCHANGED pbftVars
  PROVE  /\ PbftInv'
         /\ \A r \in Replica : current_view'[r] < current_view[r] =>
              /\ \A s \in Replica : current_view'[s] = current_view'[r]
              /\ \E s \in Replica : current_view[s] < current_view'[r]
<1>0. current_view \in [Replica -> Nat]
  BY DEF PbftInv, PbftTyped
<1>1. ASSUME UNCHANGED PbftData, current_view' \in [Replica -> Nat]
      PROVE  PbftInv'
  <2>1. /\ \A q \in Replica : \A type, k : Senders(q, type, k)' = Senders(q, type, k)
        /\ \A k : Requesters(k)' = Requesters(k)
    BY <1>1 DEF PbftData, Senders, Requesters
  <2>2. PbftTyped' /\ SentOnce'
    BY <1>1 DEF PbftData, PbftInv, PbftTyped, SentOnce
  <2>3. ASSUME NEW q \in Replica PROVE CountersStand(q)' /\ ExecutedOnQuorum(q)'
    <3>1. CountersStand(q) /\ ExecutedOnQuorum(q)
      BY DEF PbftInv
    <3>2. CountersStand(q)'
      BY <3>1, <2>1, <1>1 DEF PbftData, CountersStand, QuorumSize, Index
    <3>3. ExecutedOnQuorum(q)'
      BY <3>1, <2>1, <1>1 DEF PbftData, ExecutedOnQuorum, QuorumSize
    <3> QED
      BY <3>2, <3>3
  <2> QED
    BY <2>2, <2>3 DEF PbftInv, Replica
<1>2. CASE UNCHANGED pbftVars
  BY <1>0, <1>1, <1>2 DEF pbftVars, PbftData
<1>3. CASE UNCHANGED PbftData /\ \/ \E r \in Replica : InitiateViewChange(r)
                                 \/ \E r \in Replica, view \in Nat : HandleViewChange(r, view)
  BY <1>1, <1>3, PbftViewStep
<1>4. CASE /\ UNCHANGED current_view
           /\ \/ \E p \in Replica : SendPrePrepare(p)
              \/ \E r \in Replica, s \in Replica, n \in 0 .. MaxSeq :
                   HandlePrepare(r, s, n) \/ HandleCommit(r, s, n)
              \/ \E r \in Replica, n \in Nat : Execute(r, n)
              \/ \E r \in Replica : CreateCheckpoint(r)
  <2>1. PbftInv'
    BY <1>4, PbftSendPrePrepare, PbftHandlePrepare, PbftHandleCommit, PbftExecute, PbftCreateCheckpoint
  <2> QED
    BY <2>1, <1>0, <1>4
<1>5. /\ Primary \subseteq Replica /\ Observed \subseteq Replica
      /\ 1 .. MaxSeq + Window \subseteq Nat /\ 1 .. MaxView \subseteq Nat
  BY PbftAssumption
<1>6. CASE PbftStep /\ concern = "REQUESTS"
  BY <1>4, <1>5, <1>6 DEF PbftStep
<1>7. CASE PbftStep /\ concern # "REQUESTS"
  BY <1>3, <1>5, <1>7 DEF PbftStep, PbftData
<1> QED
  BY <1>2, <1>6, <1>7 DEF PbftStep

\* The invariant gives what PbftQuorums says of a replica.
LEMMA PbftInvStands ==
  ASSUME PbftInv, NEW r \in Replica
  PROVE  StandsOnQuorums(r)
<1>1. CountersStand(r) /\ ExecutedOnQuorum(r)
  BY DEF PbftInv
<1>2. ASSUME low_water_mark[r] = 0, NEW n \in 0 .. MaxSeq,
             n \in prepared_cert[r], Cardinality(primaries[n]) <= 1
      PROVE  Cardinality(Senders(r, "PREPARE", n) \cup {r}) >= QuorumSize
  <2>1. n \in Index
    BY <1>2 DEF PbftInv, PbftTyped
  <2>2. QuorumSize <= Cardinality(Requesters(n)) + Cardinality(Senders(r, "PREPARE", n))
    BY <1>1, <1>2, <2>1 DEF CountersStand
  <2>3. Requesters(n) = primaries[n]
    BY DEF Requesters
  <2>4. r \notin Senders(r, "PREPARE", n)
    BY DEF PbftInv, SentOnce, Senders
  <2>5. Cardinality(Senders(r, "PREPARE", n) \cup {r}) = Cardinality(Senders(r, "PREPARE", n)) + 1
    BY <2>4, SendersTyped, FS_AddElement DEF PbftInv
  <2>6. /\ Cardinality(Requesters(n)) \in Nat /\ Cardinality(Senders(r, "PREPARE", n)) \in Nat
        /\ Cardinality(Requesters(n)) <= 1
    BY <1>2, <2>3, SendersTyped, RequestersTyped DEF PbftInv
  <2> QED
    BY <2>2, <2>5, <2>6, PbftNumbers
<1> QED
  BY <1>1, <1>2 DEF StandsOnQuorums, CountersStand, ExecutedOnQuorum

\* Certificates and executions stand on quorums, views only fall together.
THEOREM PbftStandsOnQuorums == VariantsSpec => PbftQuorums
<1>1. VariantsInit => PbftInv
  BY PbftInvInit DEF VariantsInit
<1>2. PbftInv /\ [VariantsNext]_variantVars => PbftInv'
  BY PbftInvStep, VariantSteps
<1>3. PbftInv => \A r \in Observed : StandsOnQuorums(r)
  BY PbftInvStands, PbftAssumption
<1>4. PbftInv /\ [VariantsNext]_variantVars => [FallTogether]_pbftVars
  BY PbftInvStep, VariantSteps DEF FallTogether
<1> QED
  BY <1>1, <1>2, <1>3, <1>4, PTL DEF VariantsSpec, PbftQuorums

--------------------------------------------------------------------------------
\* Direct Paxos.  A proposal number is taken as one natural number, its rank.

Number == Nat \X {0, 1}
Values == PaxosValue \cup {NoValue}

\* The order of proposal numbers is that of their ranks; the leader's is 2.
Rank(n) == 2 * n[1] + n[2]
PromisedRank(a) == Rank(acceptors[a].promised)
AcceptedRank(a) == Rank(acceptors[a].accepted)
ProposerRank == 2 * proposer.tries + 1

PaxosTyped ==
  /\ acceptors \in [Acceptor -> [promised : Number, accepted : Number, value : Values]]
  /\ decided \in [Slot -> Values]
  /\ proposer \in [tries : Nat, promised : SUBSET Acceptor, highest : Number, seen : Values,
                   proposed : Values, accepted : SUBSET Acceptor, decided : Values]
  /\ learner \in [count : Nat, value : Values, learned : BOOLEAN]
  /\ offered \subseteq PaxosValue /\ IsFiniteSet(offered)

\* An acceptor holds nothing, a value of the leader, or one of the other proposer.
AcceptorInOrder(a) ==
  /\ AcceptedRank(a) <= PromisedRank(a)
  /\ PromisedRank(a) <= 2 \/ PromisedRank(a) <= ProposerRank
  /\ IF acceptors[a].value = NoValue THEN AcceptedRank(a) = 0 ELSE AcceptedRank(a) >= 2
  /\ AcceptedRank(a) = 2 => acceptors[a].value \in offered
  /\ AcceptedRank(a) = ProposerRank =>
       proposer.proposed # NoValue /\ acceptors[a].value = proposer.proposed

PastLeader == {a \in Acceptor : PromisedRank(a) > 2}

\* Once the other proposer has a value, a majority no longer listens to the leader.
LeaderLost ==
  \/ \E a \in Acceptor : AcceptedRank(a) > 2
  \/ proposer.proposed # NoValue
  \/ Rank(proposer.highest) > 2
  => PaxosMajority(PastLeader)

ProposerInOrder ==
  /\ proposer.tries = 0 => proposer.promised = {} /\ proposer.proposed = NoValue
  /\ proposer.proposed = NoValue =>
       /\ proposer.accepted = {}
       /\ \A a \in proposer.promised : AcceptedRank(a) <= Rank(proposer.highest)
  /\ \A a \in proposer.accepted : AcceptedRank(a) = ProposerRank
  /\ \A a \in proposer.promised : PromisedRank(a) >= ProposerRank
  /\ Rank(proposer.highest) < ProposerRank
  /\ proposer.seen = NoValue => Rank(proposer.highest) = 0
  /\ Rank(proposer.highest) = 2 => proposer.seen \in offered

AcceptedFrom(m) == {a \in Acceptor : AcceptedRank(a) >= m}

\* A majority accepted v under m or since, and nobody accepts anything else any more.
ChosenAt(v, m) ==
  /\ m >= 2 /\ (m = 2 => v \in offered)
  /\ PaxosMajority(AcceptedFrom(m))
  /\ \A a \in AcceptedFrom(m) : acceptors[a].value = v
  /\ proposer.proposed \in {NoValue, v}
  /\ Rank(proposer.highest) >= m => proposer.seen = v

DecisionsChosen ==
  Cardinality(offered) <= 1 => \A v \in Decisions : \E m \in Nat : ChosenAt(v, m)

LearnerCounts ==
  proposer.tries <= 1 =>
    /\ learner.count = Cardinality(proposer.accepted)
    /\ learner.learned => learner.value = proposer.decided

Order == \A a \in Acceptor : AcceptorInOrder(a)

PaxosInv ==
  PaxosTyped /\ Order /\ LeaderLost /\ ProposerInOrder /\ DecisionsChosen /\ LearnerCounts

\* A proposal number as one natural number: the order of the numbers is theirs.
LEMMA RankOrders ==
  /\ \A m, n \in Number :
       /\ Rank(m) \in Nat
       /\ Before(m, n) <=> Rank(m) < Rank(n)
       /\ m = n <=> Rank(m) = Rank(n)
  /\ <<0, 0>> \in Number /\ Rank(<<0, 0>>) = 0
  /\ LeaderNumber \in Number /\ Rank(LeaderNumber) = 2
<1>1. ASSUME NEW m \in Number, NEW n \in Number
      PROVE  /\ Rank(m) \in Nat
             /\ Before(m, n) <=> Rank(m) < Rank(n)
             /\ m = n <=> Rank(m) = Rank(n)
  <2>1. /\ m = <<m[1], m[2]>> /\ n = <<n[1], n[2]>>
        /\ m[1] \in Nat /\ n[1] \in Nat /\ m[2] \in {0, 1} /\ n[2] \in {0, 1}
    BY DEF Number
  <2>2. Rank(m) \in Nat /\ (Before(m, n) <=> Rank(m) < Rank(n))
    BY <2>1 DEF Rank, Before
  <2>3. Rank(m) = Rank(n) => m[1] = n[1] /\ m[2] = n[2]
    BY <2>1 DEF Rank
  <2> QED
    BY <2>1, <2>2, <2>3
<1>2. <<0, 0>> \in Number /\ Rank(<<0, 0>>) = 0
  BY DEF Rank, Number
<1>3. LeaderNumber \in Number /\ Rank(LeaderNumber) = 2
  BY DEF Rank, Number, LeaderNumber
<1> QED
  BY <1>1, <1>2, <1>3

\* Every proposal number in the state is a number, and has a rank.
LEMMA RanksTyped ==
  ASSUME PaxosTyped
  PROVE  /\ \A a \in Acceptor :
              /\ acceptors[a].promised \in Number /\ acceptors[a].accepted \in Number
              /\ acceptors[a].value \in Values
              /\ PromisedRank(a) \in Nat /\ AcceptedRank(a) \in Nat
         /\ ProposerNumber \in Number /\ Rank(ProposerNumber) = ProposerRank
         /\ proposer.tries \in Nat /\ ProposerRank \in Nat
         /\ proposer.highest \in Number /\ Rank(proposer.highest) \in Nat
         /\ \A v \in Values : v = NoValue \/ v \in Nat
         /\ \A v \in PaxosValue : v \in Values /\ v # NoValue
<1>1. \A a \in Acceptor : /\ acceptors[a].promised \in Number /\ acceptors[a].accepted \in Number
                          /\ acceptors[a].value \in Values
  BY DEF PaxosTyped
<1>2. proposer.tries \in Nat /\ proposer.highest \in Number
  BY DEF PaxosTyped
<1>3. ProposerNumber \in Number /\ Rank(ProposerNumber) = ProposerRank
  BY <1>2 DEF ProposerNumber, ProposerRank, Rank, Number
<1>4. \A v \in PaxosValue : v \in Nat
  BY DirectPaxosAssumption
<1> QED
  BY <1>1, <1>2, <1>3, <1>4, RankOrders DEF PromisedRank, AcceptedRank, ProposerRank, Values, NoValue

\* Majorities
LEMMA MajoritiesShare ==
  ASSUME NEW A \in SUBSET Acceptor, NEW B \in SUBSET Acceptor, PaxosMajority(A), PaxosMajority(B)
  PROVE  A \cap B # {}
<1>1. IsFiniteSet(Acceptor) /\ IsFiniteSet(A) /\ IsFiniteSet(B)
  BY DirectPaxosAssumption, FS_Subset
<1>2. /\ Cardinality(Acceptor) \in Nat /\ Cardinality(A) \in Nat /\ Cardinality(B) \in Nat
      /\ Cardinality(A \cap B) >= Cardinality(A) + Cardinality(B) - Cardinality(Acceptor)
      /\ Cardinality(A \cap B) \in Nat
  BY <1>1, FS_CardinalityType, SharedMembers
<1>3. Cardinality(A \cap B) > 0
  BY <1>2 DEF PaxosMajority
<1> QED
  BY <1>3, FS_EmptySet

\* A set of acceptors that holds a majority is a majority.
LEMMA MajorityKept ==
  ASSUME NEW A \in SUBSET Acceptor, NEW B \in SUBSET Acceptor, A \subseteq B, PaxosMajority(A)
  PROVE  PaxosMajority(B)
<1>1. IsFiniteSet(Acceptor) /\ IsFiniteSet(A) /\ IsFiniteSet(B)
  BY DirectPaxosAssumption, FS_Subset
<1>2. /\ Cardinality(Acceptor) \in Nat /\ Cardinality(A) \in Nat /\ Cardinality(B) \in Nat
      /\ Cardinality(A) <= Cardinality(B)
  BY <1>1, FS_CardinalityType, FS_Subset
<1> QED
  BY <1>2 DEF PaxosMajority

\* A set of at most one element
LEMMA OnlyOne ==
  ASSUME NEW S, IsFiniteSet(S), Cardinality(S) <= 1, NEW x \in S, NEW y \in S
  PROVE  x = y
<1>1. {x, y} \in SUBSET S
  OBVIOUS
<1>2. Cardinality({x, y}) <= 1 /\ IsFiniteSet({x, y})
  BY <1>1, FS_Subset, FS_CardinalityType
<1>3. IsFiniteSet({x}) /\ Cardinality({x}) = 1
  BY FS_Singleton
<1>4. {x, y} = {x} \cup {y}
  OBVIOUS
<1>5. Cardinality({x, y}) = IF y \in {x} THEN 1 ELSE 2
  BY <1>3, <1>4, FS_AddElement
<1> QED
  BY <1>2, <1>5

\* A set whose members are all equal has at most one.
LEMMA AtMostOne ==
  ASSUME NEW S, \A x, y \in S : x = y
  PROVE  IsFiniteSet(S) /\ Cardinality(S) <= 1
<1>1. CASE S = {}
  BY <1>1, FS_EmptySet
<1>2. ASSUME NEW x \in S PROVE IsFiniteSet(S) /\ Cardinality(S) <= 1
  <2>1. S = {x}
    OBVIOUS
  <2>2. IsFiniteSet({x}) /\ Cardinality({x}) = 1
    BY FS_Singleton
  <2> QED
    BY <2>1, <2>2
<1> QED
  BY <1>1, <1>2

\* What is chosen stays chosen, while the leader sends one value only.
ChosenStays ==
  Cardinality(offered') <= 1 =>
    \A v, m : v # NoValue /\ m \in Nat /\ ChosenAt(v, m) => ChosenAt(v, m)'

\* What holds of a step that only raises promises, up to the leader's number
LEMMA PromisesRaised ==
  ASSUME PaxosInv,
         acceptors' \in [Acceptor -> [promised : Number, accepted : Number, value : Values]],
         \A a \in Acceptor :
           /\ acceptors'[a].accepted = acceptors[a].accepted
           /\ acceptors'[a].value = acceptors[a].value
           /\ PromisedRank(a)' >= PromisedRank(a)
           /\ PromisedRank(a)' <= 2 \/ PromisedRank(a)' = PromisedRank(a),
         UNCHANGED <<decided, proposer, learner, offered>>
  PROVE  PaxosInv' /\ ChosenStays
<1>1. PaxosTyped' /\ LearnerCounts'
  BY DEF PaxosInv, PaxosTyped, LearnerCounts
<1>2. /\ \A a \in Acceptor : AcceptedRank(a)' = AcceptedRank(a)
      /\ ProposerRank' = ProposerRank
      /\ \A m : AcceptedFrom(m)' = AcceptedFrom(m)
      /\ Decisions' = Decisions
  BY DEF AcceptedRank, ProposerRank, AcceptedFrom, Decisions
<1>3. /\ \A a \in Acceptor : PromisedRank(a) \in Nat /\ PromisedRank(a)' \in Nat /\ AcceptedRank(a) \in Nat
      /\ ProposerRank \in Nat
  BY <1>1, RanksTyped, RankOrders DEF PaxosInv, PromisedRank
<1>4. PastLeader' = PastLeader
  BY <1>3 DEF PastLeader
<1>5. Order'
  BY <1>2, <1>3 DEF PaxosInv, Order, AcceptorInOrder
<1>6. LeaderLost'
  BY <1>2, <1>4 DEF PaxosInv, LeaderLost, PaxosMajority
<1>7. ProposerInOrder'
  BY <1>2, <1>3 DEF PaxosInv, ProposerInOrder, PaxosTyped
<1>8. \A v, m : ChosenAt(v, m) => ChosenAt(v, m)'
  BY <1>2 DEF ChosenAt, AcceptedFrom, PaxosMajority
<1>9. DecisionsChosen'
  BY <1>2, <1>8 DEF PaxosInv, DecisionsChosen
<1> QED
  BY <1>1, <1>5, <1>6, <1>7, <1>8, <1>9 DEF PaxosInv, ChosenStays

\* The leader's prepare at every acceptor keeps the invariant and what is chosen.
LEMMA LeaderPrepares ==
  ASSUME PaxosInv, acceptors' = AllPrepared(acceptors, LeaderNumber),
         UNCHANGED <<decided, proposer, learner, offered>>
  PROVE  PaxosInv' /\ ChosenStays
<1>1. ASSUME NEW a \in Acceptor
      PROVE  /\ acceptors'[a] \in [promised : Number, accepted : Number, value : Values]
             /\ acceptors'[a].accepted = acceptors[a].accepted
             /\ acceptors'[a].value = acceptors[a].value
             /\ PromisedRank(a)' >= PromisedRank(a)
             /\ PromisedRank(a)' <= 2 \/ PromisedRank(a)' = PromisedRank(a)
  <2>1. /\ acceptors[a] \in [promised : Number, accepted : Number, value : Values]
        /\ PromisedRank(a) \in Nat
    BY RanksTyped DEF PaxosInv, PaxosTyped
  <2>2. acceptors'[a] = IF PromisedRank(a) < 2 THEN [acceptors[a] EXCEPT !.promised = LeaderNumber]
                        ELSE acceptors[a]
    BY <2>1, RankOrders, RanksTyped DEF AllPrepared, Prepared, Promises, PromisedRank
  <2>3. CASE PromisedRank(a) < 2
    <3>1. acceptors'[a].promised = LeaderNumber
      BY <2>1, <2>2, <2>3
    <3>2. PromisedRank(a)' = 2
      BY <3>1, RankOrders DEF PromisedRank
    <3> QED
      BY <2>1, <2>2, <2>3, <3>2, RankOrders
  <2>4. CASE ~(PromisedRank(a) < 2)
    BY <2>1, <2>2, <2>4 DEF PromisedRank
  <2> QED
    BY <2>3, <2>4
<1>2. acceptors' \in [Acceptor -> [promised : Number, accepted : Number, value : Values]]
  BY <1>1 DEF AllPrepared
<1> QED
  BY <1>1, <1>2, PromisesRaised

\* The leader's accept reaches those that have not promised the other proposer.
LEMMA LeaderSendsAccept ==
  ASSUME PaxosInv, NEW s \in Slot, NEW v \in PaxosValue, Propose(s, v), offered' = offered \cup {v},
         \A a \in Acceptor :
           acceptors'[a] = IF PromisedRank(a) > 2 THEN acceptors[a]
                           ELSE [promised |-> LeaderNumber, accepted |-> LeaderNumber, value |-> v],
         acceptors' \in [Acceptor -> [promised : Number, accepted : Number, value : Values]],
         decided' = IF PaxosMajority(Acceptor \ PastLeader) THEN [decided EXCEPT ![s] = v] ELSE decided
  PROVE  PaxosInv' /\ ChosenStays
<1>1. /\ UNCHANGED <<proposer, learner, instance>>
      /\ PaxosTyped /\ Order /\ LeaderLost /\ ProposerInOrder /\ DecisionsChosen /\ LearnerCounts
  BY DEF Propose, PaxosInv
<1>2. PaxosTyped' /\ LearnerCounts'
  <2>1. decided' \in [Slot -> Values]
    BY RanksTyped DEF PaxosInv, PaxosTyped
  <2>2. offered' \subseteq PaxosValue /\ IsFiniteSet(offered')
    BY FS_AddElement DEF PaxosInv, PaxosTyped
  <2> QED
    BY <1>1, <2>1, <2>2 DEF PaxosTyped, LearnerCounts
<1>3. /\ \A a \in Acceptor : PromisedRank(a) \in Nat /\ AcceptedRank(a) \in Nat
      /\ ProposerRank \in Nat /\ ProposerRank' = ProposerRank /\ ProposerRank # 2
      /\ v # NoValue /\ Rank(proposer.highest) \in Nat
  BY <1>1, RanksTyped DEF ProposerRank
<1>4. \A a \in Acceptor \ PastLeader :
        PromisedRank(a)' = 2 /\ AcceptedRank(a)' = 2 /\ acceptors'[a].value = v
  BY <1>3, RankOrders DEF PastLeader, PromisedRank, AcceptedRank
<1>5. \A a \in PastLeader : /\ PromisedRank(a)' = PromisedRank(a) /\ AcceptedRank(a)' = AcceptedRank(a)
                            /\ acceptors'[a] = acceptors[a] /\ PromisedRank(a) > 2
  BY <1>3, RankOrders DEF PastLeader, PromisedRank, AcceptedRank
<1>6. PastLeader \subseteq Acceptor
  BY DEF PastLeader
<1>7. PastLeader' = PastLeader
  BY <1>3, <1>4, <1>5, <1>6 DEF PastLeader
<1>8. Order'
  <2> SUFFICES ASSUME NEW a \in Acceptor PROVE AcceptorInOrder(a)'
    BY DEF Order
  <2>1. AcceptorInOrder(a)
    BY <1>1 DEF Order
  <2>2. CASE a \in PastLeader
    BY <1>1, <1>3, <1>5, <2>1, <2>2 DEF AcceptorInOrder
  <2>3. CASE a \notin PastLeader
    BY <1>3, <1>4, <2>3 DEF AcceptorInOrder
  <2> QED
    BY <2>2, <2>3
<1>9. LeaderLost'
  <2>1. \A a \in Acceptor : AcceptedRank(a)' > 2 => AcceptedRank(a) > 2
    BY <1>4, <1>5, <1>6
  <2> QED
    BY <1>1, <1>7, <2>1 DEF LeaderLost, PaxosMajority
<1>10. ProposerInOrder'
  <2>1. ASSUME NEW a \in proposer.promised \cup proposer.accepted PROVE a \in PastLeader
    <3>1. a \in Acceptor /\ AcceptedRank(a) <= PromisedRank(a)
      BY <1>1 DEF PaxosTyped, Order, AcceptorInOrder
    <3>2. proposer.tries \in Nat /\ proposer.tries # 0
      BY <1>1 DEF ProposerInOrder, PaxosTyped
    <3>3. PromisedRank(a) >= ProposerRank
      BY <1>1, <1>3, <3>1 DEF ProposerInOrder
    <3>4. ProposerRank > 2
      BY <3>2 DEF ProposerRank
    <3> QED
      BY <1>3, <3>1, <3>3, <3>4 DEF PastLeader
  <2>2. \A a \in proposer.promised \cup proposer.accepted :
          PromisedRank(a)' = PromisedRank(a) /\ AcceptedRank(a)' = AcceptedRank(a)
    BY <1>5, <2>1
  <2> QED
    BY <1>1, <1>3, <2>2 DEF ProposerInOrder
<1>11. ASSUME NEW u, NEW m \in Nat, ChosenAt(u, m), Cardinality(offered') <= 1
       PROVE  ChosenAt(u, m)'
  <2>1. AcceptedFrom(m) \subseteq AcceptedFrom(m)'
    <3> SUFFICES ASSUME NEW a \in AcceptedFrom(m) PROVE AcceptedRank(a)' >= m
      BY DEF AcceptedFrom
    <3>1. a \in Acceptor /\ AcceptedRank(a) >= m /\ AcceptedRank(a) <= PromisedRank(a)
      BY <1>1 DEF AcceptedFrom, Order, AcceptorInOrder
    <3>2. CASE a \in PastLeader
      BY <3>1, <3>2, <1>5
    <3>3. CASE a \notin PastLeader
      <4>1. PromisedRank(a) <= 2
        BY <3>1, <3>3, <1>3 DEF PastLeader
      <4> QED
        BY <4>1, <3>1, <3>3, <1>3, <1>4
    <3> QED
      BY <3>2, <3>3
  <2>2. PaxosMajority(AcceptedFrom(m)')
    <3>1. AcceptedFrom(m)' \in SUBSET Acceptor /\ AcceptedFrom(m) \in SUBSET Acceptor
      BY DEF AcceptedFrom
    <3> QED
      BY <2>1, <3>1, <1>11, MajorityKept DEF ChosenAt
  <2>3. ASSUME NEW a \in AcceptedFrom(m)' PROVE acceptors'[a].value = u
    <3>1. a \in Acceptor /\ AcceptedRank(a)' >= m
      BY <2>3 DEF AcceptedFrom
    <3>2. CASE a \in PastLeader
      BY <3>1, <3>2, <1>5, <1>11 DEF ChosenAt, AcceptedFrom
    <3>3. CASE a \notin PastLeader
      <4>1. m = 2
        BY <3>1, <3>3, <1>4, <1>11 DEF ChosenAt
      <4>2. u \in offered' /\ v \in offered'
        BY <4>1, <1>11 DEF ChosenAt
      <4>3. u = v
        BY <4>2, <1>2, <1>11, OnlyOne DEF PaxosTyped
      <4> QED
        BY <3>1, <3>3, <4>3, <1>4
    <3> QED
      BY <3>2, <3>3
  <2> QED
    BY <2>2, <2>3, <1>1, <1>11 DEF ChosenAt, PaxosMajority
<1>12. ASSUME PaxosMajority(Acceptor \ PastLeader), Cardinality(offered') <= 1
       PROVE  ChosenAt(v, 2)'
  <2>1. ~PaxosMajority(PastLeader)
    BY <1>6, <1>12, MajoritiesShare
  <2>2. /\ \A a \in Acceptor : ~(AcceptedRank(a) > 2)
        /\ proposer.proposed = NoValue /\ ~(Rank(proposer.highest) > 2)
    BY <1>1, <2>1 DEF LeaderLost
  <2>3. PaxosMajority(AcceptedFrom(2)')
    <3>1. Acceptor \ PastLeader \subseteq AcceptedFrom(2)'
      BY <1>4 DEF AcceptedFrom
    <3>2. AcceptedFrom(2)' \in SUBSET Acceptor
      BY DEF AcceptedFrom
    <3> QED
      BY <1>12, <3>1, <3>2, MajorityKept
  <2>4. ASSUME NEW w \in offered' PROVE w = v
    BY <1>2, <1>12, <2>4, OnlyOne DEF PaxosTyped
  <2>5. ASSUME NEW a \in AcceptedFrom(2)' PROVE acceptors'[a].value = v
    <3>1. a \in Acceptor /\ AcceptedRank(a)' >= 2
      BY <2>5 DEF AcceptedFrom
    <3>2. CASE a \in PastLeader
      <4>1. AcceptedRank(a) = 2
        BY <3>1, <3>2, <1>3, <1>5, <2>2
      <4>2. acceptors[a].value \in offered'
        BY <3>1, <4>1, <1>1 DEF Order, AcceptorInOrder
      <4> QED
        BY <3>2, <4>2, <2>4, <1>5
    <3>3. CASE a \notin PastLeader
      BY <3>1, <3>3, <1>4
    <3> QED
      BY <3>2, <3>3
  <2>6. Rank(proposer.highest) >= 2 => proposer.seen = v
    <3> SUFFICES ASSUME Rank(proposer.highest) >= 2 PROVE proposer.seen = v
      OBVIOUS
    <3>1. Rank(proposer.highest) = 2
      BY <2>2, <1>3
    <3>2. proposer.seen \in offered'
      BY <3>1, <1>1 DEF ProposerInOrder
    <3> QED
      BY <3>2, <2>4
  <2> QED
    BY <2>2, <2>3, <2>5, <2>6, <1>1 DEF ChosenAt, PaxosMajority
<1>13. DecisionsChosen'
  <2> SUFFICES ASSUME Cardinality(offered') <= 1, NEW u \in Decisions'
               PROVE  \E m \in Nat : ChosenAt(u, m)'
    BY DEF DecisionsChosen
  <2>1. u \in Decisions \/ (u = v /\ PaxosMajority(Acceptor \ PastLeader))
    BY <1>1 DEF Decisions, PaxosTyped
  <2>2. CASE u \in Decisions
    <3>1. offered \in SUBSET offered' /\ IsFiniteSet(offered')
      BY <1>2 DEF PaxosTyped
    <3>2. Cardinality(offered) <= 1
      <4>1. Cardinality(offered) <= Cardinality(offered')
        BY <3>1, FS_Subset
      <4>2. Cardinality(offered) \in Nat /\ Cardinality(offered') \in Nat
        BY <3>1, FS_Subset, FS_CardinalityType
      <4> QED
        BY <4>1, <4>2
    <3>3. PICK m \in Nat : ChosenAt(u, m)
      BY <2>2, <3>2, <1>1 DEF DecisionsChosen
    <3> QED
      BY <3>3, <1>11
  <2>3. CASE u = v /\ PaxosMajority(Acceptor \ PastLeader)
    BY <2>3, <1>12
  <2> QED
    BY <2>1, <2>2, <2>3
<1> QED
  BY <1>2, <1>8, <1>9, <1>10, <1>11, <1>13 DEF PaxosInv, ChosenStays

\* multi_paxos_propose either only prepares or sends its accept to all.
LEMMA LeaderProposes ==
  ASSUME PaxosInv, NEW s \in Slot, NEW v \in PaxosValue, Propose(s, v)
  PROVE  /\ PaxosInv' /\ ChosenStays
         /\ PaxosMajority(PastLeader) => decided' = decided
<1> DEFINE electing == ~leader.phase1_done
           accs == IF electing THEN AllPrepared(acceptors, LeaderNumber) ELSE acceptors
<1>1. CASE electing /\ ~Elected(acceptors)
  <2>1. acceptors' = AllPrepared(acceptors, LeaderNumber)
    BY <1>1 DEF Propose, ProposeSlot
  <2>2. UNCHANGED <<decided, proposer, learner, offered>>
    BY <1>1 DEF Propose, ProposeSlot
  <2> QED
    BY <2>1, <2>2, LeaderPrepares
<1>2. CASE ~(electing /\ ~Elected(acceptors))
  <2> DEFINE accepting == {a \in Acceptor : Accepts(accs[a], LeaderNumber)}
  <2>1. /\ acceptors' = [a \in Acceptor |-> Accepted(accs[a], LeaderNumber, v)]
        /\ decided' = IF PaxosMajority(accepting) THEN [decided EXCEPT ![s] = v] ELSE decided
        /\ offered' = offered \cup {v}
    BY <1>2 DEF Propose, ProposeSlot
  <2>2. ASSUME NEW a \in Acceptor
        PROVE  /\ Accepts(accs[a], LeaderNumber) <=> ~(PromisedRank(a) > 2)
               /\ PromisedRank(a) > 2 => accs[a] = acceptors[a]
    <3>1. /\ acceptors[a] \in [promised : Number, accepted : Number, value : Values]
          /\ acceptors[a].promised \in Number
          /\ PromisedRank(a) \in Nat /\ PromisedRank(a) = Rank(acceptors[a].promised)
      BY RanksTyped DEF PaxosInv, PaxosTyped, PromisedRank
    <3>2. accs[a] = acceptors[a] \/ accs[a] = Prepared(acceptors[a], LeaderNumber)
      BY DEF AllPrepared
    <3>3. Promises(acceptors[a], LeaderNumber) <=> PromisedRank(a) < 2
      BY <3>1, RankOrders DEF Promises
    <3>4. Accepts(acceptors[a], LeaderNumber) <=> ~(PromisedRank(a) > 2)
      BY <3>1, RankOrders DEF Accepts
    <3>5. CASE PromisedRank(a) < 2
      <4>1. Prepared(acceptors[a], LeaderNumber).promised = LeaderNumber
        BY <3>1, <3>3, <3>5 DEF Prepared
      <4>2. Accepts(Prepared(acceptors[a], LeaderNumber), LeaderNumber)
        BY <4>1, RankOrders DEF Accepts
      <4> QED
        BY <3>1, <3>2, <3>4, <3>5, <4>2
    <3>6. CASE ~(PromisedRank(a) < 2)
      <4>1. accs[a] = acceptors[a]
        BY <3>2, <3>3, <3>6 DEF Prepared
      <4> QED
        BY <4>1, <3>4
    <3> QED
      BY <3>5, <3>6
  <2> HIDE DEF accs
  <2>3. accepting = Acceptor \ PastLeader
    BY <2>2 DEF PastLeader
  <2>4. \A a \in Acceptor :
          acceptors'[a] = IF PromisedRank(a) > 2 THEN acceptors[a]
                          ELSE [promised |-> LeaderNumber, accepted |-> LeaderNumber, value |-> v]
    BY <2>1, <2>2 DEF Accepted
  <2>5. \A a \in Acceptor : acceptors'[a] \in [promised : Number, accepted : Number, value : Values]
    <3>1. \A a \in Acceptor : acceptors[a] \in [promised : Number, accepted : Number, value : Values]
      BY DEF PaxosInv, PaxosTyped
    <3>2. LeaderNumber \in Number /\ v \in Values
      BY RankOrders DEF Values
    <3> QED
      BY <2>4, <3>1, <3>2
  <2>6. acceptors' \in [Acceptor -> [promised : Number, accepted : Number, value : Values]]
    BY <2>1, <2>5
  <2> HIDE DEF accepting
  <2>7. decided' = IF PaxosMajority(Acceptor \ PastLeader) THEN [decided EXCEPT ![s] = v] ELSE decided
    BY <2>1, <2>3
  <2>8. PaxosInv' /\ ChosenStays
    BY <2>1, <2>4, <2>6, <2>7, LeaderSendsAccept
  <2>9. PaxosMajority(PastLeader) => ~PaxosMajority(Acceptor \ PastLeader)
    BY MajoritiesShare DEF PastLeader
  <2> QED
    BY <2>7, <2>8, <2>9
<1> QED
  BY <1>1, <1>2

\* A new proposal keeps the invariant and what is chosen.
LEMMA ProposerStarts ==
  ASSUME PaxosInv, StartProposal
  PROVE  PaxosInv' /\ ChosenStays
<1>1. /\ PaxosTyped /\ Order /\ LeaderLost /\ ProposerInOrder /\ DecisionsChosen /\ LearnerCounts
      /\ proposer' = [proposer EXCEPT !.tries = @ + 1, !.promised = {}, !.highest = <<0, 0>>,
                                      !.seen = NoValue, !.proposed = NoValue, !.accepted = {}]
      /\ UNCHANGED <<acceptors, leader, decided, instance, learner, offered>>
  BY DEF StartProposal, PaxosInv
<1>2. /\ proposer'.tries = proposer.tries + 1 /\ proposer'.promised = {} /\ proposer'.highest = <<0, 0>>
      /\ proposer'.seen = NoValue /\ proposer'.proposed = NoValue /\ proposer'.accepted = {}
      /\ proposer'.decided = proposer.decided
  BY <1>1 DEF PaxosTyped
<1>3. PaxosTyped'
  <2>1. /\ proposer.tries + 1 \in Nat /\ {} \in SUBSET Acceptor
        /\ <<0, 0>> \in Number /\ NoValue \in Values
    BY <1>1, RankOrders DEF PaxosTyped, Values
  <2>2. proposer' \in [tries : Nat, promised : SUBSET Acceptor, highest : Number, seen : Values,
                       proposed : Values, accepted : SUBSET Acceptor, decided : Values]
    BY <1>1, <2>1 DEF PaxosTyped
  <2> QED
    BY <2>2, <1>1 DEF PaxosTyped
<1>4. /\ \A a \in Acceptor : PromisedRank(a) \in Nat /\ AcceptedRank(a) \in Nat
      /\ ProposerRank \in Nat /\ ProposerRank' = ProposerRank + 2 /\ ProposerRank > 0
      /\ proposer.tries \in Nat
  BY <1>1, <1>2, RanksTyped DEF ProposerRank
<1>5. /\ \A a : PromisedRank(a)' = PromisedRank(a) /\ AcceptedRank(a)' = AcceptedRank(a)
      /\ PastLeader' = PastLeader
      /\ \A m : AcceptedFrom(m)' = AcceptedFrom(m)
      /\ Decisions' = Decisions
      /\ Rank(proposer'.highest) = 0
  BY <1>1, <1>2, RankOrders DEF PromisedRank, AcceptedRank, PastLeader, AcceptedFrom, Decisions
<1>6. Order'
  <2> SUFFICES ASSUME NEW a \in Acceptor PROVE AcceptorInOrder(a)'
    BY DEF Order
  <2>1. AcceptorInOrder(a)
    BY <1>1 DEF Order
  <2> QED
    BY <2>1, <1>1, <1>4, <1>5 DEF AcceptorInOrder, ProposerRank
<1>7. LeaderLost'
  BY <1>1, <1>2, <1>5 DEF LeaderLost, PaxosMajority
<1>8. ProposerInOrder'
  BY <1>2, <1>4, <1>5 DEF ProposerInOrder
<1>9. \A v, m : m \in Nat /\ ChosenAt(v, m) => ChosenAt(v, m)'
  BY <1>1, <1>2, <1>5 DEF ChosenAt, PaxosMajority
<1>10. DecisionsChosen'
  BY <1>1, <1>5, <1>9 DEF DecisionsChosen
<1>11. LearnerCounts'
  <2> SUFFICES ASSUME proposer'.tries <= 1
               PROVE  learner.count = Cardinality({}) /\ (learner.learned => learner.value = proposer.decided)
    BY <1>1, <1>2 DEF LearnerCounts
  <2>1. proposer.tries = 0
    BY <1>2, <1>4
  <2>2. proposer.accepted = {}
    BY <2>1, <1>1 DEF ProposerInOrder
  <2> QED
    BY <2>1, <2>2, <1>1 DEF LearnerCounts
<1> QED
  BY <1>3, <1>6, <1>7, <1>8, <1>9, <1>10, <1>11 DEF PaxosInv, ChosenStays

\* The proposer's prepare at one acceptor keeps the invariant and what is chosen.
LEMMA ProposerPrepares ==
  ASSUME PaxosInv, NEW b \in Acceptor, PrepareAt(b)
  PROVE  PaxosInv' /\ ChosenStays
<1> DEFINE reports == acceptors[b].value # NoValue /\ Before(proposer.highest, acceptors[b].accepted)
<1>1. /\ PaxosTyped /\ Order /\ LeaderLost /\ ProposerInOrder /\ DecisionsChosen /\ LearnerCounts
      /\ proposer.tries > 0 /\ proposer.proposed = NoValue
      /\ Promises(acceptors[b], ProposerNumber)
      /\ acceptors' = [acceptors EXCEPT ![b] = Prepared(@, ProposerNumber)]
      /\ proposer' = [proposer EXCEPT
           !.promised = @ \cup {b},
           !.highest = IF reports THEN acceptors[b].accepted ELSE @,
           !.seen = IF reports THEN acceptors[b].value ELSE @]
      /\ UNCHANGED <<leader, decided, instance, learner, offered>>
  BY DEF PrepareAt, PaxosInv
<1>2. /\ \A a \in Acceptor : /\ PromisedRank(a) \in Nat /\ AcceptedRank(a) \in Nat
                             /\ acceptors[a].value \in Values /\ acceptors[a].accepted \in Number
      /\ ProposerRank \in Nat /\ proposer.tries \in Nat /\ Rank(proposer.highest) \in Nat
      /\ proposer.highest \in Number /\ ProposerRank > 2
  BY <1>1, RanksTyped DEF ProposerRank
<1>3. PromisedRank(b) < ProposerRank
  BY <1>1, RankOrders, RanksTyped DEF Promises, PromisedRank
<1>4. reports <=> acceptors[b].value # NoValue /\ Rank(proposer.highest) < AcceptedRank(b)
  BY <1>2, RankOrders DEF AcceptedRank
<1> HIDE DEF reports
<1>5. /\ proposer'.tries = proposer.tries /\ proposer'.promised = proposer.promised \cup {b}
      /\ proposer'.highest = IF reports THEN acceptors[b].accepted ELSE proposer.highest
      /\ proposer'.seen = IF reports THEN acceptors[b].value ELSE proposer.seen
      /\ proposer'.proposed = NoValue /\ proposer'.accepted = proposer.accepted
      /\ proposer'.decided = proposer.decided
  BY <1>1 DEF PaxosTyped
<1>6. /\ Rank(proposer'.highest) = IF reports THEN AcceptedRank(b) ELSE Rank(proposer.highest)
      /\ ProposerRank' = ProposerRank
  BY <1>5 DEF AcceptedRank, ProposerRank
<1>7. acceptors'[b] = [acceptors[b] EXCEPT !.promised = ProposerNumber]
  BY <1>1 DEF Prepared, PaxosTyped
<1>8. /\ acceptors'[b] \in [promised : Number, accepted : Number, value : Values]
      /\ acceptors'[b].promised = ProposerNumber /\ acceptors'[b].accepted = acceptors[b].accepted
      /\ acceptors'[b].value = acceptors[b].value
  <2>1. acceptors[b] \in [promised : Number, accepted : Number, value : Values] /\ ProposerNumber \in Number
    BY <1>1, RanksTyped DEF PaxosTyped
  <2> QED
    BY <1>7, <2>1
<1>9. /\ \A a \in Acceptor \ {b} : acceptors'[a] = acceptors[a]
      /\ acceptors' \in [Acceptor -> [promised : Number, accepted : Number, value : Values]]
  BY <1>1, <1>7, <1>8 DEF PaxosTyped
<1>10. /\ PromisedRank(b)' = ProposerRank
       /\ \A a \in Acceptor \ {b} : PromisedRank(a)' = PromisedRank(a)
       /\ \A a \in Acceptor : AcceptedRank(a)' = AcceptedRank(a) /\ acceptors'[a].value = acceptors[a].value
  BY <1>1, <1>8, <1>9, RanksTyped DEF PromisedRank, AcceptedRank
<1>11. PaxosTyped'
  <2>1. proposer' \in [tries : Nat, promised : SUBSET Acceptor, highest : Number, seen : Values,
                       proposed : Values, accepted : SUBSET Acceptor, decided : Values]
    <3>1. CASE reports
      BY <3>1, <1>1, <1>2 DEF PaxosTyped
    <3>2. CASE ~reports
      BY <3>2, <1>1, <1>2 DEF PaxosTyped
    <3> QED
      BY <3>1, <3>2
  <2> QED
    BY <2>1, <1>1, <1>9 DEF PaxosTyped
<1>12. PaxosMajority(PastLeader) => PaxosMajority(PastLeader')
  <2>1. PastLeader \subseteq PastLeader'
    BY <1>2, <1>10 DEF PastLeader
  <2>2. PastLeader \in SUBSET Acceptor /\ PastLeader' \in SUBSET Acceptor
    BY DEF PastLeader
  <2> QED
    BY <2>1, <2>2, MajorityKept
<1>13. AcceptorInOrder(b)
  BY <1>1 DEF Order
<1>14. Order'
  <2> SUFFICES ASSUME NEW a \in Acceptor PROVE AcceptorInOrder(a)'
    BY DEF Order
  <2>1. AcceptorInOrder(a)
    BY <1>1 DEF Order
  <2>2. CASE a = b
    BY <2>1, <2>2, <1>1, <1>2, <1>3, <1>5, <1>6, <1>10 DEF AcceptorInOrder
  <2>3. CASE a # b
    BY <2>1, <2>3, <1>1, <1>5, <1>6, <1>10 DEF AcceptorInOrder
  <2> QED
    BY <2>2, <2>3
<1>15. LeaderLost'
  <2>1. (\E a \in Acceptor : AcceptedRank(a)' > 2) => \E a \in Acceptor : AcceptedRank(a) > 2
    BY <1>10
  <2>2. Rank(proposer'.highest) > 2 => Rank(proposer.highest) > 2 \/ AcceptedRank(b) > 2
    BY <1>6
  <2>3. Rank(proposer'.highest) > 2 \/ (\E a \in Acceptor : AcceptedRank(a)' > 2)
        => PaxosMajority(PastLeader')
    BY <2>1, <2>2, <1>1, <1>12 DEF LeaderLost
  <2> QED
    BY <2>3, <1>5 DEF LeaderLost, PaxosMajority
<1>16. ProposerInOrder'
  <2>1. Rank(proposer'.highest) >= Rank(proposer.highest) /\ Rank(proposer'.highest) \in Nat
    BY <1>2, <1>4, <1>6
  <2>2. Rank(proposer'.highest) < ProposerRank
    BY <1>1, <1>2, <1>3, <1>6, <1>13 DEF ProposerInOrder, AcceptorInOrder
  <2>3. /\ proposer'.seen = NoValue => Rank(proposer'.highest) = 0
        /\ Rank(proposer'.highest) = 2 => proposer'.seen \in offered
    BY <1>1, <1>4, <1>5, <1>6, <1>13 DEF ProposerInOrder, AcceptorInOrder
  <2>4. AcceptedRank(b) <= Rank(proposer'.highest)
    BY <1>2, <1>4, <1>6, <1>13 DEF AcceptorInOrder
  <2>5. \A a \in proposer'.promised : AcceptedRank(a)' <= Rank(proposer'.highest)
    <3> SUFFICES ASSUME NEW a \in proposer.promised \cup {b} PROVE AcceptedRank(a) <= Rank(proposer'.highest)
      BY <1>1, <1>5, <1>10 DEF PaxosTyped
    <3>1. CASE a \in proposer.promised
      <4>1. AcceptedRank(a) <= Rank(proposer.highest) /\ AcceptedRank(a) \in Nat
        BY <3>1, <1>1, <1>2 DEF ProposerInOrder, PaxosTyped
      <4> QED
        BY <4>1, <2>1, <1>2
    <3> QED
      BY <3>1, <2>4
  <2>6. \A a \in proposer'.promised : PromisedRank(a)' >= ProposerRank
    BY <1>1, <1>2, <1>5, <1>10 DEF ProposerInOrder, PaxosTyped
  <2>7. proposer'.accepted = {}
    BY <1>1, <1>5 DEF ProposerInOrder
  <2> QED
    BY <2>2, <2>3, <2>5, <2>6, <2>7, <1>1, <1>2, <1>5, <1>6 DEF ProposerInOrder
<1>17. ASSUME NEW v, NEW m \in Nat, ChosenAt(v, m) PROVE ChosenAt(v, m)'
  <2>1. AcceptedFrom(m)' = AcceptedFrom(m)
    BY <1>10 DEF AcceptedFrom
  <2>2. Rank(proposer'.highest) >= m => proposer'.seen = v
    BY <1>5, <1>6, <1>17 DEF ChosenAt, AcceptedFrom
  <2>3. \A a \in AcceptedFrom(m) : acceptors'[a].value = v
    BY <1>10, <1>17 DEF ChosenAt, AcceptedFrom
  <2> QED
    BY <2>1, <2>2, <2>3, <1>1, <1>5, <1>17 DEF ChosenAt, PaxosMajority
<1>18. DecisionsChosen'
  <2>1. Decisions' = Decisions
    BY <1>1, <1>5 DEF Decisions
  <2> QED
    BY <2>1, <1>1, <1>17 DEF DecisionsChosen
<1>19. LearnerCounts'
  BY <1>1, <1>5 DEF LearnerCounts
<1> QED
  BY <1>11, <1>14, <1>15, <1>16, <1>17, <1>18, <1>19 DEF PaxosInv, ChosenStays

\* The value of phase 2 is the chosen one if there is one.
LEMMA ProposerChooses ==
  ASSUME PaxosInv, NEW w \in PaxosValue, SendAccept(w)
  PROVE  PaxosInv' /\ ChosenStays
<1>1. /\ PaxosTyped /\ Order /\ LeaderLost /\ ProposerInOrder /\ DecisionsChosen /\ LearnerCounts
      /\ proposer.proposed = NoValue /\ PaxosMajority(proposer.promised)
      /\ proposer' = [proposer EXCEPT !.proposed = IF proposer.seen # NoValue THEN proposer.seen ELSE w]
      /\ UNCHANGED <<acceptors, leader, decided, instance, learner, offered>>
  BY DEF SendAccept, PaxosInv
<1>2. /\ proposer'.tries = proposer.tries /\ proposer'.promised = proposer.promised
      /\ proposer'.highest = proposer.highest /\ proposer'.seen = proposer.seen
      /\ proposer'.accepted = proposer.accepted /\ proposer'.decided = proposer.decided
      /\ proposer'.proposed = IF proposer.seen # NoValue THEN proposer.seen ELSE w
  BY <1>1 DEF PaxosTyped
<1>3. proposer'.proposed \in Values /\ proposer'.proposed # NoValue
  BY <1>1, <1>2, RanksTyped DEF PaxosTyped
<1>4. PaxosTyped'
  <2>1. proposer' \in [tries : Nat, promised : SUBSET Acceptor, highest : Number, seen : Values,
                       proposed : Values, accepted : SUBSET Acceptor, decided : Values]
    BY <1>1, <1>2, <1>3 DEF PaxosTyped
  <2> QED
    BY <2>1, <1>1 DEF PaxosTyped
<1>5. /\ \A a : PromisedRank(a)' = PromisedRank(a) /\ AcceptedRank(a)' = AcceptedRank(a)
      /\ PastLeader' = PastLeader /\ ProposerRank' = ProposerRank
      /\ \A m : AcceptedFrom(m)' = AcceptedFrom(m)
      /\ Decisions' = Decisions
  BY <1>1, <1>2 DEF PromisedRank, AcceptedRank, PastLeader, AcceptedFrom, Decisions, ProposerRank
<1>6. proposer.promised \in SUBSET Acceptor
  BY <1>1 DEF PaxosTyped
<1>7. proposer.promised # {}
  BY <1>1, <1>6, MajoritiesShare
<1>8. proposer.tries # 0 /\ ProposerRank > 2 /\ ProposerRank \in Nat /\ proposer.tries \in Nat
      /\ \A a \in Acceptor : PromisedRank(a) \in Nat /\ AcceptedRank(a) \in Nat
      /\ Rank(proposer.highest) \in Nat
  BY <1>1, <1>7, RanksTyped DEF ProposerInOrder, ProposerRank
<1>9. PaxosMajority(PastLeader)
  <2>1. \A a \in proposer.promised : PromisedRank(a) >= ProposerRank
    BY <1>1 DEF ProposerInOrder
  <2>2. proposer.promised \subseteq PastLeader
    BY <2>1, <1>6, <1>8 DEF PastLeader
  <2>3. PastLeader \in SUBSET Acceptor
    BY DEF PastLeader
  <2> QED
    BY <2>2, <2>3, <1>1, <1>6, MajorityKept
<1>10. Order'
  <2> SUFFICES ASSUME NEW a \in Acceptor PROVE AcceptorInOrder(a)'
    BY DEF Order
  <2>1. AcceptorInOrder(a)
    BY <1>1 DEF Order
  <2> QED
    BY <2>1, <1>1, <1>5 DEF AcceptorInOrder
<1>11. LeaderLost'
  BY <1>5, <1>9 DEF LeaderLost, PaxosMajority
<1>12. ProposerInOrder'
  BY <1>1, <1>2, <1>3, <1>5, <1>8 DEF ProposerInOrder
<1>13. ASSUME NEW v, v # NoValue, NEW m \in Nat, ChosenAt(v, m) PROVE ChosenAt(v, m)'
  <2>1. AcceptedFrom(m) \in SUBSET Acceptor /\ PaxosMajority(AcceptedFrom(m))
    BY <1>13 DEF AcceptedFrom, ChosenAt
  <2>2. PICK a \in proposer.promised : a \in AcceptedFrom(m)
    BY <2>1, <1>1, <1>6, MajoritiesShare
  <2>3. a \in Acceptor /\ AcceptedRank(a) >= m /\ AcceptedRank(a) <= Rank(proposer.highest)
    BY <2>2, <1>1, <1>6 DEF AcceptedFrom, ProposerInOrder
  <2>4. Rank(proposer.highest) >= m
    BY <2>3, <1>8
  <2>5. proposer'.proposed = v
    BY <2>4, <1>2, <1>13 DEF ChosenAt
  <2> QED
    BY <2>5, <1>1, <1>2, <1>5, <1>13 DEF ChosenAt, PaxosMajority
<1>14. DecisionsChosen'
  <2>1. \A v \in Decisions : v # NoValue
    BY DEF Decisions
  <2> QED
    BY <2>1, <1>1, <1>5, <1>13 DEF DecisionsChosen
<1>15. LearnerCounts'
  BY <1>1, <1>2 DEF LearnerCounts
<1> QED
  BY <1>4, <1>10, <1>11, <1>12, <1>13, <1>14, <1>15 DEF PaxosInv, ChosenStays

\* An acceptor that accepts the proposal holds what the proposer chose.
LEMMA ProposerAccepted ==
  ASSUME PaxosInv, NEW b \in Acceptor, AcceptAt(b)
  PROVE  PaxosInv' /\ ChosenStays
<1> DEFINE accepted == proposer.accepted \cup {b}
<1>1. /\ PaxosTyped /\ Order /\ LeaderLost /\ ProposerInOrder /\ DecisionsChosen /\ LearnerCounts
      /\ proposer.proposed # NoValue /\ b \notin proposer.accepted
      /\ Accepts(acceptors[b], ProposerNumber)
      /\ acceptors' = [acceptors EXCEPT ![b] = Accepted(@, ProposerNumber, proposer.proposed)]
      /\ proposer' = [proposer EXCEPT
           !.accepted = accepted,
           !.decided = IF PaxosMajority(accepted) THEN proposer.proposed ELSE @]
      /\ learner' = [count |-> learner.count + 1, value |-> proposer.proposed,
                     learned |-> PaxosMajority(1 .. learner.count + 1)]
      /\ UNCHANGED <<leader, decided, instance, offered>>
  BY DEF AcceptAt, Learn, PaxosInv
<1>2. /\ accepted \in SUBSET Acceptor /\ IsFiniteSet(accepted) /\ IsFiniteSet(proposer.accepted)
      /\ Cardinality(accepted) = Cardinality(proposer.accepted) + 1
  <2>1. accepted \in SUBSET Acceptor /\ proposer.accepted \in SUBSET Acceptor
    BY <1>1 DEF PaxosTyped
  <2>2. IsFiniteSet(accepted) /\ IsFiniteSet(proposer.accepted)
    BY <2>1, DirectPaxosAssumption, FS_Subset
  <2> QED
    BY <2>1, <2>2, <1>1, FS_AddElement
<1> HIDE DEF accepted
<1>3. /\ proposer'.tries = proposer.tries /\ proposer'.promised = proposer.promised
      /\ proposer'.highest = proposer.highest /\ proposer'.seen = proposer.seen
      /\ proposer'.proposed = proposer.proposed /\ proposer'.accepted = accepted
      /\ proposer'.decided = IF PaxosMajority(accepted) THEN proposer.proposed ELSE proposer.decided
  BY <1>1 DEF PaxosTyped
<1>4. /\ \A a \in Acceptor : /\ PromisedRank(a) \in Nat /\ AcceptedRank(a) \in Nat
                             /\ acceptors[a].promised \in Number
      /\ proposer.tries \in Nat /\ Rank(proposer.highest) \in Nat /\ proposer.proposed \in Values
      /\ ProposerNumber \in Number /\ ProposerRank \in Nat /\ Rank(ProposerNumber) = ProposerRank
      /\ ProposerRank > 2 /\ proposer.tries # 0
  BY <1>1, RanksTyped DEF ProposerRank, ProposerInOrder, PaxosTyped
<1>5. PromisedRank(b) <= ProposerRank
  BY <1>1, <1>4, RankOrders DEF Accepts, PromisedRank
<1>6. acceptors'[b] = [promised |-> ProposerNumber, accepted |-> ProposerNumber, value |-> proposer.proposed]
  BY <1>1 DEF Accepted, PaxosTyped
<1>7. /\ \A a \in Acceptor \ {b} : acceptors'[a] = acceptors[a]
      /\ acceptors' \in [Acceptor -> [promised : Number, accepted : Number, value : Values]]
  BY <1>1, <1>4, <1>6 DEF PaxosTyped
<1>8. /\ PromisedRank(b)' = ProposerRank /\ AcceptedRank(b)' = ProposerRank
      /\ acceptors'[b].value = proposer.proposed
      /\ \A a \in Acceptor \ {b} : /\ PromisedRank(a)' = PromisedRank(a) /\ AcceptedRank(a)' = AcceptedRank(a)
                                   /\ acceptors'[a].value = acceptors[a].value
      /\ ProposerRank' = ProposerRank
  BY <1>3, <1>4, <1>6, <1>7 DEF PromisedRank, AcceptedRank, ProposerRank
<1>9. PaxosTyped'
  <2>1. proposer'.decided \in Values
    BY <1>1, <1>3, <1>4 DEF PaxosTyped
  <2>2. proposer' \in [tries : Nat, promised : SUBSET Acceptor, highest : Number, seen : Values,
                       proposed : Values, accepted : SUBSET Acceptor, decided : Values]
    BY <1>1, <1>2, <1>3, <2>1 DEF PaxosTyped
  <2>3. PaxosMajority(1 .. learner.count + 1) \in BOOLEAN
    BY DEF PaxosMajority
  <2>4. learner' \in [count : Nat, value : Values, learned : BOOLEAN]
    BY <1>1, <1>4, <2>3 DEF PaxosTyped
  <2> QED
    BY <2>2, <2>4, <1>1, <1>7 DEF PaxosTyped
<1>10. PaxosMajority(PastLeader')
  <2>1. PaxosMajority(PastLeader)
    BY <1>1 DEF LeaderLost
  <2>2. PastLeader \subseteq PastLeader' /\ PastLeader \in SUBSET Acceptor /\ PastLeader' \in SUBSET Acceptor
    BY <1>4, <1>8 DEF PastLeader
  <2> QED
    BY <2>1, <2>2, MajorityKept
<1>11. Order'
  <2> SUFFICES ASSUME NEW a \in Acceptor PROVE AcceptorInOrder(a)'
    BY DEF Order
  <2>1. AcceptorInOrder(a)
    BY <1>1 DEF Order
  <2>2. CASE a = b
    BY <2>2, <1>1, <1>3, <1>4, <1>8 DEF AcceptorInOrder
  <2>3. CASE a # b
    BY <2>1, <2>3, <1>1, <1>3, <1>8 DEF AcceptorInOrder
  <2> QED
    BY <2>2, <2>3
<1>12. LeaderLost'
  BY <1>10 DEF LeaderLost, PaxosMajority
<1>13. ProposerInOrder'
  <2>1. \A a \in accepted : AcceptedRank(a)' = ProposerRank
    BY <1>1, <1>2, <1>8 DEF ProposerInOrder, accepted
  <2>2. \A a \in proposer.promised : PromisedRank(a)' >= ProposerRank
    BY <1>1, <1>4, <1>8 DEF ProposerInOrder, PaxosTyped
  <2> QED
    BY <2>1, <2>2, <1>1, <1>3, <1>4, <1>8 DEF ProposerInOrder
<1>14. \A m \in Nat : AcceptedFrom(m) \subseteq AcceptedFrom(m)'
  <2> SUFFICES ASSUME NEW m \in Nat, NEW a \in AcceptedFrom(m) PROVE AcceptedRank(a)' >= m
    BY DEF AcceptedFrom
  <2>1. a \in Acceptor /\ AcceptedRank(a) >= m /\ AcceptedRank(a) <= PromisedRank(a)
    BY <1>1 DEF AcceptedFrom, Order, AcceptorInOrder
  <2>2. CASE a = b
    BY <2>1, <2>2, <1>4, <1>5, <1>8
  <2>3. CASE a # b
    BY <2>1, <2>3, <1>8
  <2> QED
    BY <2>2, <2>3
<1>15. ASSUME NEW v, NEW m \in Nat, ChosenAt(v, m) PROVE ChosenAt(v, m)'
  <2>1. proposer.proposed = v
    BY <1>1, <1>15 DEF ChosenAt
  <2>2. PaxosMajority(AcceptedFrom(m)')
    <3>1. AcceptedFrom(m) \in SUBSET Acceptor /\ AcceptedFrom(m)' \in SUBSET Acceptor
      BY DEF AcceptedFrom
    <3> QED
      BY <3>1, <1>14, <1>15, MajorityKept DEF ChosenAt
  <2>3. \A a \in AcceptedFrom(m)' : acceptors'[a].value = v
    BY <2>1, <1>8, <1>15 DEF ChosenAt, AcceptedFrom
  <2> QED
    BY <2>2, <2>3, <1>1, <1>3, <1>15 DEF ChosenAt, PaxosMajority
<1>16. ASSUME PaxosMajority(accepted) PROVE ChosenAt(proposer.proposed, ProposerRank)'
  <2>1. accepted \subseteq AcceptedFrom(ProposerRank)'
    <3>1. \A a \in accepted : AcceptedRank(a)' = ProposerRank'
      BY <1>3, <1>13 DEF ProposerInOrder
    <3> QED
      BY <3>1, <1>2, <1>4, <1>8 DEF AcceptedFrom
  <2>2. PaxosMajority(AcceptedFrom(ProposerRank)')
    <3>1. AcceptedFrom(ProposerRank)' \in SUBSET Acceptor
      BY DEF AcceptedFrom
    <3> QED
      BY <2>1, <3>1, <1>2, <1>16, MajorityKept
  <2>3. ASSUME NEW a \in AcceptedFrom(ProposerRank)' PROVE acceptors'[a].value = proposer.proposed
    <3>1. a \in Acceptor /\ AcceptedRank(a)' >= ProposerRank
      BY <2>3, <1>8 DEF AcceptedFrom
    <3>2. AcceptorInOrder(a)'
      BY <3>1, <1>11 DEF Order
    <3>3. AcceptedRank(a)' = ProposerRank
      <4>1. AcceptedRank(a)' \in Nat /\ PromisedRank(a)' \in Nat
        BY <3>1, <1>4, <1>8
      <4>2. AcceptedRank(a)' <= PromisedRank(a)' /\ (PromisedRank(a)' <= 2 \/ PromisedRank(a)' <= ProposerRank)
        BY <3>2, <1>8 DEF AcceptorInOrder
      <4> QED
        BY <4>1, <4>2, <3>1, <1>4
    <3> QED
      BY <3>2, <3>3, <1>3, <1>8 DEF AcceptorInOrder
  <2>4. ~(Rank(proposer.highest) >= ProposerRank)
    BY <1>1, <1>4 DEF ProposerInOrder
  <2> QED
    BY <2>2, <2>3, <2>4, <1>1, <1>3, <1>4, <1>8 DEF ChosenAt, PaxosMajority
<1>17. DecisionsChosen'
  <2> SUFFICES ASSUME Cardinality(offered) <= 1, NEW u \in Decisions'
               PROVE  \E m \in Nat : ChosenAt(u, m)'
    BY <1>1 DEF DecisionsChosen
  <2>1. u \in Decisions \/ (u = proposer.proposed /\ PaxosMajority(accepted))
    BY <1>1, <1>3 DEF Decisions
  <2>2. CASE u \in Decisions
    BY <2>2, <1>1, <1>15 DEF DecisionsChosen
  <2>3. CASE u = proposer.proposed /\ PaxosMajority(accepted)
    <3>1. ProposerRank' \in Nat
      BY <1>4, <1>8
    <3>2. ChosenAt(proposer.proposed, ProposerRank)'
      BY <2>3, <1>16
    <3>3. proposer'.proposed = u
      BY <2>3, <1>3
    <3> QED
      BY <3>1, <3>2, <3>3 DEF ChosenAt
  <2> QED
    BY <2>1, <2>2, <2>3
<1>18. LearnerCounts'
  <2> SUFFICES ASSUME proposer.tries <= 1
               PROVE  /\ learner'.count = Cardinality(accepted)
                      /\ learner'.learned => learner'.value = proposer'.decided
    BY <1>3 DEF LearnerCounts
  <2>1. learner.count = Cardinality(proposer.accepted) /\ learner.count \in Nat
    BY <1>1 DEF LearnerCounts, PaxosTyped
  <2>2. learner'.count = learner.count + 1
    BY <1>1
  <2>3. Cardinality(1 .. learner.count + 1) = learner.count + 1
    <3> DEFINE c == learner.count + 1
    <3>1. c \in Int /\ 1 \in Int /\ c >= 1
      BY <2>1
    <3> HIDE DEF c
    <3>2. Cardinality(1 .. c) = IF 1 > c THEN 0 ELSE c - 1 + 1
      BY <3>1, FS_Interval
    <3>3. Cardinality(1 .. c) = c
      BY <3>1, <3>2
    <3> QED
      BY <3>3 DEF c
  <2>4. PaxosMajority(1 .. learner.count + 1) => PaxosMajority(accepted)
    BY <2>1, <2>3, <1>2 DEF PaxosMajority
  <2> QED
    BY <2>1, <2>2, <2>4, <1>1, <1>2, <1>3
<1> QED
  BY <1>9, <1>11, <1>12, <1>13, <1>15, <1>17, <1>18 DEF PaxosInv, ChosenStays

\* An instance on copies of the acceptors returns what was decided.
LEMMA InstanceReturnsChosen ==
  ASSUME PaxosInv, NEW id \in Slot, NEW w \in PaxosValue, RunInstance(id, w),
         NEW v, v # NoValue, NEW m \in Nat, ChosenAt(v, m)
  PROVE  instance'.decided = v
<1> DEFINE n == <<id + 1, 0>>
           promising == {a \in Acceptor : Promises(acceptors[a], n)}
           voted == {a \in promising : acceptors[a].value # NoValue
                                       /\ Before(<<0, 0>>, acceptors[a].accepted)}
           IsFirst(a) == \A b \in voted : \/ Before(acceptors[b].accepted, acceptors[a].accepted)
                                          \/ acceptors[b].accepted = acceptors[a].accepted /\ a <= b
           first == CHOOSE a \in voted : IsFirst(a)
<1>1. /\ PaxosTyped /\ Order
      /\ PaxosMajority(promising)
      /\ instance'.decided = IF voted = {} THEN w ELSE acceptors[first].value
  BY DEF RunInstance, ValueToSend, PaxosInv
<1>2. promising \in SUBSET Acceptor /\ voted \subseteq promising
  OBVIOUS
<1>3. \A a \in Acceptor : /\ PromisedRank(a) \in Nat /\ AcceptedRank(a) \in Nat
                          /\ acceptors[a].accepted \in Number /\ a \in Nat
                          /\ Before(<<0, 0>>, acceptors[a].accepted) <=> 0 < AcceptedRank(a)
  <2>1. \A a \in Acceptor : a \in Nat
    BY DirectPaxosAssumption, FS_CardinalityType
  <2> QED
    BY <2>1, <1>1, RanksTyped, RankOrders DEF AcceptedRank
<1>4. \A a, b \in Acceptor :
        /\ Before(acceptors[b].accepted, acceptors[a].accepted) <=> AcceptedRank(b) < AcceptedRank(a)
        /\ acceptors[b].accepted = acceptors[a].accepted <=> AcceptedRank(b) = AcceptedRank(a)
  BY <1>3, RankOrders DEF AcceptedRank
<1>5. \A a \in promising : a \in voted <=> acceptors[a].value # NoValue
  <2> SUFFICES ASSUME NEW a \in promising, acceptors[a].value # NoValue PROVE 0 < AcceptedRank(a)
    BY <1>2, <1>3
  <2>1. a \in Acceptor /\ AcceptorInOrder(a)
    BY <1>1, <1>2 DEF Order
  <2> QED
    BY <2>1, <1>3 DEF AcceptorInOrder
<1>6. PICK q \in promising : q \in AcceptedFrom(m)
  <2>1. AcceptedFrom(m) \in SUBSET Acceptor /\ PaxosMajority(AcceptedFrom(m))
    BY DEF ChosenAt, AcceptedFrom
  <2> HIDE DEF promising
  <2> QED
    BY <2>1, <1>1, <1>2, MajoritiesShare
<1>7. q \in voted /\ acceptors[q].value = v /\ AcceptedRank(q) >= m
  BY <1>5, <1>6 DEF ChosenAt, AcceptedFrom
<1> HIDE DEF promising, voted
<1>8. \E a \in voted : IsFirst(a)
  <2> DEFINE top == ProposerRank + 2
             depths == {top - AcceptedRank(a) : a \in voted}
  <2>1. top \in Nat /\ \A a \in voted : top - AcceptedRank(a) \in Nat
    <3>1. ProposerRank \in Nat
      BY <1>1, RanksTyped
    <3>2. \A a \in voted : /\ AcceptedRank(a) <= PromisedRank(a)
                           /\ PromisedRank(a) <= 2 \/ PromisedRank(a) <= ProposerRank
      BY <1>1, <1>2 DEF Order, AcceptorInOrder
    <3> QED
      BY <1>2, <1>3, <3>1, <3>2
  <2>2. depths \subseteq Nat /\ depths # {}
    BY <1>7, <2>1
  <2>3. PICK d \in depths : \A e \in depths : d <= e
    <3> HIDE DEF depths
    <3> QED
      BY <2>2, SmallestMember
  <2> DEFINE best == {a \in voted : top - AcceptedRank(a) = d}
  <2>4. best \subseteq Nat /\ best # {}
    BY <1>2, <1>3, <2>3
  <2>5. PICK a \in best : \A b \in best : a <= b
    <3> HIDE DEF best
    <3> QED
      BY <2>4, SmallestMember
  <2>6. ASSUME NEW b \in voted
        PROVE  \/ AcceptedRank(b) < AcceptedRank(a)
               \/ AcceptedRank(b) = AcceptedRank(a) /\ a <= b
    <3>1. top - AcceptedRank(a) = d /\ d <= top - AcceptedRank(b) /\ a \in voted
      BY <2>3
    <3>2. top - AcceptedRank(b) = d => a <= b
      BY <2>5
    <3>3. AcceptedRank(a) \in Nat /\ AcceptedRank(b) \in Nat
      BY <3>1, <1>2, <1>3
    <3> HIDE DEF top
    <3> QED
      BY <3>1, <3>2, <3>3, <2>1
  <2>7. a \in voted /\ a \in Acceptor /\ \A b \in voted : b \in Acceptor
    BY <1>2
  <2>8. IsFirst(a)
    BY <2>6, <2>7, <1>4
  <2> QED
    BY <2>7, <2>8
<1>9. first \in voted /\ IsFirst(first)
  <2> HIDE DEF IsFirst
  <2> QED
    BY <1>8
<1> HIDE DEF first
<1>10. first \in AcceptedFrom(m)
  <2>1. AcceptedRank(q) <= AcceptedRank(first)
    BY <1>2, <1>3, <1>4, <1>7, <1>9
  <2> QED
    BY <2>1, <1>2, <1>3, <1>7, <1>9 DEF AcceptedFrom
<1>11. acceptors[first].value = v
  BY <1>10 DEF ChosenAt
<1> QED
  BY <1>1, <1>7, <1>11

\* The invariant of Paxos holds initially.
LEMMA PaxosInvInit == PaxosStart => PaxosInv
<1> SUFFICES ASSUME PaxosStart PROVE PaxosInv
  OBVIOUS
<1>1. PaxosTyped
  BY RankOrders, FS_EmptySet DEF PaxosTyped, PaxosStart, Values, NoValue
<1>2. /\ \A a \in Acceptor : PromisedRank(a) = 0 /\ AcceptedRank(a) = 0 /\ acceptors[a].value = NoValue
      /\ proposer.tries = 0 /\ proposer.promised = {} /\ Rank(proposer.highest) = 0
      /\ proposer.proposed = NoValue /\ proposer.accepted = {} /\ ProposerRank = 1
  BY RankOrders DEF PaxosStart, PromisedRank, AcceptedRank, ProposerRank
<1>3. Order /\ LeaderLost /\ ProposerInOrder
  BY <1>2 DEF Order, AcceptorInOrder, LeaderLost, ProposerInOrder
<1>4. Decisions = {}
  BY DEF Decisions, PaxosStart
<1>5. DecisionsChosen
  BY <1>4 DEF DecisionsChosen
<1>6. LearnerCounts
  BY FS_EmptySet DEF LearnerCounts, PaxosStart
<1> QED
  BY <1>1, <1>3, <1>5, <1>6 DEF PaxosInv

\* The invariant of Paxos is inductive, and the leader decides no more once a majority promised past it.
LEMMA PaxosInvStep ==
  ASSUME PaxosInv, PaxosStep \/ UNCHANGED paxosVars
  PROVE  /\ PaxosInv' /\ ChosenStays
         /\ PaxosMajority(PastLeader) => decided' = decided
<1>1. ASSUME UNCHANGED <<acceptors, decided, proposer, learner, offered>>
      PROVE  PaxosInv' /\ ChosenStays
  <2>1. /\ acceptors' \in [Acceptor -> [promised : Number, accepted : Number, value : Values]]
        /\ \A a \in Acceptor : PromisedRank(a)' = PromisedRank(a) /\ PromisedRank(a) \in Nat
    BY <1>1, RanksTyped DEF PaxosInv, PaxosTyped, PromisedRank
  <2> QED
    BY <2>1, <1>1, PromisesRaised
<1>2. CASE UNCHANGED paxosVars
  BY <1>1, <1>2 DEF paxosVars
<1>3. ASSUME NEW id \in {0, 1}, ElectLeader(id)
      PROVE  PaxosInv' /\ ChosenStays /\ decided' = decided
  BY <1>3, LeaderPrepares DEF ElectLeader
<1>4. ASSUME NEW s \in Slot, NEW v \in PaxosValue, RunInstance(s, v)
      PROVE  PaxosInv' /\ ChosenStays /\ decided' = decided
  BY <1>1, <1>4 DEF RunInstance
<1>5. ASSUME StartProposal
      PROVE  PaxosInv' /\ ChosenStays /\ decided' = decided
  BY <1>5, ProposerStarts DEF StartProposal
<1>6. ASSUME NEW a \in Acceptor, PrepareAt(a)
      PROVE  PaxosInv' /\ ChosenStays /\ decided' = decided
  BY <1>6, ProposerPrepares DEF PrepareAt
<1>7. ASSUME NEW a \in Acceptor, AcceptAt(a)
      PROVE  PaxosInv' /\ ChosenStays /\ decided' = decided
  BY <1>7, ProposerAccepted DEF AcceptAt
<1>8. ASSUME NEW v \in PaxosValue, SendAccept(v)
      PROVE  PaxosInv' /\ ChosenStays /\ decided' = decided
  BY <1>8, ProposerChooses DEF SendAccept
<1>9. CASE PaxosStep
  BY <1>3, <1>4, <1>5, <1>6, <1>7, <1>8, <1>9, LeaderProposes DEF PaxosStep
<1> QED
  BY <1>2, <1>9 DEF paxosVars

\* Decisions are replaced by decisions.
LEMMA DecisionsReplaced ==
  ASSUME PaxosTyped, PaxosStep \/ UNCHANGED paxosVars, Decisions # {}
  PROVE  Decisions' # {}
<1>1. \/ \E s \in Slot : decided[s] # NoValue
      \/ proposer.decided # NoValue
  BY DEF Decisions
<1>2. SUFFICES \/ \E s \in Slot : decided'[s] # NoValue
               \/ proposer'.decided # NoValue
  BY DEF Decisions
<1>3. \A v \in PaxosValue : v # NoValue
  BY RanksTyped
<1>4. CASE UNCHANGED <<decided, proposer>>
  BY <1>1, <1>4
<1>5. ASSUME NEW s \in Slot, NEW v \in PaxosValue, Propose(s, v)
      PROVE  /\ proposer' = proposer
             /\ \A t \in Slot : decided'[t] = decided[t] \/ decided'[t] = v
  BY <1>5 DEF Propose, ProposeSlot, PaxosTyped
<1>6. ASSUME NEW s \in Slot, NEW v \in PaxosValue, Propose(s, v)
      PROVE  \/ \E t \in Slot : decided'[t] # NoValue
             \/ proposer'.decided # NoValue
  BY <1>1, <1>3, <1>5, <1>6
<1>7. CASE StartProposal
  BY <1>1, <1>7 DEF StartProposal, PaxosTyped
<1>8. ASSUME NEW a \in Acceptor, PrepareAt(a)
      PROVE  proposer'.decided = proposer.decided /\ decided' = decided
  BY <1>8 DEF PrepareAt, PaxosTyped
<1>9. ASSUME NEW a \in Acceptor, AcceptAt(a)
      PROVE  /\ decided' = decided
             /\ proposer'.decided = proposer.decided \/ proposer'.decided # NoValue
  BY <1>9 DEF AcceptAt, PaxosTyped
<1>10. ASSUME NEW v \in PaxosValue, SendAccept(v)
       PROVE  proposer'.decided = proposer.decided /\ decided' = decided
  BY <1>10 DEF SendAccept, PaxosTyped
<1>11. ASSUME \/ \E id \in {0, 1} : ElectLeader(id)
              \/ \E s \in Slot, v \in PaxosValue : RunInstance(s, v)
              \/ UNCHANGED paxosVars
       PROVE  UNCHANGED <<decided, proposer>>
  BY <1>11 DEF ElectLeader, RunInstance, paxosVars
<1> QED
  BY <1>1, <1>4, <1>6, <1>7, <1>8, <1>9, <1>10, <1>11 DEF PaxosStep

\* Every step satisfies DecisionsKept, given the invariant.
LEMMA PaxosStepsSound ==
  ASSUME PaxosInv, PaxosStep \/ UNCHANGED paxosVars
  PROVE  DecisionsKept
<1>1. PaxosInv' /\ ChosenStays /\ (PaxosMajority(PastLeader) => decided' = decided)
  BY PaxosInvStep
<1>2. PastLeader = {a \in Acceptor : Before(LeaderNumber, acceptors[a].promised)}
  BY RanksTyped, RankOrders DEF PaxosInv, PastLeader, PromisedRank
<1>3. proposer'.tries <= 1 /\ learner'.learned => learner'.value = proposer'.decided
  BY <1>1 DEF PaxosInv, LearnerCounts
<1>4. ASSUME Cardinality(offered') <= 1
      PROVE  /\ Decisions \subseteq Decisions' /\ Cardinality(Decisions') <= 1
             /\ instance' # instance => Decisions \subseteq {instance'.decided}
  <2>1. offered \subseteq offered'
    BY DEF PaxosStep, paxosVars, ElectLeader, Propose, ProposeSlot, RunInstance, StartProposal,
           PrepareAt, AcceptAt, SendAccept
  <2>2. Cardinality(offered) <= 1
    <3>1. IsFiniteSet(offered') /\ offered \in SUBSET offered'
      BY <1>1, <2>1 DEF PaxosInv, PaxosTyped
    <3>2. Cardinality(offered) <= Cardinality(offered')
      BY <3>1, FS_Subset
    <3>3. Cardinality(offered) \in Nat /\ Cardinality(offered') \in Nat
      BY <3>1, FS_Subset, FS_CardinalityType
    <3> QED
      BY <3>2, <3>3, <1>4
  <2>3. \A u, v \in Decisions' : u = v
    <3> SUFFICES ASSUME NEW u \in Decisions', NEW v \in Decisions' PROVE u = v
      OBVIOUS
    <3>1. PICK m \in Nat : ChosenAt(u, m)'
      BY <1>1, <1>4 DEF PaxosInv, DecisionsChosen
    <3>2. PICK k \in Nat : ChosenAt(v, k)'
      BY <1>1, <1>4 DEF PaxosInv, DecisionsChosen
    <3>3. PaxosTyped'
      BY <1>1 DEF PaxosInv
    <3>4. AcceptedFrom(m)' \in SUBSET Acceptor /\ AcceptedFrom(k)' \in SUBSET Acceptor
      BY DEF AcceptedFrom
    <3>5. PICK a \in AcceptedFrom(m)' : a \in AcceptedFrom(k)'
      BY <3>1, <3>2, <3>4, MajoritiesShare DEF ChosenAt, PaxosMajority
    <3> QED
      BY <3>1, <3>2, <3>5 DEF ChosenAt
  <2>4. Cardinality(Decisions') <= 1
    <3> DEFINE D == Decisions'
    <3>1. \A u, v \in D : u = v
      BY <2>3
    <3> HIDE DEF D
    <3>2. Cardinality(D) <= 1
      BY <3>1, AtMostOne
    <3> QED
      BY <3>2 DEF D
  <2>5. ASSUME NEW u \in Decisions
        PROVE  u # NoValue /\ \E m \in Nat : ChosenAt(u, m)
    BY <2>2 DEF Decisions, PaxosInv, DecisionsChosen
  <2>6. ASSUME NEW u \in Decisions, NEW v \in Decisions' PROVE u = v
    <3>1. PICK m \in Nat : ChosenAt(u, m)'
      BY <2>5, <1>1, <1>4 DEF ChosenStays
    <3>2. PICK k \in Nat : ChosenAt(v, k)'
      BY <1>1, <1>4 DEF PaxosInv, DecisionsChosen
    <3>3. AcceptedFrom(m)' \in SUBSET Acceptor /\ AcceptedFrom(k)' \in SUBSET Acceptor
      BY DEF AcceptedFrom
    <3>4. PICK a \in AcceptedFrom(m)' : a \in AcceptedFrom(k)'
      BY <3>1, <3>2, <3>3, MajoritiesShare DEF ChosenAt, PaxosMajority
    <3> QED
      BY <3>1, <3>2, <3>4 DEF ChosenAt
  <2>7. Decisions \subseteq Decisions'
    BY <2>6, DecisionsReplaced DEF PaxosInv
  <2>8. ASSUME instance' # instance, NEW u \in Decisions PROVE u = instance'.decided
    <3>1. PICK s \in Slot, w \in PaxosValue : RunInstance(s, w)
      BY <2>8 DEF PaxosStep, paxosVars, ElectLeader, Propose, StartProposal, PrepareAt, AcceptAt, SendAccept
    <3>2. PICK m \in Nat : ChosenAt(u, m)
      BY <2>5
    <3> QED
      BY <3>1, <3>2, <2>5, InstanceReturnsChosen
  <2> QED
    BY <2>4, <2>7, <2>8
<1> QED
  BY <1>1, <1>2, <1>3, <1>4 DEF DecisionsKept

\* Decisions of the direct Paxos agree and stay while the leader sends one value.
THEOREM PaxosDecides == VariantsSpec => PaxosDecisionsStay
<1>1. VariantsInit => PaxosInv
  BY PaxosInvInit DEF VariantsInit
<1>2. PaxosInv /\ [VariantsNext]_variantVars => PaxosInv'
  BY PaxosInvStep, VariantSteps
<1>3. PaxosInv /\ [VariantsNext]_variantVars => [DecisionsKept]_paxosVars
  BY PaxosStepsSound, VariantSteps
<1> QED
  BY <1>1, <1>2, <1>3, PTL DEF VariantsSpec, PaxosDecisionsStay

--------------------------------------------------------------------------------
\* The queue, the detector and the entries of the direct calls.

Place == 0 .. Capacity - 1

\* The place k steps after h
PlaceOf(h, k) == (h + k) % Capacity

QueueTyped ==
  /\ queue \in [buffer : [Place -> Message], count : 0 .. Capacity, head : Place, tail : Place]
  /\ expected \in [sent : Nat, pending : Seq(Message)]

\* The ring holds what is pending, from its head on.
RingHolds ==
  /\ Len(expected.pending) = queue.count
  /\ queue.tail = PlaceOf(queue.head, queue.count)
  /\ \A k \in 1 .. queue.count : queue.buffer[PlaceOf(queue.head, k - 1)] = expected.pending[k]

DetectorLeads ==
  /\ detector \in [suspected : SUBSET Process, leader : Process \cup {-1}]
  /\ detector.leader \notin detector.suspected
  /\ detector.leader = -1 <=> detector.suspected = Process

EntriesOrdered ==
  /\ entries \in [length : Nat, commit_index : Nat, last_applied : Nat]
  /\ entries.last_applied <= entries.commit_index /\ entries.commit_index <= entries.length

DeliveryInv == QueueTyped /\ RingHolds /\ DetectorLeads /\ EntriesOrdered

\* The places come round: every step leads to another place, until all were seen.
LEMMA Places ==
  /\ Capacity \in Nat \ {0} /\ 0 \in Place
  /\ \A h \in Place :
       /\ PlaceOf(h, 0) = h
       /\ \A k \in 0 .. Capacity : PlaceOf(h, k) \in Place
       /\ \A k \in 0 .. Capacity - 1 :
            /\ PlaceOf(PlaceOf(h, 1), k) = PlaceOf(h, k + 1)
            /\ PlaceOf(PlaceOf(h, k), 1) = PlaceOf(h, k + 1)
            /\ \A n \in 0 .. Capacity - 1 : k # n => PlaceOf(h, k) # PlaceOf(h, n)
<1>1. Capacity \in Nat \ {0}
  BY DeliveryAssumption
<1>2. ASSUME NEW C \in Nat \ {0}, NEW h \in 0 .. C - 1
      PROVE  /\ (h + 0) % C = h
             /\ \A k \in 0 .. C : (h + k) % C \in 0 .. C - 1
             /\ \A k \in 0 .. C - 1 :
                  /\ (((h + 1) % C) + k) % C = (h + (k + 1)) % C
                  /\ (((h + k) % C) + 1) % C = (h + (k + 1)) % C
                  /\ \A n \in 0 .. C - 1 : k # n => (h + k) % C # (h + n) % C
  <2>1. ASSUME NEW k \in 0 .. C - 1
        PROVE  (((h + 1) % C) + k) % C = (h + (k + 1)) % C
    OBVIOUS
  <2>2. ASSUME NEW k \in 0 .. C - 1
        PROVE  (((h + k) % C) + 1) % C = (h + (k + 1)) % C
    OBVIOUS
  <2>3. ASSUME NEW k \in 0 .. C - 1, NEW n \in 0 .. C - 1, k # n
        PROVE  (h + k) % C # (h + n) % C
    <3> DEFINE u == (h + k) % C
               v == (h + n) % C
    <3>1. u = IF h + k < C THEN h + k ELSE h + k - C
      OBVIOUS
    <3>2. v = IF h + n < C THEN h + n ELSE h + n - C
      OBVIOUS
    <3> HIDE DEF u, v
    <3>3. u # v
      BY <2>3, <3>1, <3>2
    <3> QED
      BY <3>3 DEF u, v
  <2>4. ASSUME NEW k \in 0 .. C PROVE (h + k) % C \in 0 .. C - 1
    OBVIOUS
  <2>5. (h + 0) % C = h
    OBVIOUS
  <2> QED
    BY <2>1, <2>2, <2>3, <2>4, <2>5
<1>3. 0 \in Place
  BY <1>1 DEF Place
<1>4. ASSUME NEW h \in Place
      PROVE  /\ PlaceOf(h, 0) = h
             /\ \A k \in 0 .. Capacity : PlaceOf(h, k) \in Place
             /\ \A k \in 0 .. Capacity - 1 :
                  /\ PlaceOf(PlaceOf(h, 1), k) = PlaceOf(h, k + 1)
                  /\ PlaceOf(PlaceOf(h, k), 1) = PlaceOf(h, k + 1)
                  /\ \A n \in 0 .. Capacity - 1 : k # n => PlaceOf(h, k) # PlaceOf(h, n)
  BY <1>1, <1>2, <1>4, Zenon DEF Place, PlaceOf
<1> QED
  BY <1>1, <1>3, <1>4

\* Nobody is the -1 of the messages to nobody.
LEMMA ProcessNumbers == 0 \in Process /\ Process \subseteq Nat /\ Process \cup {-1} \subseteq Int
<1>1. Cardinality(Process) \in Nat
  BY DeliveryAssumption, FS_CardinalityType
<1>2. Cardinality(Process) # 0
  BY DeliveryAssumption, FS_EmptySet
<1> QED
  BY <1>1, <1>2, DeliveryAssumption

\* A message goes to the place after the last one, which is free.
LEMMA DeliverySends ==
  ASSUME QueueTyped, RingHolds, NEW msg \in Message, Send(msg)
  PROVE  QueueTyped' /\ RingHolds'
<1>3. queue.count \in Nat /\ Capacity \in Nat
  BY Places DEF QueueTyped
<1>1. CASE queue.count >= Capacity
  <2>1. /\ queue' = queue /\ expected'.pending = expected.pending
        /\ expected' \in [sent : Nat, pending : Seq(Message)]
    BY <1>1, Places DEF Send, Enqueue, QueueTyped, RingHolds
  <2> QED
    BY <2>1 DEF QueueTyped, RingHolds
<1>2. CASE queue.count < Capacity
  <2> DEFINE p == expected.pending
             n == queue.count
             b == [queue.buffer EXCEPT ![queue.tail] = msg]
  <2>1. /\ queue' = [queue EXCEPT !.buffer = b, !.tail = PlaceOf(queue.tail, 1), !.count = n + 1]
        /\ expected' = [sent |-> expected.sent + 1, pending |-> Append(p, msg)]
    <3>1. ~ (queue.count >= Capacity) /\ Len(p) < Capacity
      BY <1>2, <1>3 DEF RingHolds
    <3>2. queue' = [queue EXCEPT !.buffer = b, !.tail = PlaceOf(queue.tail, 1), !.count = n + 1]
      BY <3>1 DEF Send, Enqueue, PlaceOf
    <3> QED
      BY <3>1, <3>2 DEF Send
  <2>2. /\ p \in Seq(Message) /\ n \in 0 .. Capacity - 1 /\ Len(p) = n
        /\ queue.head \in Place /\ queue.tail \in Place /\ queue.buffer \in [Place -> Message]
        /\ queue.tail = PlaceOf(queue.head, n) /\ expected.sent \in Nat
    BY <1>2, Places DEF QueueTyped, RingHolds
  <2>3. /\ queue'.buffer = b /\ queue'.tail = PlaceOf(queue.tail, 1)
        /\ queue'.count = n + 1 /\ queue'.head = queue.head
        /\ expected'.pending = Append(p, msg) /\ expected'.sent = expected.sent + 1
    BY <2>1 DEF QueueTyped
  <2>4. /\ Append(p, msg) \in Seq(Message) /\ Len(Append(p, msg)) = n + 1
        /\ Append(p, msg)[n + 1] = msg /\ \A k \in 1 .. n : Append(p, msg)[k] = p[k]
    BY <2>2
  <2>5. b \in [Place -> Message] /\ b[queue.tail] = msg /\ \A i \in Place \ {queue.tail} : b[i] = queue.buffer[i]
    BY <2>2
  <2>6. PlaceOf(queue.tail, 1) \in Place /\ PlaceOf(queue.tail, 1) = PlaceOf(queue.head, n + 1)
    <3>1. 1 \in 0 .. Capacity
      BY Places
    <3> QED
      BY <2>2, <3>1, Places
  <2>7. n + 1 \in 0 .. Capacity
    BY <1>3, <2>2
  <2>8. QueueTyped'
    <3>1. /\ expected.sent + 1 \in Nat /\ Append(p, msg) \in Seq(Message)
          /\ b \in [Place -> Message] /\ n + 1 \in 0 .. Capacity /\ PlaceOf(queue.tail, 1) \in Place
      BY <2>2, <2>4, <2>5, <2>6, <2>7
    <3> HIDE DEF b, n, p
    <3> QED
      BY <2>1, <3>1 DEF QueueTyped
  <2>9. ASSUME NEW k \in 1 .. n + 1
        PROVE  b[PlaceOf(queue.head, k - 1)] = Append(p, msg)[k]
    <3>1. CASE k = n + 1
      BY <2>2, <2>4, <2>5, <3>1
    <3>2. CASE k # n + 1
      <4>1. k \in 1 .. n /\ k - 1 \in 0 .. Capacity - 1 /\ k - 1 \in 0 .. Capacity /\ k - 1 # n
        BY <1>3, <2>2, <3>2
      <4>2. PlaceOf(queue.head, k - 1) \in Place \ {queue.tail}
        BY <2>2, <4>1, Places
      <4>3. queue.buffer[PlaceOf(queue.head, k - 1)] = p[k]
        BY <4>1 DEF RingHolds
      <4> QED
        BY <2>4, <2>5, <4>1, <4>2, <4>3
    <3> QED
      BY <3>1, <3>2
  <2> HIDE DEF b, n, p
  <2>10. RingHolds'
    BY <2>3, <2>4, <2>6, <2>9 DEF RingHolds
  <2> QED
    BY <2>8, <2>10
<1> QED
  BY <1>1, <1>2, <1>3

\* What is taken is the oldest, and the head goes on by one place.
LEMMA DeliveryTakes ==
  ASSUME QueueTyped, RingHolds, Take
  PROVE  QueueTyped' /\ RingHolds'
<1> DEFINE p == expected.pending
           n == queue.count
<1>1. /\ queue' = [queue EXCEPT !.head = PlaceOf(queue.head, 1), !.count = n - 1]
      /\ expected' = [expected EXCEPT !.pending = Tail(p)]
  BY DEF Take, Dequeued, PlaceOf, QueueTyped
<1>2. /\ n \in 1 .. Capacity /\ p \in Seq(Message) /\ Len(p) = n /\ p # <<>>
      /\ queue.head \in Place /\ queue.tail = PlaceOf(queue.head, n)
  BY DEF Take, QueueTyped, RingHolds
<1>3. /\ queue'.buffer = queue.buffer /\ queue'.tail = queue.tail
      /\ queue'.count = n - 1 /\ queue'.head = PlaceOf(queue.head, 1)
      /\ expected'.pending = Tail(p)
  BY <1>1 DEF QueueTyped
<1>4. /\ Tail(p) \in Seq(Message) /\ Len(Tail(p)) = n - 1
      /\ \A k \in 1 .. n - 1 : Tail(p)[k] = p[k + 1]
  BY <1>2
<1>5. 1 \in 0 .. Capacity /\ n - 1 \in 0 .. Capacity /\ n - 1 \in 0 .. Capacity - 1
  BY <1>2, Places
<1>6. PlaceOf(queue.head, 1) \in Place
  BY <1>2, <1>5, Places
<1>7. QueueTyped'
  BY <1>1, <1>4, <1>5, <1>6 DEF QueueTyped
<1>8. queue.tail = PlaceOf(PlaceOf(queue.head, 1), n - 1)
  <2>1. (n - 1) + 1 = n
    BY <1>2
  <2> QED
    BY <1>2, <1>5, <2>1, Places
<1>9. ASSUME NEW k \in 1 .. n - 1
      PROVE  queue.buffer[PlaceOf(PlaceOf(queue.head, 1), k - 1)] = Tail(p)[k]
  <2>1. /\ k - 1 \in 0 .. Capacity - 1 /\ (k - 1) + 1 = k
        /\ k + 1 \in 1 .. n /\ (k + 1) - 1 = k
    BY <1>2, Places
  <2>2. PlaceOf(PlaceOf(queue.head, 1), k - 1) = PlaceOf(queue.head, k)
    BY <1>2, <2>1, Places
  <2>3. queue.buffer[PlaceOf(queue.head, k)] = p[k + 1]
    BY <2>1 DEF RingHolds
  <2> QED
    BY <1>4, <2>2, <2>3
<1> HIDE DEF n, p
<1>10. RingHolds'
  BY <1>3, <1>4, <1>8, <1>9 DEF RingHolds
<1> QED
  BY <1>7, <1>10

\* All are delivered: the head comes to the tail.
LEMMA DeliveryDelivers ==
  ASSUME QueueTyped, RingHolds, DeliverAll
  PROVE  QueueTyped' /\ RingHolds'
<1>1. /\ queue' = [queue EXCEPT !.head = PlaceOf(queue.head, queue.count), !.count = 0]
      /\ expected' = [expected EXCEPT !.pending = <<>>]
  BY DEF DeliverAll, PlaceOf, QueueTyped
<1>2. /\ queue'.buffer = queue.buffer /\ queue'.tail = queue.tail /\ queue'.count = 0
      /\ queue'.head = queue.tail /\ expected'.pending = <<>>
  BY <1>1 DEF QueueTyped, RingHolds
<1>3. /\ queue.tail \in Place /\ PlaceOf(queue.tail, 0) = queue.tail
      /\ 0 \in 0 .. Capacity
  BY Places DEF QueueTyped
<1>4. queue' = [queue EXCEPT !.head = queue.tail, !.count = 0]
  BY <1>1 DEF RingHolds
<1>5. QueueTyped'
  <2>1. queue' \in [buffer : [Place -> Message], count : 0 .. Capacity, head : Place, tail : Place]
    BY <1>3, <1>4 DEF QueueTyped
  <2>2. expected' \in [sent : Nat, pending : Seq(Message)]
    <3> DEFINE none == <<>>
    <3>1. none \in Seq(Message)
      OBVIOUS
    <3>2. expected' = [expected EXCEPT !.pending = none] /\ expected \in [sent : Nat, pending : Seq(Message)]
      BY <1>1 DEF QueueTyped
    <3> HIDE DEF none
    <3> QED
      BY <3>1, <3>2
  <2> QED
    BY <2>1, <2>2 DEF QueueTyped
<1> QED
  BY <1>2, <1>3, <1>5 DEF RingHolds

\* After an update the leader is still unsuspected, and missing only when all are suspected.
LEMMA DeliveryUpdates ==
  ASSUME NEW p \in Process, NEW suspects \in BOOLEAN, DetectorLeads, Update(p, suspects)
  PROVE  DetectorLeads'
<1> DEFINE suspected == IF suspects THEN detector.suspected \cup {p} ELSE detector.suspected \ {p}
           trusted == Process \ suspected
<1>1. /\ detector' = [suspected |-> suspected, leader |-> IF suspected = Process THEN -1 ELSE Min(trusted)]
      /\ suspected \in SUBSET Process
  BY DEF Update, DetectorLeads
<1>2. CASE suspected = Process
  BY <1>1, <1>2, ProcessNumbers DEF DetectorLeads
<1>3. CASE suspected # Process
  <2>1. trusted # {} /\ trusted \subseteq Nat
    BY <1>1, <1>3, ProcessNumbers
  <2> HIDE DEF trusted
  <2>2. PICK x \in trusted : \A y \in trusted : x <= y
    BY <2>1, SmallestMember
  <2>3. Min(trusted) \in trusted
    BY <2>2 DEF Min
  <2> USE DEF trusted
  <2>4. Min(trusted) \in Process /\ Min(trusted) \notin suspected /\ Min(trusted) # -1
    BY <2>3, ProcessNumbers
  <2> QED
    BY <1>1, <1>3, <2>4 DEF DetectorLeads
<1> QED
  BY <1>2, <1>3

\* The invariant of the detector and the queue holds initially.
LEMMA DeliveryInvInit == DeliveryStart => DeliveryInv
<1> SUFFICES ASSUME DeliveryStart PROVE DeliveryInv
  OBVIOUS
<1>1. QueueTyped
  BY Places, ProcessNumbers DEF DeliveryStart, QueueTyped, Place, Message
<1>2. RingHolds
  BY Places DEF DeliveryStart, RingHolds
<1>3. DetectorLeads
  BY ProcessNumbers DEF DeliveryStart, DetectorLeads
<1>4. EntriesOrdered
  BY DEF DeliveryStart, EntriesOrdered
<1> QED
  BY <1>1, <1>2, <1>3, <1>4 DEF DeliveryInv

\* The invariant of the detector and the queue is inductive.
LEMMA DeliveryInvStep ==
  ASSUME DeliveryInv, DeliveryStep \/ UNCHANGED deliveryVars
  PROVE  DeliveryInv'
<1> USE DEF DeliveryInv
<1>1. ASSUME UNCHANGED <<queue, expected>> PROVE QueueTyped' /\ RingHolds'
  BY <1>1 DEF QueueTyped, RingHolds
<1>2. ASSUME UNCHANGED detector PROVE DetectorLeads'
  BY <1>2 DEF DetectorLeads
<1>3. ASSUME UNCHANGED entries PROVE EntriesOrdered'
  BY <1>3 DEF EntriesOrdered
<1>4. CASE UNCHANGED deliveryVars
  BY <1>1, <1>2, <1>3, <1>4 DEF deliveryVars
<1>5. ASSUME NEW msg \in Message, Send(msg) PROVE DeliveryInv'
  BY <1>2, <1>3, <1>5, DeliverySends DEF Send
<1>6. CASE Take
  BY <1>2, <1>3, <1>6, DeliveryTakes DEF Take
<1>7. CASE DeliverAll
  BY <1>2, <1>3, <1>7, DeliveryDelivers DEF DeliverAll
<1>8. ASSUME NEW p \in Process, NEW suspects \in BOOLEAN, Update(p, suspects) PROVE DeliveryInv'
  <2>1. DetectorLeads'
    BY <1>8, DeliveryUpdates
  <2>2. UNCHANGED <<queue, received, entries, expected>>
    BY <1>8 DEF Update
  <2> QED
    BY <1>1, <1>3, <2>1, <2>2
<1>9. CASE AppendEntry
  <2>1. EntriesOrdered'
    BY <1>9 DEF AppendEntry, EntriesOrdered
  <2> QED
    BY <1>1, <1>2, <1>9, <2>1 DEF AppendEntry
<1>10. ASSUME NEW commit \in 0 .. MaxEntries, NEW applied \in 0 .. MaxEntries,
              CommitAndApply(commit, applied)
       PROVE  DeliveryInv'
  <2>1. EntriesOrdered'
    <3>1. entries' = [entries EXCEPT !.commit_index = commit, !.last_applied = applied]
      BY <1>10 DEF CommitAndApply
    <3>2. commit \in Nat /\ applied \in Nat /\ applied <= commit /\ commit <= entries.length
      BY <1>10, DeliveryAssumption DEF CommitAndApply
    <3> QED
      BY <3>1, <3>2 DEF EntriesOrdered
  <2> QED
    BY <1>1, <1>2, <1>10, <2>1 DEF CommitAndApply
<1>11. ASSUME NEW from \in 0 .. MaxEntries, Truncate(from) PROVE DeliveryInv'
  <2>1. EntriesOrdered'
    <3> DEFINE length == IF from = 0 THEN IndexRange - 1 ELSE from - 1
    <3>1. /\ from \in Nat /\ from <= entries.length
          /\ entries \in [length : Nat, commit_index : Nat, last_applied : Nat]
          /\ entries.last_applied <= entries.commit_index /\ entries.commit_index <= entries.length
      BY <1>11 DEF Truncate, EntriesOrdered
    <3>2. /\ entries'.length = length /\ length \in Nat
          /\ entries'.commit_index = Below(entries.commit_index, from)
          /\ entries'.last_applied = Below(entries.last_applied, from)
          /\ entries' = [length |-> length, commit_index |-> Below(entries.commit_index, from),
                          last_applied |-> Below(entries.last_applied, from)]
      BY <1>11, <3>1, DeliveryAssumption DEF Truncate
    <3>3. /\ Below(entries.commit_index, from) \in Nat /\ Below(entries.last_applied, from) \in Nat
          /\ Below(entries.last_applied, from) <= Below(entries.commit_index, from)
          /\ Below(entries.commit_index, from) <= length
      BY <3>1, <3>2 DEF Below
    <3> QED
      BY <3>2, <3>3 DEF EntriesOrdered
  <2> QED
    BY <1>1, <1>2, <1>11, <2>1 DEF Truncate
<1> QED
  BY <1>4, <1>5, <1>6, <1>7, <1>8, <1>9, <1>10, <1>11 DEF DeliveryStep

\* The ring buffer holds what was put in, in that order.
LEMMA DeliveryInvKeepsOrder == DeliveryInv => QueueKeepsOrder
<1> SUFFICES ASSUME DeliveryInv PROVE QueueKeepsOrder
  OBVIOUS
<1>1. Waiting(queue) = expected.pending
  <2>1. expected.pending \in [1 .. queue.count -> Message]
    BY DEF DeliveryInv, QueueTyped, RingHolds
  <2>2. \A k \in 1 .. queue.count : Waiting(queue)[k] = expected.pending[k]
    <3>1. ASSUME NEW k \in 1 .. queue.count
          PROVE  queue.head + k - 1 = queue.head + (k - 1)
      BY DEF DeliveryInv, QueueTyped, Place
    <3> QED
      BY <3>1 DEF DeliveryInv, RingHolds, Waiting, PlaceOf
  <2> QED
    BY <2>1, <2>2 DEF Waiting
<1> QED
  BY <1>1 DEF DeliveryInv, QueueKeepsOrder, RingHolds, PlaceOf, DetectorLeads, EntriesOrdered

\* The ring keeps the order of the messages, however often it wraps round.
THEOREM QueueIsFifo == VariantsSpec => []QueueKeepsOrder
<1>1. VariantsInit => DeliveryInv
  BY DeliveryInvInit DEF VariantsInit
<1>2. DeliveryInv /\ [VariantsNext]_variantVars => DeliveryInv'
  BY DeliveryInvStep, VariantSteps
<1> QED
  BY <1>1, <1>2, DeliveryInvKeepsOrder, PTL DEF VariantsSpec

--------------------------------------------------------------------------------
\* The chains of the miners.

\* A block that names another is one higher.
Follows(b) ==
  /\ b.difficulty \in Nat
  /\ b.prev = ZeroHash \/ (b.prev = <<b.prev[1]>> /\ b.height = b.prev[1].height + 1)

Blocks(c) == {c[k] : k \in DOMAIN c}

\* A chain of such blocks, each of which names the one before it
Linked(c) ==
  /\ c \in Seq(Blocks(c))
  /\ \A k \in DOMAIN c : Follows(c[k])
  /\ \A k \in 2 .. Len(c) : c[k].prev = Hash(c[k - 1])

ChainInv ==
  /\ chain \in [Miner -> {chain[i] : i \in Miner}] /\ mined \in [Miner -> {mined[i] : i \in Miner}]
  /\ \A i \in Miner : Linked(chain[i]) /\ Follows(mined[i])

\* A block that is appended lies on the chain.
LEMMA Appended ==
  ASSUME NEW c, NEW b, Linked(c)
  PROVE  LET d == Append(c, b) IN
         /\ Len(c) \in Nat /\ Len(d) = Len(c) + 1 /\ DOMAIN d = 1 .. Len(c) + 1 /\ DOMAIN c = 1 .. Len(c)
         /\ d[Len(c) + 1] = b /\ \A k \in 1 .. Len(c) : d[k] = c[k]
         /\ d \in Seq(Blocks(d))
<1> DEFINE d == Append(c, b)
           S == Blocks(c) \cup {b}
<1>1. c \in Seq(S)
  <2>1. c \in Seq(Blocks(c)) /\ Blocks(c) \subseteq S
    BY DEF Linked
  <2> HIDE DEF S
  <2> QED
    BY <2>1
<1>2. b \in S
  OBVIOUS
<1> HIDE DEF S
<1>3. /\ Len(c) \in Nat /\ Len(d) = Len(c) + 1 /\ DOMAIN d = 1 .. Len(c) + 1 /\ DOMAIN c = 1 .. Len(c)
      /\ d[Len(c) + 1] = b /\ \A k \in 1 .. Len(c) : d[k] = c[k]
      /\ d \in Seq(S)
  BY <1>1, <1>2
<1> HIDE DEF d
<1>4. d \in [1 .. Len(d) -> Blocks(d)] /\ Len(d) \in Nat
  BY <1>3 DEF Blocks
<1>5. d \in Seq(Blocks(d))
  <2> DEFINE B == Blocks(d)
  <2> HIDE DEF B
  <2>1. d \in [1 .. Len(d) -> B] /\ Len(d) \in Nat
    BY <1>4 DEF B
  <2>2. d \in Seq(B)
    BY <2>1
  <2> QED
    BY <2>2 DEF B
<1> QED
  BY <1>3, <1>5 DEF d

\* The empty chain is linked.
LEMMA EmptyLinked == Linked(<<>>)
<1> DEFINE c == <<>>
<1>1. DOMAIN c = {} /\ Len(c) = 0 /\ Blocks(c) = {} /\ c \in Seq({}) /\ 2 .. 0 = {}
  BY DEF Blocks
<1> HIDE DEF c
<1>2. Linked(c)
  BY <1>1 DEF Linked
<1> QED
  BY <1>2 DEF c

\* Adding a block that follows another leaves a linked chain.
LEMMA AddsLinked ==
  ASSUME NEW c, NEW b, Linked(c), Follows(b), Adds(c, b)
  PROVE  Linked(Append(c, b))
<1> DEFINE d == Append(c, b)
<1>1. /\ Len(c) \in Nat /\ Len(d) = Len(c) + 1 /\ DOMAIN d = 1 .. Len(c) + 1 /\ DOMAIN c = 1 .. Len(c)
      /\ d[Len(c) + 1] = b /\ \A k \in 1 .. Len(c) : d[k] = c[k]
      /\ d \in Seq(Blocks(d))
  BY Appended
<1> HIDE DEF d
<1>2. ASSUME NEW k \in DOMAIN d PROVE Follows(d[k])
  <2>1. CASE k = Len(c) + 1
    BY <1>1, <2>1
  <2>2. CASE k # Len(c) + 1
    <3>1. k \in 1 .. Len(c)
      BY <1>1, <2>2
    <3> QED
      BY <1>1, <3>1 DEF Linked
  <2> QED
    BY <2>1, <2>2
<1>3. ASSUME NEW k \in 2 .. Len(d) PROVE d[k].prev = Hash(d[k - 1])
  <2>1. CASE k = Len(c) + 1
    <3>1. c # <<>> /\ k - 1 = Len(c) /\ k - 1 \in 1 .. Len(c)
      BY <1>1, <2>1
    <3>2. b.prev = Hash(c[Len(c)])
      BY <3>1 DEF Adds, Last
    <3> QED
      BY <1>1, <2>1, <3>1, <3>2
  <2>2. CASE k # Len(c) + 1
    <3>1. k \in 1 .. Len(c) /\ k \in 2 .. Len(c) /\ k - 1 \in 1 .. Len(c)
      BY <1>1, <2>2
    <3>2. c[k].prev = Hash(c[k - 1])
      BY <3>1 DEF Linked
    <3> QED
      BY <1>1, <3>1, <3>2
  <2> QED
    BY <2>1, <2>2
<1>4. Linked(d)
  BY <1>1, <1>2, <1>3 DEF Linked
<1> QED
  BY <1>4 DEF d

\* What a miner creates fits its own chain.
LEMMA CreatedFits ==
  ASSUME NEW c, Linked(c), NEW difficulty \in Difficulty, NEW stamp \in Stamp
  PROVE  Follows(CreateBlock(c, difficulty, stamp)) /\ Adds(c, CreateBlock(c, difficulty, stamp))
<1> DEFINE b == CreateBlock(c, difficulty, stamp)
<1>1. /\ b.prev = IF c = <<>> THEN ZeroHash ELSE Hash(Last(c))
      /\ b.height = IF c = <<>> THEN 0 ELSE Last(c).height + 1
      /\ b.difficulty = difficulty /\ difficulty \in Nat
  BY NakamotoAssumption DEF CreateBlock
<1> HIDE DEF b
<1>2. Follows(b)
  <2>1. CASE c = <<>>
    BY <1>1, <2>1 DEF Follows
  <2>2. CASE c # <<>>
    <3> DEFINE x == Last(c)
    <3>1. b.prev = Hash(x) /\ b.height = x.height + 1
      BY <1>1, <2>2
    <3> HIDE DEF x
    <3>2. b.prev = ZeroHash \/ b.prev = <<x>>
      BY <3>1 DEF Hash
    <3>3. <<x>>[1] = x
      OBVIOUS
    <3> QED
      BY <1>1, <3>1, <3>2, <3>3 DEF Follows
  <2> QED
    BY <2>1, <2>2
<1>3. Adds(c, b)
  BY <1>1 DEF Adds
<1> QED
  BY <1>2, <1>3 DEF b

\* Every miner starts with a linked chain.
LEMMA ChainInvInit == NakamotoStart => ChainInv
<1> SUFFICES ASSUME NakamotoStart PROVE ChainInv
  OBVIOUS
<1>1. \A i \in Miner : chain[i] = <<>> /\ mined[i] = NoBlock
  BY DEF NakamotoStart
<1>2. Follows(NoBlock)
  BY DEF Follows, NoBlock
<1>3. \A i \in Miner : Linked(chain[i]) /\ Follows(mined[i])
  BY <1>1, <1>2, EmptyLinked
<1>4. chain \in [Miner -> {chain[i] : i \in Miner}] /\ mined \in [Miner -> {mined[i] : i \in Miner}]
  BY DEF NakamotoStart
<1> QED
  BY <1>3, <1>4 DEF ChainInv

\* A step leaves a chain, adds a block to it that fits it, or replaces it by a better.
ChainMoves(i) ==
  \/ chain'[i] = chain[i]
  \/ \E b : Follows(b) /\ Adds(chain[i], b) /\ chain'[i] = Append(chain[i], b)
  \/ \E j \in Miner : Better(chain[j], chain[i]) /\ chain'[i] = chain[j]

\* A step mines on a chain, adopts a better one, or leaves it.
LEMMA ChainsMove ==
  ASSUME ChainInv, NakamotoStep \/ UNCHANGED nakamotoVars
  PROVE  /\ \A i \in Miner : ChainMoves(i) /\ Follows(mined'[i])
         /\ DOMAIN chain' = Miner /\ DOMAIN mined' = Miner
         /\ chain' = [i \in Miner |-> chain'[i]] /\ mined' = [i \in Miner |-> mined'[i]]
<1>0. /\ DOMAIN chain = Miner /\ DOMAIN mined = Miner
      /\ chain = [i \in Miner |-> chain[i]] /\ mined = [i \in Miner |-> mined[i]]
      /\ \A i \in Miner : Linked(chain[i]) /\ Follows(mined[i])
  BY DEF ChainInv
<1>1. ASSUME NEW i \in Miner, NEW difficulty \in Difficulty, NEW stamp \in Stamp,
             Mine(i, difficulty, stamp)
      PROVE  /\ \A k \in Miner : ChainMoves(k) /\ Follows(mined'[k])
             /\ DOMAIN chain' = Miner /\ DOMAIN mined' = Miner
             /\ chain' = [k \in Miner |-> chain'[k]] /\ mined' = [k \in Miner |-> mined'[k]]
  <2> DEFINE b == CreateBlock(chain[i], difficulty, stamp)
  <2>1. Follows(b) /\ Adds(chain[i], b)
    BY <1>0, CreatedFits
  <2>2. /\ mined' = [mined EXCEPT ![i] = b]
        /\ chain' = [chain EXCEPT ![i] = AddBlock(chain[i], b)]
    BY <1>1 DEF Mine
  <2> HIDE DEF b
  <2>3. AddBlock(chain[i], b) = Append(chain[i], b)
    BY <2>1 DEF AddBlock
  <2> QED
    BY <1>0, <2>1, <2>2, <2>3 DEF ChainMoves
<1>2. ASSUME NEW i \in Miner, NEW j \in Miner, Deliver(i, j)
      PROVE  /\ \A k \in Miner : ChainMoves(k) /\ Follows(mined'[k])
             /\ DOMAIN chain' = Miner /\ DOMAIN mined' = Miner
             /\ chain' = [k \in Miner |-> chain'[k]] /\ mined' = [k \in Miner |-> mined'[k]]
  <2>1. mined' = mined /\ chain' = [chain EXCEPT ![j] = AddBlock(chain[j], mined[i])]
    BY <1>2 DEF Deliver
  <2>2. \/ AddBlock(chain[j], mined[i]) = chain[j]
        \/ Adds(chain[j], mined[i]) /\ AddBlock(chain[j], mined[i]) = Append(chain[j], mined[i])
    BY DEF AddBlock
  <2> QED
    BY <1>0, <2>1, <2>2 DEF ChainMoves
<1>3. ASSUME NEW i \in Miner, NEW j \in Miner, AdoptChain(i, j)
      PROVE  /\ \A k \in Miner : ChainMoves(k) /\ Follows(mined'[k])
             /\ DOMAIN chain' = Miner /\ DOMAIN mined' = Miner
             /\ chain' = [k \in Miner |-> chain'[k]] /\ mined' = [k \in Miner |-> mined'[k]]
  <2>1. mined' = mined /\ chain' = [chain EXCEPT ![i] = chain[j]] /\ Better(chain[j], chain[i])
    BY <1>3 DEF AdoptChain
  <2> QED
    BY <1>0, <2>1 DEF ChainMoves
<1>4. CASE UNCHANGED nakamotoVars
  BY <1>0, <1>4 DEF nakamotoVars, ChainMoves
<1> QED
  BY <1>1, <1>2, <1>3, <1>4 DEF NakamotoStep

\* The invariant of the chains is inductive.
LEMMA ChainInvStep ==
  ASSUME ChainInv, NakamotoStep \/ UNCHANGED nakamotoVars
  PROVE  ChainInv'
<1>1. /\ \A i \in Miner : ChainMoves(i) /\ Follows(mined'[i])
      /\ DOMAIN chain' = Miner /\ DOMAIN mined' = Miner
      /\ chain' = [i \in Miner |-> chain'[i]] /\ mined' = [i \in Miner |-> mined'[i]]
  BY ChainsMove
<1>2. ASSUME NEW i \in Miner PROVE Linked(chain'[i])
  <2>1. \A j \in Miner : Linked(chain[j])
    BY DEF ChainInv
  <2>2. ASSUME NEW b, Follows(b), Adds(chain[i], b), chain'[i] = Append(chain[i], b)
        PROVE  Linked(chain'[i])
    BY <2>1, <2>2, AddsLinked
  <2>3. ChainMoves(i)
    BY <1>1
  <2> QED
    BY <2>1, <2>2, <2>3 DEF ChainMoves
<1>3. chain' \in [Miner -> {chain'[i] : i \in Miner}] /\ mined' \in [Miner -> {mined'[i] : i \in Miner}]
  BY <1>1
<1> QED
  BY <1>1, <1>2, <1>3 DEF ChainInv

\* The blocks up to place k of c and up to place l of d are the same, counted from there.
SameBelow(c, d, k, l, shared) ==
  SubSeq(c, k - shared + 1, k) = SubSeq(d, l - shared + 1, l)

\* Chains with a common block agree on all below it.
LEMMA CommonPast ==
  ASSUME NEW c, NEW d, Linked(c), Linked(d), AllMined(c), AllMined(d),
         NEW k \in DOMAIN c, NEW l \in DOMAIN d, c[k] = d[l],
         NEW shared \in Nat \ {0}, shared <= k, shared <= l
  PROVE  SameBelow(c, d, k, l, shared)
<1> DEFINE Good == {m \in 0 .. shared - 1 : c[k - m] = d[l - m]}
<1>1. /\ c \in Seq(Blocks(c)) /\ d \in Seq(Blocks(d))
      /\ DOMAIN c = 1 .. Len(c) /\ DOMAIN d = 1 .. Len(d) /\ Len(c) \in Nat /\ Len(d) \in Nat
  <2> DEFINE B == Blocks(c)
             D == Blocks(d)
  <2>1. c \in Seq(B) /\ d \in Seq(D)
    BY DEF Linked
  <2> HIDE DEF B, D
  <2>2. DOMAIN c = 1 .. Len(c) /\ DOMAIN d = 1 .. Len(d) /\ Len(c) \in Nat /\ Len(d) \in Nat
    BY <2>1
  <2> QED
    BY <2>1, <2>2 DEF B, D
<1>2. k \in 1 .. Len(c) /\ l \in 1 .. Len(d) /\ shared \in Nat \ {0}
  BY <1>1
<1>3. 0 \in Good
  BY <1>2
<1>4. ASSUME NEW m \in 1 .. shared - 1, m - 1 \in Good PROVE m \in Good
  <2>1. /\ k - (m - 1) \in 2 .. Len(c) /\ l - (m - 1) \in 2 .. Len(d)
        /\ k - (m - 1) - 1 = k - m /\ l - (m - 1) - 1 = l - m
        /\ k - m \in DOMAIN c /\ l - m \in DOMAIN d
    BY <1>1, <1>2
  <2>2. c[k - (m - 1)].prev = Hash(c[k - m]) /\ d[l - (m - 1)].prev = Hash(d[l - m])
    BY <2>1 DEF Linked
  <2>3. Hash(c[k - m]) = <<c[k - m]>> /\ Hash(d[l - m]) = <<d[l - m]>>
    BY <2>1 DEF AllMined, Hash
  <2>4. c[k - (m - 1)] = d[l - (m - 1)]
    BY <1>4
  <2>5. <<c[k - m]>> = <<d[l - m]>>
    BY <2>2, <2>3, <2>4
  <2>6. c[k - m] = d[l - m]
    BY <2>5
  <2> QED
    BY <2>6
<1>5. \A m \in 0 .. shared - 1 : m \in Good
  <2>1. shared - 1 \in Nat
    BY <1>2
  <2>2. \A m \in 1 .. shared - 1 : m - 1 \in Good => m \in Good
    BY <1>4
  <2> HIDE DEF Good
  <2> QED
    BY <1>3, <2>1, <2>2, UpTo
<1> DEFINE U == Blocks(c) \cup Blocks(d)
           s == SubSeq(c, k - shared + 1, k)
           t == SubSeq(d, l - shared + 1, l)
<1>6. /\ k - shared + 1 \in Int /\ l - shared + 1 \in Int /\ k \in Int /\ l \in Int
      /\ \A p \in k - shared + 1 .. k : c[p] \in U
      /\ \A p \in l - shared + 1 .. l : d[p] \in U
      /\ k - (k - shared + 1) + 1 = shared /\ l - (l - shared + 1) + 1 = shared
      /\ k - shared + 1 <= k /\ l - shared + 1 <= l
  <2>1. /\ \A p \in k - shared + 1 .. k : p \in 1 .. Len(c)
        /\ \A p \in l - shared + 1 .. l : p \in 1 .. Len(d)
    BY <1>2
  <2>2. /\ \A p \in 1 .. Len(c) : c[p] \in U
        /\ \A p \in 1 .. Len(d) : d[p] \in U
    BY <1>1 DEF Blocks
  <2> HIDE DEF U
  <2>3. /\ \A p \in k - shared + 1 .. k : c[p] \in U
        /\ \A p \in l - shared + 1 .. l : d[p] \in U
    BY <2>1, <2>2
  <2>4. /\ k - shared + 1 \in Int /\ l - shared + 1 \in Int /\ k \in Int /\ l \in Int
        /\ k - (k - shared + 1) + 1 = shared /\ l - (l - shared + 1) + 1 = shared
        /\ k - shared + 1 <= k /\ l - shared + 1 <= l
    BY <1>2
  <2> QED
    BY <2>3, <2>4
<1>7. /\ s \in Seq(U) /\ Len(s) = shared
      /\ \A p \in 1 .. shared : s[p] = c[(k - shared + 1) + p - 1]
  <2> HIDE DEF U
  <2> QED
    BY <1>6, SubSeqProperties
<1>8. /\ t \in Seq(U) /\ Len(t) = shared
      /\ \A p \in 1 .. shared : t[p] = d[(l - shared + 1) + p - 1]
  <2> HIDE DEF U
  <2> QED
    BY <1>6, SubSeqProperties
<1>9. ASSUME NEW p \in 1 .. shared PROVE s[p] = t[p]
  <2>1. /\ shared - p \in 0 .. shared - 1
        /\ (k - shared + 1) + p - 1 = k - (shared - p) /\ (l - shared + 1) + p - 1 = l - (shared - p)
    BY <1>2
  <2>2. c[k - (shared - p)] = d[l - (shared - p)]
    BY <1>5, <2>1
  <2> HIDE DEF s, t
  <2> QED
    BY <1>7, <1>8, <2>1, <2>2
<1> HIDE DEF s, t, U
<1>10. s = t
  BY <1>7, <1>8, <1>9
<1> QED
  BY <1>10 DEF s, t, SameBelow

\* The invariant of the chains makes every block linked to the one below.
LEMMA ChainInvLinks == ChainInv => BlocksLinked
<1> SUFFICES ASSUME ChainInv, NEW i \in Miner, NEW j \in Miner
             PROVE  /\ \A k \in 2 .. Len(chain[i]) : chain[i][k].prev = Hash(chain[i][k - 1])
                    /\ AllMined(chain[i]) =>
                         \A k \in 2 .. Len(chain[i]) : chain[i][k].height = chain[i][k - 1].height + 1
                    /\ AllMined(chain[i]) /\ AllMined(chain[j]) =>
                         \A k \in DOMAIN chain[i], l \in DOMAIN chain[j] : chain[i][k] = chain[j][l] =>
                           LET shared == IF k < l THEN k ELSE l
                           IN  SubSeq(chain[i], k - shared + 1, k) = SubSeq(chain[j], l - shared + 1, l)
  BY DEF BlocksLinked
<1> DEFINE c == chain[i]
           d == chain[j]
<1>1. Linked(c) /\ Linked(d)
  BY DEF ChainInv
<1> HIDE DEF c, d
<1>2. DOMAIN c = 1 .. Len(c) /\ DOMAIN d = 1 .. Len(d) /\ Len(c) \in Nat /\ Len(d) \in Nat
  BY <1>1, Appended
<1>3. ASSUME AllMined(c), NEW k \in 2 .. Len(c) PROVE c[k].height = c[k - 1].height + 1
  <2> DEFINE x == c[k - 1]
             b == c[k]
  <2>1. k \in DOMAIN c /\ k - 1 \in DOMAIN c
    BY <1>2
  <2>2. b.prev = Hash(x) /\ x.stamp # 0 /\ Follows(b)
    BY <1>1, <1>3, <2>1 DEF Linked, AllMined
  <2> HIDE DEF x, b
  <2>3. b.prev = <<x>> /\ <<x>> # <<>> /\ <<x>>[1] = x
    BY <2>2 DEF Hash
  <2>4. b.height = x.height + 1
    BY <2>2, <2>3 DEF Follows, ZeroHash
  <2> QED
    BY <2>4 DEF x, b
<1>4. ASSUME AllMined(c), AllMined(d), NEW k \in DOMAIN c, NEW l \in DOMAIN d, c[k] = d[l],
             NEW shared, shared = IF k < l THEN k ELSE l
      PROVE  SubSeq(c, k - shared + 1, k) = SubSeq(d, l - shared + 1, l)
  <2>1. k \in Nat \ {0} /\ l \in Nat \ {0}
    BY <1>2
  <2>2. shared \in Nat \ {0} /\ shared <= k /\ shared <= l
    BY <1>4, <2>1
  <2>3. SameBelow(c, d, k, l, shared)
    BY <1>1, <1>4, <2>2, CommonPast
  <2> QED
    BY <2>3 DEF SameBelow
<1>5. \A k \in 2 .. Len(c) : c[k].prev = Hash(c[k - 1])
  BY <1>1 DEF Linked
<1> QED
  BY <1>3, <1>4, <1>5 DEF c, d

\* The work of a chain is summed up block by block.
Sums(w, c) ==
  /\ w \in [0 .. Len(c) -> Nat] /\ w[0] = 0
  /\ \A k \in 1 .. Len(c) : w[k] = w[k - 1] + BlockWork(c[k])

\* The work of a chain is the last of its partial sums.
LEMMA WorkSums ==
  ASSUME NEW c, Len(c) \in Nat, \A k \in 1 .. Len(c) : BlockWork(c[k]) \in Nat
  PROVE  \E w : Sums(w, c) /\ w[Len(c)] = TotalWork(c)
<1> DEFINE n == Len(c)
           G == [k \in 1 .. n |-> [x \in Nat |-> x + BlockWork(c[k])]]
           work[k \in 0 .. n] == IF k = 0 THEN 0 ELSE work[k - 1] + BlockWork(c[k])
<1>1. G \in StepsOn(Nat, n)
  BY DEF StepsOn
<1>2. TotalWork(c) = work[n]
  BY DEF TotalWork
<1>3. \E f : f = [k \in 0 .. n |-> IF k = 0 THEN 0 ELSE f[k - 1] + BlockWork(c[k])]
  <2> HIDE DEF n
  <2>1. PICK f : Unfolds(f, Nat, 0, n, G)
    <3> HIDE DEF G
    <3> QED
      BY <1>1, Recursion DEF n
  <2>2. f \in [0 .. n -> Nat] /\ f[0] = 0 /\ \A k \in 1 .. n : f[k] = f[k - 1] + BlockWork(c[k])
    <3>1. \A k \in 1 .. n : k - 1 \in 0 .. n
      BY DEF n
    <3> QED
      BY <2>1, <3>1 DEF Unfolds
  <2>3. \A k \in 0 .. n : f[k] = IF k = 0 THEN 0 ELSE f[k - 1] + BlockWork(c[k])
    <3>1. \A k \in 0 .. n : k # 0 => k \in 1 .. n
      BY DEF n
    <3> QED
      BY <2>2, <3>1
  <2> QED
    BY <2>2, <2>3
<1>4. work = [k \in 0 .. n |-> IF k = 0 THEN 0 ELSE work[k - 1] + BlockWork(c[k])]
  <2> HIDE DEF n
  <2> QED
    BY <1>3
<1> HIDE DEF work
<1>5. DOMAIN work = 0 .. n /\ work[0] = 0 /\ \A k \in 1 .. n : work[k] = work[k - 1] + BlockWork(c[k])
  BY <1>4
<1>6. \A k \in 0 .. n : work[k] \in Nat
  <2> DEFINE Good == {k \in 0 .. n : work[k] \in Nat}
  <2>1. 0 \in Good /\ \A k \in 1 .. n : k - 1 \in Good => k \in Good
    BY <1>5
  <2> HIDE DEF Good
  <2>2. \A k \in 0 .. n : k \in Good
    BY <2>1, UpTo
  <2> QED
    BY <2>2 DEF Good
<1>7. Sums(work, c)
  BY <1>4, <1>5, <1>6 DEF Sums
<1> QED
  BY <1>2, <1>7

\* A block adds its work, which is never nothing.
LEMMA BlocksWork ==
  ASSUME NEW b, b.difficulty \in Nat
  PROVE  BlockWork(b) \in Nat \ {0}
BY DEF BlockWork

\* A block adds its own work to the work of the chain below it.
LEMMA WorkAdds ==
  ASSUME NEW c, NEW b, Linked(c), Follows(b)
  PROVE  /\ TotalWork(c) \in Nat
         /\ TotalWork(Append(c, b)) = TotalWork(c) + BlockWork(b)
<1> DEFINE d == Append(c, b)
<1>1. /\ Len(c) \in Nat /\ Len(d) = Len(c) + 1 /\ DOMAIN c = 1 .. Len(c)
      /\ d[Len(c) + 1] = b /\ \A k \in 1 .. Len(c) : d[k] = c[k]
  BY Appended
<1> HIDE DEF d
<1>2. \A k \in 1 .. Len(c) : BlockWork(c[k]) \in Nat
  BY <1>1, BlocksWork DEF Linked, Follows
<1>3. \A k \in 1 .. Len(d) : BlockWork(d[k]) \in Nat
  <2>1. \A k \in 1 .. Len(d) : k \in 1 .. Len(c) \/ k = Len(c) + 1
    BY <1>1
  <2>2. BlockWork(b) \in Nat
    BY BlocksWork DEF Follows
  <2> QED
    BY <1>1, <1>2, <2>1, <2>2
<1>4. PICK v : Sums(v, c) /\ v[Len(c)] = TotalWork(c)
  BY <1>1, <1>2, WorkSums
<1>5. PICK w : Sums(w, d) /\ w[Len(d)] = TotalWork(d)
  <2>1. Len(d) \in Nat
    BY <1>1
  <2> QED
    BY <1>3, <2>1, WorkSums
<1>6. \A k \in 0 .. Len(c) : v[k] = w[k]
  <2> DEFINE Good == {k \in 0 .. Len(c) : v[k] = w[k]}
  <2>1. 0 \in Good
    BY <1>1, <1>4, <1>5 DEF Sums
  <2>2. ASSUME NEW k \in 1 .. Len(c), k - 1 \in Good PROVE k \in Good
    <3>1. v[k] = v[k - 1] + BlockWork(c[k])
      BY <1>4 DEF Sums
    <3>2. k \in 1 .. Len(d)
      BY <1>1
    <3>3. w[k] = w[k - 1] + BlockWork(d[k])
      BY <1>5, <3>2 DEF Sums
    <3> QED
      BY <1>1, <2>2, <3>1, <3>3
  <2> HIDE DEF Good
  <2>3. \A k \in 0 .. Len(c) : k \in Good
    BY <1>1, <2>1, <2>2, UpTo
  <2> QED
    BY <2>3 DEF Good
<1>7. w[Len(c) + 1] = w[Len(c)] + BlockWork(b)
  <2>1. Len(c) + 1 \in 1 .. Len(d) /\ (Len(c) + 1) - 1 = Len(c)
    BY <1>1
  <2>2. w[Len(c) + 1] = w[(Len(c) + 1) - 1] + BlockWork(d[Len(c) + 1])
    BY <1>5, <2>1 DEF Sums
  <2> QED
    BY <1>1, <2>1, <2>2
<1>8. Len(c) \in 0 .. Len(c)
  BY <1>1
<1>9. TotalWork(c) \in Nat
  BY <1>4, <1>8 DEF Sums
<1>10. TotalWork(d) = TotalWork(c) + BlockWork(b)
  BY <1>1, <1>4, <1>5, <1>6, <1>7, <1>8
<1> QED
  BY <1>9, <1>10 DEF d

\* Every step that changes a chain makes it better.
LEMMA OnlyToBetter ==
  ASSUME ChainInv, NakamotoStep \/ UNCHANGED nakamotoVars
  PROVE  OnlyBetter
<1> SUFFICES ASSUME NEW i \in Miner, chain'[i] # chain[i] PROVE Better(chain'[i], chain[i])
  BY DEF OnlyBetter
<1>1. ChainMoves(i)
  BY ChainsMove
<1>2. ASSUME NEW b, Follows(b), Adds(chain[i], b), chain'[i] = Append(chain[i], b)
      PROVE  Better(chain'[i], chain[i])
  <2>1. /\ TotalWork(chain[i]) \in Nat
        /\ TotalWork(Append(chain[i], b)) = TotalWork(chain[i]) + BlockWork(b)
    BY <1>2, WorkAdds DEF ChainInv
  <2>2. BlockWork(b) \in Nat \ {0}
    BY <1>2, BlocksWork DEF Follows
  <2>3. TotalWork(Append(chain[i], b)) > TotalWork(chain[i])
    BY <2>1, <2>2
  <2> QED
    BY <1>2, <2>3 DEF Better
<1> QED
  BY <1>1, <1>2 DEF ChainMoves

\* Some honest node holds the first of the best chains.
LEMMA BestChainExists ==
  ASSUME ChainInv
  PROVE  CanonicalIsBest
<1> DEFINE T(i) == TotalWork(chain[i])
           L(i) == Len(chain[i])
           Beaten(i, j) == Better(chain[j], chain[i]) \/ (j < i /\ ~Better(chain[i], chain[j]))
           H == HonestCount - 1
           Good == {n \in 0 .. H : \E i \in 0 .. n : \A j \in 0 .. n : ~Beaten(i, j)}
<1>1. H \in Nat /\ 0 .. H \subseteq Miner
  <2>1. Cardinality(Miner) \in Nat
    BY NakamotoAssumption, FS_CardinalityType
  <2> QED
    BY <2>1, NakamotoAssumption
<1>2. \A i \in 0 .. H : T(i) \in Nat /\ L(i) \in Nat
  <2>1. ASSUME NEW i \in Miner PROVE T(i) \in Nat /\ L(i) \in Nat
    <3>1. Linked(chain[i]) /\ Follows(NoBlock)
      BY DEF ChainInv, Follows, NoBlock
    <3> QED
      BY <3>1, WorkAdds, Appended
  <2> QED
    BY <1>1, <2>1
<1>3. \A i, j : Better(chain[i], chain[j]) <=> T(i) > T(j) \/ (T(i) = T(j) /\ L(i) < L(j))
  BY DEF Better
<1> HIDE DEF T, L, H
<1>4. 0 \in Good
  <2>1. ~Beaten(0, 0)
    BY <1>1, <1>2, <1>3
  <2>2. 0 \in 0 .. H /\ \A j \in 0 .. 0 : j = 0
    BY <1>1
  <2> HIDE DEF Beaten
  <2> QED
    BY <2>1, <2>2
<1>5. ASSUME NEW n \in 1 .. H, n - 1 \in Good PROVE n \in Good
  <2>1. PICK i \in 0 .. n - 1 : \A j \in 0 .. n - 1 : ~Beaten(i, j)
    BY <1>5
  <2>2. /\ i \in 0 .. n /\ n \in 0 .. n /\ i < n /\ i \in 0 .. H /\ n \in 0 .. H /\ 0 .. n \subseteq 0 .. H
        /\ \A j \in 0 .. n : j = n \/ (j \in 0 .. n - 1 /\ j < n)
    BY <1>1
  <2>3. CASE Better(chain[n], chain[i])
    <3>1. ASSUME NEW j \in 0 .. n PROVE ~Beaten(n, j)
      <4>1. CASE j = n
        BY <1>2, <1>3, <2>2, <4>1
      <4>2. CASE j \in 0 .. n - 1 /\ j < n
        <5>1. ~Better(chain[j], chain[i]) /\ j \in 0 .. H
          BY <2>1, <2>2, <4>2
        <5>2. Better(chain[n], chain[j])
          BY <1>2, <1>3, <2>2, <2>3, <5>1
        <5>3. ~Better(chain[j], chain[n])
          BY <1>2, <1>3, <2>2, <5>1, <5>2
        <5> QED
          BY <5>2, <5>3
      <4> QED
        BY <2>2, <4>1, <4>2
    <3> HIDE DEF Beaten
    <3> QED
      BY <2>2, <3>1
  <2>4. CASE ~Better(chain[n], chain[i])
    <3>1. ASSUME NEW j \in 0 .. n PROVE ~Beaten(i, j)
      <4>1. CASE j = n
        <5>1. ~(n < i)
          BY <2>2
        <5> QED
          BY <2>4, <4>1, <5>1
      <4>2. CASE j \in 0 .. n - 1
        <5> HIDE DEF Beaten
        <5> QED
          BY <2>1, <4>2
      <4> QED
        BY <2>2, <4>1, <4>2
    <3> HIDE DEF Beaten
    <3> QED
      BY <2>2, <3>1
  <2> QED
    BY <2>3, <2>4
<1>6. H \in Good
  <2> HIDE DEF Good
  <2>1. \A n \in 0 .. H : n \in Good
    BY <1>1, <1>4, <1>5, UpTo
  <2> QED
    BY <1>1, <2>1
<1> HIDE DEF Beaten
<1>7. \E i \in 0 .. H : ~(\E j \in 0 .. H : Beaten(i, j))
  BY <1>6
<1>8. Canonical = CHOOSE i \in 0 .. H : ~(\E j \in 0 .. H : Beaten(i, j))
  BY DEF Canonical, Beaten, H
<1>9. \A j \in 0 .. H : ~Beaten(Canonical, j)
  BY <1>7, <1>8
<1> QED
  BY <1>9 DEF CanonicalIsBest, Beaten, H

\* Blocks stay under the blocks they were mined on.
THEOREM ChainsStayLinked == VariantsSpec => []BlocksLinked
<1>1. VariantsInit => ChainInv
  BY ChainInvInit DEF VariantsInit
<1>2. ChainInv /\ [VariantsNext]_variantVars => ChainInv'
  BY ChainInvStep, VariantSteps
<1> QED
  BY <1>1, <1>2, ChainInvLinks, PTL DEF VariantsSpec

\* No chain gets worse, and the canonical chain is one that no honest node beats.
THEOREM ChainsGetBetter == VariantsSpec => ChainsImprove
<1>1. VariantsInit => ChainInv
  BY ChainInvInit DEF VariantsInit
<1>2. ChainInv /\ [VariantsNext]_variantVars => ChainInv'
  BY ChainInvStep, VariantSteps
<1>3. ChainInv /\ [VariantsNext]_variantVars => [OnlyBetter]_chain
  BY OnlyToBetter, VariantSteps
<1>4. ChainInv => CanonicalIsBest
  BY BestChainExists
<1> QED
  BY <1>1, <1>2, <1>3, <1>4, PTL DEF VariantsSpec, ChainsImprove

--------------------------------------------------------------------------------
\* Quorums: n servers in a circle, a grid, or on the lines of a plane.

\* Division leaves a rest below the divisor.
LEMMA Remainder ==
  ASSUME NEW n \in Nat \ {0}, NEW x \in Nat
  PROVE  /\ x % n \in Servers(n) /\ x \div n \in Nat /\ x = n * (x \div n) + (x % n)
         /\ \A k \in Nat, y \in Servers(n) : (y + n * k) % n = y /\ (y + n * k) \div n = k
BY DEF Servers

\* Once around the circle a number has lost n.
LEMMA OnceAround ==
  ASSUME NEW n \in Nat \ {0}, NEW x \in 0 .. 2 * n - 1
  PROVE  x % n = IF x < n THEN x ELSE x - n
<1>1. CASE x \in 0 .. n - 1
  BY <1>1
<1>2. CASE x \in n .. 2 * n - 1
  BY <1>2
<1> QED
  BY <1>1, <1>2

\* The servers are as many as they are numbered.
LEMMA ServersFinite ==
  ASSUME NEW n \in Nat
  PROVE  IsFiniteSet(Servers(n)) /\ Cardinality(Servers(n)) = n
BY FS_Interval DEF Servers

\* A window has as many servers as its size says.
LEMMA WindowMembers ==
  ASSUME NEW n \in Nat \ {0}, NEW size \in 1 .. n, NEW i \in Servers(n)
  PROVE  /\ Cyclic(n, size, i) \in SUBSET Servers(n) /\ i \in Cyclic(n, size, i)
         /\ IsFiniteSet(Cyclic(n, size, i)) /\ Cardinality(Cyclic(n, size, i)) = size
<1> DEFINE J == 0 .. size - 1
           W == Cyclic(n, size, i)
           f == [j \in J |-> (i + j) % n]
<1>1. i \in 0 .. n - 1
  BY DEF Servers
<1>2. \A j \in J : (i + j) % n = IF i + j < n THEN i + j ELSE i + j - n
  <2> SUFFICES ASSUME NEW j \in J PROVE (i + j) % n = IF i + j < n THEN i + j ELSE i + j - n
    OBVIOUS
  <2>1. PICK x \in 0 .. 2 * n - 1 : x = i + j
    BY <1>1
  <2>2. x % n = IF x < n THEN x ELSE x - n
    BY OnceAround
  <2> QED
    BY <1>1, <2>1, <2>2
<1>3. W = {f[j] : j \in J}
  BY DEF Cyclic
<1>4. W \in SUBSET Servers(n) /\ i \in W
  <2>1. 0 \in J /\ f[0] = i
    BY <1>1, <1>2
  <2>2. \A j \in J : f[j] \in 0 .. n - 1
    BY <1>1, <1>2
  <2> HIDE DEF f
  <2> QED
    BY <1>3, <2>1, <2>2 DEF Servers
<1>5. f \in Bijection(J, W)
  <2>1. \A j, k \in J : f[j] = f[k] => j = k
    BY <1>1, <1>2
  <2>2. f \in [J -> W]
    BY <1>3
  <2> HIDE DEF f
  <2> QED
    BY <1>3, <2>1, <2>2 DEF Bijection, Injection, Surjection, IsInjective
<1>6. IsFiniteSet(J) /\ Cardinality(J) = size
  BY FS_Interval
<1> HIDE DEF W, J, f
<1>7. IsFiniteSet(W) /\ Cardinality(W) = size
  <2>1. IsFiniteSet(W)
    BY <1>4, ServersFinite, FS_Subset
  <2> QED
    BY <1>5, <1>6, FS_Bijection DEF ExistsBijection
<1> QED
  BY <1>4, <1>7 DEF W

\* The functions that build windows build majorities, and share what they exceed half by.
LEMMA WindowsMeet ==
  ASSUME NEW n \in Nat \ {0}, NEW f \in Nat, n \div 2 + f + 1 <= n
  PROVE  LET sets == [i \in Servers(n) |-> Cyclic(n, n \div 2 + f + 1, i)]
         IN  /\ \A i \in Servers(n) : sets[i] \in SUBSET Servers(n) /\ sets[i] # {}
                                      /\ Cardinality(sets[i]) = n \div 2 + f + 1
             /\ Intersects(sets) /\ MasksFaults(sets, f)
<1> DEFINE size == n \div 2 + f + 1
           sets == [i \in Servers(n) |-> Cyclic(n, size, i)]
<1>1. size \in 1 .. n /\ 2 * size >= n + 2 * f + 1
  OBVIOUS
<1> HIDE DEF size
<1>2. \A i \in Servers(n) : sets[i] \in SUBSET Servers(n) /\ sets[i] # {}
                            /\ Cardinality(sets[i]) = size
  BY <1>1, WindowMembers
<1>3. ASSUME NEW i \in Servers(n), NEW j \in Servers(n)
      PROVE  sets[i] \cap sets[j] # {} /\ Cardinality(sets[i] \cap sets[j]) >= 2 * f + 1
  <2> DEFINE A == sets[i]  B == sets[j]
  <2>1. A \in SUBSET Servers(n) /\ B \in SUBSET Servers(n) /\ Cardinality(A) = size /\ Cardinality(B) = size
    BY <1>2
  <2>2. IsFiniteSet(Servers(n)) /\ Cardinality(Servers(n)) = n
    BY ServersFinite
  <2> HIDE DEF A, B
  <2>3. /\ IsFiniteSet(A \cap B) /\ Cardinality(A \cap B) \in Nat
        /\ Cardinality(A \cap B) >= Cardinality(A) + Cardinality(B) - Cardinality(Servers(n))
    BY <2>1, <2>2, SharedMembers
  <2>4. Cardinality(A \cap B) >= 2 * f + 1
    BY <1>1, <2>1, <2>2, <2>3
  <2>5. A \cap B # {}
    BY <2>3, <2>4, FS_EmptySet
  <2> QED
    BY <2>4, <2>5 DEF A, B
<1>4. DOMAIN sets = Servers(n)
  OBVIOUS
<1>5. Intersects(sets) /\ MasksFaults(sets, f)
  <2> HIDE DEF sets
  <2> QED
    BY <1>3, <1>4 DEF Intersects, MasksFaults
<1> QED
  BY <1>2, <1>5 DEF size

\* A cell of a square of side n lies in a row and in a column.
LEMMA CellOf ==
  ASSUME NEW n \in Nat \ {0}, NEW i \in Servers(n * n)
  PROVE  i \div n \in Servers(n) /\ i % n \in Servers(n)
<1>1. i \in Nat /\ i < n * n
  BY DEF Servers
<1>2. i % n \in 0 .. n - 1 /\ i \div n \in Nat /\ i = n * (i \div n) + (i % n)
  BY <1>1, Remainder DEF Servers
<1>3. ASSUME i \div n >= n PROVE FALSE
  <2> DEFINE k == i \div n
  <2>1. k \in Nat /\ k >= n /\ n * k <= i
    BY <1>1, <1>2, <1>3
  <2> HIDE DEF k
  <2>2. n * k >= n * n
    BY <2>1
  <2> QED
    BY <1>1, <2>1, <2>2
<1> QED
  BY <1>2, <1>3 DEF Servers

\* The row of one cell and the column of another cross.
LEMMA CrossesMeet ==
  ASSUME NEW side \in Nat, side >= 2
  PROVE  /\ \A i \in Servers(side * side) :
              Crosses(side)[i] \in SUBSET Servers(side * side) /\ Crosses(side)[i] # {}
         /\ Intersects(Crosses(side))
<1> DEFINE n == side * side
           cell(r, c) == r * side + c
<1>1. ASSUME NEW r \in 0 .. side - 1, NEW c \in 0 .. side - 1 PROVE cell(r, c) \in Servers(n)
  <2>1. r * side + side <= side * side /\ r * side \in Nat
    OBVIOUS
  <2> QED
    BY <2>1 DEF Servers
<1>2. ASSUME NEW i \in Servers(n) PROVE i \div side \in 0 .. side - 1 /\ i % side \in 0 .. side - 1
  <2>1. side \in Nat \ {0}
    OBVIOUS
  <2> QED
    BY <2>1, CellOf DEF Servers
<1>3. \A i \in Servers(n) : Crosses(side)[i] =
         {cell(i \div side, c) : c \in 0 .. side - 1} \cup {cell(r, i % side) : r \in 0 .. side - 1}
  BY DEF Crosses
<1>4. DOMAIN Crosses(side) = Servers(n)
  BY DEF Crosses
<1> HIDE DEF n, cell
<1>5. ASSUME NEW i \in Servers(n) PROVE Crosses(side)[i] \in SUBSET Servers(n)
  <2>1. /\ \A c \in 0 .. side - 1 : cell(i \div side, c) \in Servers(n)
        /\ \A r \in 0 .. side - 1 : cell(r, i % side) \in Servers(n)
    BY <1>1, <1>2
  <2> QED
    BY <1>3, <2>1
<1>6. ASSUME NEW i \in Servers(n), NEW j \in Servers(n)
      PROVE  cell(i \div side, j % side) \in Crosses(side)[i] \cap Crosses(side)[j]
  BY <1>2, <1>3
<1>7. Intersects(Crosses(side))
  BY <1>4, <1>6 DEF Intersects
<1> QED
  BY <1>5, <1>6, <1>7 DEF n
\* The numbers that n divides are its multiples.
LEMMA Congruent ==
  ASSUME NEW n \in Nat \ {0}, NEW u \in Nat, NEW v \in Nat
  PROVE  u % n = v % n <=> \E k \in Int : u = v + n * k
<1> DEFINE cu == u \div n  cv == v \div n  ru == u % n  rv == v % n
<1>1. /\ cu \in Nat /\ cv \in Nat /\ ru \in 0 .. n - 1 /\ rv \in 0 .. n - 1
      /\ u = n * cu + ru /\ v = n * cv + rv
  BY Remainder DEF Servers
<1>2. \A k \in Nat, y \in 0 .. n - 1 : (y + n * k) % n = y
  BY Remainder DEF Servers
<1>3. ASSUME ru = rv PROVE \E k \in Int : u = v + n * k
  <2> HIDE DEF cu, cv, ru, rv
  <2>1. cu - cv \in Int /\ n * (cu - cv) = n * cu - n * cv
    BY <1>1
  <2>2. u = v + n * (cu - cv)
    BY <1>1, <1>3, <2>1
  <2> QED
    BY <2>1, <2>2
<1>4. ASSUME NEW k \in Int, u = v + n * k PROVE ru = rv
  <2> DEFINE c == cv + k
  <2>1. u = rv + n * c /\ c \in Int
    <3> HIDE DEF cu, cv, ru, rv
    <3>1. n * (cv + k) = n * cv + n * k
      BY <1>1
    <3> QED
      BY <1>1, <1>4, <3>1
  <2>2. c >= 0
    <3> SUFFICES ASSUME c <= -1 PROVE FALSE
      BY <2>1
    <3> HIDE DEF c, cu, cv, ru, rv
    <3>1. n * c <= -n
      BY <2>1
    <3> QED
      BY <1>1, <2>1, <3>1
  <2>3. c \in Nat
    BY <2>1, <2>2
  <2> HIDE DEF c, cv, rv
  <2>4. (rv + n * c) % n = rv
    BY <1>1, <1>2, <2>3
  <2> QED
    BY <2>1, <2>4
<1> QED
  BY <1>3, <1>4

\* What leaves no rest is a multiple.
LEMMA MultipleIs ==
  ASSUME NEW n \in Nat \ {0}, NEW u \in Nat
  PROVE  u % n = 0 <=> \E k \in Int : u = n * k
<1>1. PICK z \in Nat : z = 0
  OBVIOUS
<1>2. u % n = z % n <=> \E k \in Int : u = z + n * k
  BY Congruent
<1>3. z % n = 0
  BY <1>1
<1>4. \A k \in Int : n * k \in Int /\ z + n * k = n * k
  BY <1>1
<1> QED
  BY <1>2, <1>3, <1>4

\* A prime that divides a product with a smaller factor divides the other.
LEMMA PrimeDivides ==
  ASSUME NEW q \in Nat, Prime(q), NEW a \in Nat, NEW t \in 1 .. q - 1, (a * t) % q = 0
  PROVE  a % q = 0
<1>0. q \in Nat \ {0} /\ q > 1
  BY DEF Prime
<1> DEFINE Divided(u) == \E k \in Int : u = q * k
           S == {s \in 1 .. q : Divided(a * s)}
<1>1. ASSUME NEW u \in Nat PROVE u % q = 0 <=> Divided(u)
  BY <1>0, MultipleIs
<1>2. t \in S
  <2>1. a * t \in Nat /\ t \in 1 .. q
    OBVIOUS
  <2> HIDE DEF Divided
  <2> QED
    BY <1>1, <2>1
<1>3. PICK s \in S : \A r \in S : s <= r
  <2>1. S \subseteq Nat /\ S # {}
    BY <1>2
  <2> HIDE DEF S
  <2> QED
    BY <2>1, SmallestMember
<1>4. s \in 1 .. q - 1
  <2>1. s <= t /\ s \in 1 .. q
    BY <1>2, <1>3
  <2> QED
    BY <2>1
<1>5. PICK j \in Int : a * s = q * j
  OBVIOUS
<1>6. q % s = 0
  <2> DEFINE c == q \div s  r == q % s
  <2>1. s \in Nat \ {0}
    BY <1>4
  <2>2. r \in 0 .. s - 1 /\ c \in Nat /\ q = s * c + r
    BY <2>1, Remainder DEF Servers
  <2> HIDE DEF c, r
  <2>3. a * r = q * (a - j * c)
    <3>1. a * q = a * (s * c) + a * r
      BY <2>1, <2>2
    <3>2. a * (s * c) = (a * s) * c
      BY <2>1, <2>2
    <3>3. (a * s) * c = q * (j * c)
      BY <1>5, <2>2
    <3>4. q * (a - j * c) = q * a - q * (j * c)
      BY <2>2
    <3> QED
      BY <2>2, <3>1, <3>2, <3>3, <3>4
  <2>4. a - j * c \in Int
    BY <2>2
  <2>5. Divided(a * r)
    BY <2>3, <2>4
  <2>6. r = 0
    <3> SUFFICES ASSUME r # 0 PROVE FALSE
      OBVIOUS
    <3>1. r \in 1 .. q
      BY <1>4, <2>2
    <3>2. r \in S
      BY <2>5, <3>1
    <3>3. s <= r
      BY <1>3, <3>2
    <3> QED
      BY <2>1, <2>2, <3>3
  <2> QED
    BY <2>6 DEF r
<1>7. s = 1
  <2>1. \A d \in 2 .. q - 1 : q % d # 0
    BY DEF Prime
  <2>2. CASE s \in 2 .. q - 1
    BY <1>6, <2>1, <2>2
  <2> QED
    BY <1>4, <2>2
<1>8. Divided(a)
  <2>1. a * s = a
    BY <1>7
  <2> QED
    BY <1>5, <2>1
<1> HIDE DEF Divided
<1> QED
  BY <1>1, <1>8

\* Two lines of different slopes have a point in common.
LEMMA SlopesMeet ==
  ASSUME NEW q \in Nat, Prime(q),
         NEW m \in Servers(q), NEW b \in Servers(q), NEW k \in Servers(q), NEW d \in Servers(q),
         m # k
  PROVE  \E x \in Servers(q) : (m * x + b) % q = (k * x + d) % q
<1> DEFINE A == m + q - k
           B == b + q - d
           g == [x \in Servers(q) |-> (A * x + B) % q]
           I == {g[x] : x \in Servers(q)}
<1>1. /\ q \in Nat \ {0} /\ q > 1 /\ Servers(q) = 0 .. q - 1
      /\ m \in 0 .. q - 1 /\ b \in 0 .. q - 1 /\ k \in 0 .. q - 1 /\ d \in 0 .. q - 1
  BY DEF Prime, Servers
<1>2. A \in 1 .. 2 * q - 1 /\ A # q /\ B \in Nat
  BY <1>1
<1>3. A % q # 0
  <2> HIDE DEF A
  <2>1. A \in 0 .. 2 * q - 1
    BY <1>1, <1>2
  <2>2. A % q = IF A < q THEN A ELSE A - q
    BY <1>1, <2>1, OnceAround
  <2> QED
    BY <1>1, <1>2, <2>2
<1> HIDE DEF A, B
<1>4. \A x \in Servers(q) : A * x + B \in Nat
  BY <1>1, <1>2
<1>5. \A x \in Servers(q) : g[x] \in Servers(q)
  BY <1>1, <1>4, Remainder
<1>6. ASSUME NEW x \in Servers(q), NEW y \in Servers(q), g[x] = g[y] PROVE x <= y
  <2> SUFFICES ASSUME x > y PROVE FALSE
    BY <1>1
  <2>1. A * x + B \in Nat /\ A * y + B \in Nat
    BY <1>4
  <2>2. (A * x + B) % q = (A * y + B) % q
    BY <1>6
  <2> DEFINE u == A * x + B  v == A * y + B
  <2>3. PICK j \in Int : u = v + q * j
    <3> HIDE DEF u, v
    <3>1. u \in Nat /\ v \in Nat /\ u % q = v % q
      BY <2>1, <2>2 DEF u, v
    <3> QED
      BY <1>1, <3>1, Congruent
  <2> DEFINE t == x - y
  <2>4. t \in 1 .. q - 1
    BY <1>1
  <2>5. A * t = q * j
    <3>1. A * (x - y) = A * x - A * y
      BY <1>1, <1>2
    <3> QED
      BY <1>1, <1>2, <2>3, <3>1
  <2> HIDE DEF t, u, v
  <2>6. (A * t) % q = 0
    <3> DEFINE w == A * t
    <3>1. w \in Nat /\ w = q * j
      BY <1>1, <1>2, <2>4, <2>5
    <3> HIDE DEF w
    <3>2. w % q = 0
      BY <1>1, <3>1, MultipleIs
    <3> QED
      BY <3>2 DEF w
  <2>7. A \in Nat
    BY <1>2
  <2>8. A % q = 0
    BY <2>4, <2>6, <2>7, PrimeDivides
  <2> QED
    BY <1>3, <2>8
<1>7. \A x, y \in Servers(q) : g[x] = g[y] => x = y
  <2> HIDE DEF g
  <2> QED
    BY <1>1, <1>6
<1>8. g \in Bijection(Servers(q), I)
  <2>1. g \in [Servers(q) -> I]
    OBVIOUS
  <2> HIDE DEF g
  <2> QED
    BY <1>7, <2>1 DEF Bijection, Injection, Surjection, IsInjective
<1>9. I \in SUBSET Servers(q)
  BY <1>5
<1>10. 0 \in I
  <2> HIDE DEF g, I
  <2>1. IsFiniteSet(Servers(q)) /\ Cardinality(Servers(q)) = q
    BY ServersFinite
  <2>2. Cardinality(I) = q
    BY <1>8, <2>1, FS_Bijection DEF ExistsBijection
  <2>3. I = Servers(q)
    BY <1>9, <2>1, <2>2, FS_Subset
  <2> QED
    BY <1>1, <2>3
<1>11. PICK x \in Servers(q) : (A * x + B) % q = 0
  BY <1>10
<1>12. PICK j \in Int : A * x + B = q * j
  <2> DEFINE u == A * x + B
  <2>1. u \in Nat /\ u % q = 0
    BY <1>4, <1>11
  <2> HIDE DEF u
  <2>2. \E j \in Int : u = q * j
    BY <1>1, <2>1, MultipleIs
  <2> QED
    BY <2>2 DEF u
<1>13. (m * x + b) % q = (k * x + d) % q
  <2> DEFINE u == m * x + b  v == k * x + d
  <2>1. u \in Nat /\ v \in Nat /\ x \in Nat
    BY <1>1
  <2>2. u = v + q * (j - x - 1)
    <3>1. A * x = m * x + q * x - k * x
      BY <1>1 DEF A
    <3>2. q * (j - x - 1) = q * j - q * x - q
      BY <1>1
    <3>3. B = b + q - d
      BY DEF B
    <3> DEFINE mx == m * x  kx == k * x  qx == q * x  qj == q * j  Ax == A * x
    <3>4. mx \in Int /\ kx \in Int /\ qx \in Int /\ qj \in Int
      BY <1>1
    <3> HIDE DEF mx, kx, qx, qj, Ax
    <3>5. mx + b = kx + d + (qj - qx - q)
      BY <1>1, <1>12, <3>1, <3>3, <3>4 DEF mx, kx, qx, qj
    <3> QED
      BY <3>2, <3>5, <3>4 DEF mx, kx, qx, qj
  <2>3. j - x - 1 \in Int
    BY <1>1
  <2> HIDE DEF u, v
  <2>4. u % q = v % q
    BY <1>1, <2>1, <2>2, <2>3, Congruent
  <2> QED
    BY <2>4 DEF u, v
<1> QED
  BY <1>13
Slope(q, m, b) == {x * q + ((m * x + b) % q) : x \in 0 .. q - 1} \cup {q * q + m}
Vertical(q, x) == {x * q + y : y \in 0 .. q - 1} \cup {q * q + q}
AtInfinity(q) == {q * q + i : i \in 0 .. q}

\* A line has a slope, or is vertical, or is that of the points at infinity.
LEMMA LineKinds ==
  ASSUME NEW q \in Nat, q >= 2, NEW l \in DOMAIN Lines(q)
  PROVE  \/ \E m, b \in Servers(q) : Lines(q)[l] = Slope(q, m, b)
         \/ \E x \in Servers(q) : Lines(q)[l] = Vertical(q, x)
         \/ Lines(q)[l] = AtInfinity(q)
<1>1. l \in 0 .. q * q + q /\ q * q \in Nat /\ DOMAIN Lines(q) = Servers(q * q + q + 1)
  BY DEF Lines, Servers
<1>2. CASE l < q * q
  <2>1. l \in Servers(q * q) /\ q \in Nat \ {0}
    BY <1>1, <1>2 DEF Servers
  <2>2. l \div q \in Servers(q) /\ l % q \in Servers(q)
    BY <2>1, CellOf
  <2>3. Lines(q)[l] = Slope(q, l \div q, l % q)
    BY <1>1, <1>2 DEF Lines, Slope
  <2> QED
    BY <2>2, <2>3
<1>3. CASE l >= q * q /\ l < q * q + q
  <2>1. Lines(q)[l] = Vertical(q, l - q * q)
    BY <1>1, <1>3 DEF Lines, Vertical
  <2>2. l - q * q \in Servers(q)
    BY <1>1, <1>3 DEF Servers
  <2> QED
    BY <2>1, <2>2
<1>4. CASE l >= q * q + q
  BY <1>1, <1>4 DEF Lines, AtInfinity
<1> QED
  BY <1>1, <1>2, <1>3, <1>4

\* The lines lie in the plane.
LEMMA LinesWithin ==
  ASSUME NEW q \in Nat, q >= 2, NEW l \in DOMAIN Lines(q)
  PROVE  Lines(q)[l] \in SUBSET Servers(q * q + q + 1) /\ Lines(q)[l] # {}
<1> DEFINE n == q * q + q + 1
<1>1. q * q \in Nat /\ Servers(n) = 0 .. q * q + q /\ Servers(q) = 0 .. q - 1
  BY DEF Servers
<1>2. ASSUME NEW x \in 0 .. q - 1, NEW y \in 0 .. q - 1 PROVE x * q + y \in Servers(n)
  <2>1. x * q + q <= q * q /\ x * q \in Nat
    OBVIOUS
  <2> QED
    BY <1>1, <2>1
<1> HIDE DEF n
<1>3. ASSUME NEW m \in Servers(q), NEW b \in Servers(q) PROVE Slope(q, m, b) \in SUBSET Servers(n)
  <2>1. \A x \in 0 .. q - 1 : (m * x + b) % q \in 0 .. q - 1
    <3> SUFFICES ASSUME NEW x \in 0 .. q - 1 PROVE (m * x + b) % q \in 0 .. q - 1
      OBVIOUS
    <3> DEFINE u == m * x + b
    <3>1. u \in Nat /\ q \in Nat \ {0}
      BY <1>1
    <3> HIDE DEF u
    <3>2. u % q \in 0 .. q - 1
      BY <3>1
    <3> QED
      BY <3>2 DEF u
  <2>2. q * q + m \in Servers(n)
    BY <1>1
  <2>3. \A x \in 0 .. q - 1 : x * q + ((m * x + b) % q) \in Servers(n)
    BY <1>2, <2>1
  <2> QED
    BY <2>2, <2>3 DEF Slope
<1>4. ASSUME NEW x \in Servers(q) PROVE Vertical(q, x) \in SUBSET Servers(n)
  <2>1. q * q + q \in Servers(n)
    BY <1>1
  <2>2. \A y \in 0 .. q - 1 : x * q + y \in Servers(n)
    BY <1>1, <1>2
  <2> QED
    BY <2>1, <2>2 DEF Vertical
<1>5. AtInfinity(q) \in SUBSET Servers(n)
  BY <1>1 DEF AtInfinity
<1>6. q * q \in AtInfinity(q)
  BY <1>1 DEF AtInfinity
<1> QED
  BY <1>3, <1>4, <1>5, <1>6, LineKinds DEF Slope, Vertical, n

\* In a plane of prime order any two lines meet.
LEMMA LinesMeet ==
  ASSUME NEW q \in Nat, Prime(q)
  PROVE  Intersects(Lines(q))
<1>1. q >= 2 /\ q \in Nat \ {0} /\ Servers(q) = 0 .. q - 1 /\ q * q \in Nat
  BY DEF Prime, Servers
<1> DEFINE At(m, b, x) == x * q + ((m * x + b) % q)
<1>2. \A m, b, x \in Servers(q) : At(m, b, x) \in Slope(q, m, b)
  BY <1>1 DEF Slope
<1>3. \A m, b \in Servers(q) : q * q + m \in Slope(q, m, b)
  BY DEF Slope
<1>4. \A x \in Servers(q) : q * q + q \in Vertical(q, x)
  BY DEF Vertical
<1>5. ASSUME NEW m \in Servers(q), NEW b \in Servers(q), NEW x \in Servers(q)
      PROVE  At(m, b, x) \in Vertical(q, x)
  <2> DEFINE u == m * x + b
  <2>1. u \in Nat
    BY <1>1
  <2> HIDE DEF u
  <2>2. u % q \in 0 .. q - 1
    BY <1>1, <2>1
  <2>3. x * q + (u % q) \in Vertical(q, x)
    BY <2>2 DEF Vertical
  <2> QED
    BY <2>3 DEF u
<1>6. \A i \in 0 .. q : q * q + i \in AtInfinity(q)
  BY DEF AtInfinity
<1>7. ASSUME NEW m \in Servers(q), NEW b \in Servers(q), NEW k \in Servers(q), NEW d \in Servers(q)
      PROVE  Slope(q, m, b) \cap Slope(q, k, d) # {}
  <2>1. CASE m = k
    BY <1>3, <2>1
  <2>2. CASE m # k
    <3>1. PICK x \in Servers(q) : (m * x + b) % q = (k * x + d) % q
      BY <2>2, SlopesMeet
    <3>2. At(m, b, x) = At(k, d, x)
      BY <3>1
    <3> QED
      BY <1>2, <3>2
  <2> QED
    BY <2>1, <2>2
<1>8. ASSUME NEW m \in Servers(q), NEW b \in Servers(q)
      PROVE  /\ \A x \in Servers(q) : Slope(q, m, b) \cap Vertical(q, x) # {}
             /\ Slope(q, m, b) \cap AtInfinity(q) # {}
  <2>1. m \in 0 .. q
    BY <1>1
  <2> HIDE DEF At
  <2> QED
    BY <1>2, <1>3, <1>5, <1>6, <2>1
<1>9. /\ \A x, y \in Servers(q) : Vertical(q, x) \cap Vertical(q, y) # {}
      /\ \A x \in Servers(q) : Vertical(q, x) \cap AtInfinity(q) # {}
  BY <1>1, <1>4, <1>6
<1> DEFINE L == Lines(q)
<1>10. \A i \in DOMAIN L : \/ \E m, b \in Servers(q) : L[i] = Slope(q, m, b)
                           \/ \E x \in Servers(q) : L[i] = Vertical(q, x)
                           \/ L[i] = AtInfinity(q)
  BY <1>1, LineKinds
<1> HIDE DEF L
<1>11. ASSUME NEW i \in DOMAIN L, NEW j \in DOMAIN L, i # j PROVE L[i] \cap L[j] # {}
  <2>1. CASE \E m, b \in Servers(q) : L[i] = Slope(q, m, b)
    BY <1>7, <1>8, <1>10, <2>1
  <2>2. CASE \E x \in Servers(q) : L[i] = Vertical(q, x)
    BY <1>8, <1>9, <1>10, <2>2
  <2>3. CASE L[i] = AtInfinity(q)
    <3>1. q * q \in AtInfinity(q)
      BY <1>1, <1>6
    <3> QED
      BY <1>8, <1>9, <1>10, <2>3, <3>1
  <2> QED
    BY <1>10, <2>1, <2>2, <2>3
<1> QED
  BY <1>11 DEF Intersects, L

\* In a plane of composite order some lines do not: y = 0 and y = d x + 1, where d
\* divides the order.
LEMMA LinesMiss ==
  ASSUME NEW q \in Nat, q >= 2, ~Prime(q)
  PROVE  ~Intersects(Lines(q))
<1>1. PICK d \in 2 .. q - 1 : q % d = 0
  BY DEF Prime
<1>2. PICK e \in Int : q = d * e
  <2>1. d \in Nat \ {0}
    OBVIOUS
  <2> QED
    BY <1>1, <2>1, MultipleIs
<1>3. q \in Nat \ {0} /\ q * q \in Nat /\ DOMAIN Lines(q) = 0 .. q * q + q
  BY DEF Lines, Servers
<1> DEFINE l == 1 + q * d
<1>4. l \in Nat /\ l < q * q /\ l % q = 1 /\ l \div q = d
  <2>1. q * d + q <= q * q /\ q * d \in Nat
    BY <1>3
  <2>2. 1 \in Servers(q) /\ d \in Nat
    BY <1>3 DEF Servers
  <2>3. (1 + q * d) % q = 1 /\ (1 + q * d) \div q = d
    BY <1>3, <2>2, Remainder
  <2> QED
    BY <1>3, <2>1, <2>3
<1> HIDE DEF l
<1>5. Lines(q)[l] = {x * q + ((d * x + 1) % q) : x \in 0 .. q - 1} \cup {q * q + d}
  <2>1. l \in 0 .. q * q + q
    BY <1>3, <1>4
  <2>2. Lines(q)[l] = {x * q + (((l \div q) * x + (l % q)) % q) : x \in 0 .. q - 1} \cup {q * q + l \div q}
    BY <1>3, <1>4, <2>1 DEF Lines
  <2> QED
    BY <1>4, <2>2
<1>6. Lines(q)[0] = {x * q + ((0 * x + 0) % q) : x \in 0 .. q - 1} \cup {q * q + 0}
  <2>1. 0 \in 0 .. q * q + q /\ 0 < q * q /\ 0 \div q = 0 /\ 0 % q = 0
    BY <1>3
  <2> QED
    BY <1>3, <2>1 DEF Lines, Servers
<1>7. \A x \in 0 .. q - 1 : x * q + ((0 * x + 0) % q) = x * q
  BY <1>3
<1>8. \A x \in 0 .. q - 1 : (d * x + 1) % q \in 1 .. q - 1
  <2> SUFFICES ASSUME NEW x \in 0 .. q - 1 PROVE (d * x + 1) % q \in 1 .. q - 1
    OBVIOUS
  <2> DEFINE u == d * x + 1
  <2>1. u \in Nat
    BY <1>3
  <2>2. ASSUME NEW k \in Int, u = q * k PROVE FALSE
    <3>1. d * (e * k - x) = 1
      <4>1. q * k = d * (e * k)
        BY <1>2
      <4>2. d * (e * k - x) = d * (e * k) - d * x
        BY <1>2
      <4> QED
        BY <1>2, <2>2, <4>1, <4>2
    <3> DEFINE z == e * k - x
    <3>2. z \in Int /\ d * z = 1
      BY <1>2, <3>1
    <3> HIDE DEF z
    <3>3. z <= 0 => d * z <= 0
      BY <3>2
    <3>4. z >= 1 => d * z >= 2
      BY <3>2
    <3> QED
      BY <3>2, <3>3, <3>4
  <2> HIDE DEF u
  <2>3. u % q \in 0 .. q - 1
    BY <1>3, <2>1
  <2>4. u % q # 0
    BY <1>3, <2>1, <2>2, MultipleIs
  <2>5. u % q \in 1 .. q - 1
    BY <2>3, <2>4
  <2> QED
    BY <2>5 DEF u
<1>9. Lines(q)[0] = {x * q : x \in 0 .. q - 1} \cup {q * q}
  <2>1. {x * q + ((0 * x + 0) % q) : x \in 0 .. q - 1} = {x * q : x \in 0 .. q - 1}
    BY <1>7
  <2>2. q * q + 0 = q * q
    BY <1>3
  <2> DEFINE A == {x * q + ((0 * x + 0) % q) : x \in 0 .. q - 1}
             B == {x * q : x \in 0 .. q - 1}
             u == q * q + 0
             w == q * q
  <2>3. Lines(q)[0] = A \cup {u} /\ A = B /\ u = w
    BY <1>6, <2>1, <2>2
  <2> HIDE DEF A, B, u, w
  <2>4. Lines(q)[0] = B \cup {w}
    BY <2>3
  <2> QED
    BY <2>4 DEF B, w
<1>10. ASSUME NEW p \in Lines(q)[0], p \in Lines(q)[l] PROVE FALSE
  <2>1. PICK x \in 0 .. q : p = x * q
    BY <1>3, <1>9
  <2>2. CASE p = q * q + d
    <3>1. x * q <= q * q
      BY <1>3
    <3> QED
      BY <1>3, <2>1, <2>2, <3>1
  <2>3. ASSUME NEW y \in 0 .. q - 1, NEW r \in 1 .. q - 1, p = y * q + r PROVE FALSE
    <3>1. x <= y => x * q <= y * q
      BY <1>3
    <3>2. x >= y + 1 => x * q >= y * q + q
      BY <1>3
    <3> QED
      BY <1>3, <2>1, <2>3, <3>1, <3>2
  <2>4. p = q * q + d \/ \E y \in 0 .. q - 1 : p = y * q + ((d * y + 1) % q)
    BY <1>5, <1>10
  <2> QED
    BY <1>8, <2>2, <2>3, <2>4
<1>11. l \in DOMAIN Lines(q) /\ 0 \in DOMAIN Lines(q) /\ l # 0
  BY <1>3, <1>4
<1> QED
  BY <1>10, <1>11 DEF Intersects
\* Sets of more than half of the servers meet, and Byzantine quorums in more than
\* the servers that may lie.
LEMMA MajoritiesMeet ==
  ASSUME NEW n \in Nat \ {0}
  PROVE  /\ \A S \in AllMajorities(n) : S \in SUBSET Servers(n) /\ IsValid(S, n) /\ Achieved(S, n)
         /\ \A S, T \in AllMajorities(n) : S \cap T # {}
         /\ \A f \in Nat : n = ByzantineTotal(f) =>
              \A S, T \in kSubset(ByzantineQuorumSize(f), Servers(n)) : ByzantineCheck(n, S, T)
<1>1. IsFiniteSet(Servers(n)) /\ Cardinality(Servers(n)) = n
  BY ServersFinite
<1>2. ASSUME NEW S \in AllMajorities(n)
      PROVE  S \in SUBSET Servers(n) /\ Cardinality(S) \in Nat /\ Cardinality(S) >= n \div 2 + 1
             /\ IsValid(S, n) /\ Achieved(S, n)
  <2>1. S \in SUBSET Servers(n) /\ Cardinality(S) >= n \div 2 + 1
    BY DEF AllMajorities
  <2>2. Cardinality(S) \in Nat
    BY <1>1, <2>1, FS_Subset, FS_CardinalityType
  <2> QED
    BY <2>1, <2>2 DEF IsValid, Achieved
<1>3. ASSUME NEW S \in AllMajorities(n), NEW T \in AllMajorities(n) PROVE S \cap T # {}
  <2>1. /\ Cardinality(S \cap T) \in Nat
        /\ Cardinality(S \cap T) >= Cardinality(S) + Cardinality(T) - n
    BY <1>1, <1>2, SharedMembers
  <2>2. Cardinality(S \cap T) # 0
    BY <1>2, <2>1
  <2> QED
    BY <2>2, FS_EmptySet
<1>4. ASSUME NEW f \in Nat, n = ByzantineTotal(f),
             NEW S \in kSubset(ByzantineQuorumSize(f), Servers(n)),
             NEW T \in kSubset(ByzantineQuorumSize(f), Servers(n))
      PROVE  ByzantineCheck(n, S, T)
  <2>1. /\ S \in SUBSET Servers(n) /\ T \in SUBSET Servers(n)
        /\ Cardinality(S) = 2 * f + 1 /\ Cardinality(T) = 2 * f + 1 /\ n = 3 * f + 1
    BY <1>4 DEF kSubset, ByzantineQuorumSize, ByzantineTotal
  <2>2. /\ Cardinality(S \cap T) \in Nat
        /\ Cardinality(S \cap T) >= Cardinality(S) + Cardinality(T) - n
    BY <1>1, <2>1, SharedMembers
  <2>3. (n - 1) \div 3 = f
    BY <2>1
  <2> QED
    BY <2>1, <2>2, <2>3 DEF ByzantineCheck
<1> QED
  BY <1>2, <1>3, <1>4

\* Every construction of servers has what QuorumsMeet says, and a first quorum to
\* keep the register, if its quorums are kept in an array.
LEMMA ConstructionsMeet ==
  ASSUME quorums \in Construction
  PROVE  /\ QuorumsMeet
         /\ Universe(quorums) \in Nat \ {0}
         /\ quorums.kind # "ALL" =>
              First \in SUBSET Servers(Universe(quorums)) /\ First # {}
<1> DEFINE c == quorums  n == c.size  N == Universe(c)  sets == Built(c)
<1>1. /\ c.kind \in {"MAJORITY", "MASKING", "ALL", "GRID", "PLANE"}
      /\ n \in Nat \ {0} /\ c.faults \in Nat
      /\ c.kind \in {"GRID", "PLANE"} => n >= 2
      /\ c.kind = "MASKING" => n >= 3 * c.faults + 1
  BY QuorumsAssumption
<1> DEFINE Placed(S) == S \in SUBSET Servers(N) /\ S # {}
<1>2. ASSUME c.kind \in {"MAJORITY", "MASKING"}, NEW f \in Nat, n \div 2 + f + 1 <= n,
             sets = [i \in Servers(n) |-> Cyclic(n, n \div 2 + f + 1, i)]
      PROVE  /\ Intersects(sets) /\ MasksFaults(sets, f) /\ N = n /\ DOMAIN sets = Servers(n)
             /\ 0 \in Servers(n)
             /\ \A i \in DOMAIN sets : Placed(sets[i]) /\ Cardinality(sets[i]) = n \div 2 + f + 1
  <2>1. N = n /\ 0 \in Servers(n)
    BY <1>1, <1>2 DEF Universe, Servers
  <2>2. DOMAIN sets = Servers(n)
    BY <1>2
  <2> HIDE DEF n, N, sets
  <2>3. /\ \A i \in Servers(n) : sets[i] \in SUBSET Servers(n) /\ sets[i] # {}
                                 /\ Cardinality(sets[i]) = n \div 2 + f + 1
        /\ Intersects(sets) /\ MasksFaults(sets, f)
    BY <1>1, <1>2, WindowsMeet DEF n
  <2> QED
    BY <2>1, <2>2, <2>3
<1>3. CASE c.kind = "MAJORITY"
  <2>1. n \div 2 + 0 + 1 <= n /\ n \div 2 + 0 + 1 = n \div 2 + 1
    BY <1>1
  <2>2. sets = [i \in Servers(n) |-> Cyclic(n, n \div 2 + 0 + 1, i)]
    BY <1>3, <2>1 DEF Built, MajorityWindows
  <2> HIDE DEF sets, N, n, c, Placed
  <2>3. /\ Intersects(sets) /\ N = n /\ DOMAIN sets = Servers(n) /\ 0 \in Servers(n)
        /\ \A i \in DOMAIN sets : Placed(sets[i]) /\ Cardinality(sets[i]) = n \div 2 + 1
    BY <1>2, <1>3, <2>1, <2>2
  <2>4. \A i \in DOMAIN sets : IsValid(sets[i], N) /\ Achieved(sets[i], N)
    BY <1>1, <2>3 DEF IsValid, Achieved, Placed
  <2>5. First = sets[0]
    BY DEF First, sets, c
  <2> QED
    BY <1>1, <1>3, <2>3, <2>4, <2>5 DEF QuorumsMeet, Placed, c, N, sets
<1>4. CASE c.kind = "MASKING"
  <2> DEFINE f == c.faults
  <2>1. n \div 2 + f + 1 <= n /\ f \in Nat
    <3> HIDE DEF n, f
    <3>1. n \in Nat \ {0} /\ f \in Nat /\ n >= 3 * f + 1
      BY <1>1, <1>4 DEF n, f
    <3> QED
      BY <3>1
  <2>2. sets = [i \in Servers(n) |-> Cyclic(n, n \div 2 + f + 1, i)]
    BY <1>4 DEF Built, MaskingWindows
  <2> HIDE DEF sets, N, n, c, Placed
  <2>3. /\ Intersects(sets) /\ MasksFaults(sets, f) /\ N = n /\ DOMAIN sets = Servers(n)
        /\ 0 \in Servers(n) /\ \A i \in DOMAIN sets : Placed(sets[i])
    BY <1>2, <1>4, <2>1, <2>2
  <2>4. First = sets[0]
    BY DEF First, sets, c
  <2> QED
    BY <1>1, <1>4, <2>3, <2>4 DEF QuorumsMeet, Placed, c, N, sets
<1>5. CASE c.kind = "GRID"
  <2>1. n \in Nat /\ n >= 2 /\ N = n * n /\ sets = Crosses(n)
    BY <1>1, <1>5 DEF Universe, Built
  <2>2. DOMAIN sets = Servers(N) /\ N \in Nat \ {0} /\ 0 \in Servers(N)
    <3>1. n * n \in Nat /\ n * n > 0
      BY <2>1
    <3>2. 0 \in Servers(n * n)
      BY <3>1 DEF Servers
    <3> HIDE DEF n, N
    <3> QED
      BY <2>1, <3>1, <3>2 DEF Crosses
  <2> HIDE DEF sets, N, n, c
  <2>3. Intersects(sets) /\ \A i \in Servers(N) : Placed(sets[i])
    BY <2>1, CrossesMeet
  <2>4. First = sets[0]
    BY DEF First, sets, c
  <2> HIDE DEF Placed
  <2> QED
    BY <1>1, <1>5, <2>2, <2>3, <2>4 DEF QuorumsMeet, Placed, c, N, sets
<1>6. CASE c.kind = "PLANE"
  <2>1. n \in Nat /\ n >= 2 /\ N = n * n + n + 1 /\ sets = Lines(n)
    BY <1>1, <1>6 DEF Universe, Built
  <2>2. DOMAIN sets = Servers(N) /\ N \in Nat \ {0} /\ 0 \in Servers(N)
    <3>1. n * n \in Nat
      BY <2>1
    <3>2. 0 \in Servers(n * n + n + 1)
      BY <2>1, <3>1 DEF Servers
    <3> HIDE DEF n, N
    <3> QED
      BY <2>1, <3>1, <3>2 DEF Lines
  <2> HIDE DEF sets, N, n, c
  <2>3. \A i \in DOMAIN sets : Placed(sets[i])
    BY <2>1, LinesWithin
  <2>4. Intersects(sets) <=> Prime(n)
    BY <2>1, LinesMeet, LinesMiss
  <2>5. First = sets[0]
    BY DEF First, sets, c
  <2> HIDE DEF Placed
  <2> QED
    BY <1>1, <1>6, <2>2, <2>3, <2>4, <2>5 DEF QuorumsMeet, Placed, c, N, n, sets
<1>7. CASE c.kind = "ALL"
  <2>1. N = n /\ sets = [S \in AllMajorities(n) |-> S]
    BY <1>1, <1>7 DEF Universe, Built
  <2>2. DOMAIN sets = AllMajorities(n) /\ \A i \in DOMAIN sets : sets[i] = i
    BY <2>1
  <2> HIDE DEF sets, N, n, Placed
  <2>3. n \in Nat \ {0}
    BY <1>1 DEF n
  <2>4. Intersects(sets)
    BY <2>2, <2>3, MajoritiesMeet DEF Intersects
  <2>5. \A i \in DOMAIN sets : sets[i] \in SUBSET Servers(N) /\ IsValid(sets[i], N) /\ Achieved(sets[i], N)
    BY <2>1, <2>2, <2>3, MajoritiesMeet
  <2>6. N = ByzantineTotal(c.faults) =>
          \A S, T \in kSubset(ByzantineQuorumSize(c.faults), Servers(N)) : ByzantineCheck(N, S, T)
    BY <1>1, <2>1, <2>3, MajoritiesMeet
  <2> HIDE DEF c
  <2> QED
    BY <1>7, <2>1, <2>3, <2>4, <2>5, <2>6 DEF QuorumsMeet, c, N, sets
<1> HIDE DEF c, n, N, sets, Placed
<1> QED
  BY <1>1, <1>3, <1>4, <1>5, <1>6, <1>7
\* A set of numbers with a bound has a greatest.
LEMMA GreatestMember ==
  ASSUME NEW m \in Nat, NEW T \in SUBSET (0 .. m), T # {}
  PROVE  Max(T) \in T /\ \A y \in T : y <= Max(T)
<1> DEFINE D == {m - x : x \in T}
<1>1. D \subseteq Nat /\ D # {}
  <2>1. \A x \in T : m - x \in Nat
    OBVIOUS
  <2> QED
    BY <2>1
<1>2. PICK d \in D : \A e \in D : d <= e
  <2> HIDE DEF D
  <2> QED
    BY <1>1, SmallestMember
<1>3. PICK x \in T : d = m - x
  OBVIOUS
<1>4. \A y \in T : x >= y
  <2> SUFFICES ASSUME NEW y \in T PROVE x >= y
    OBVIOUS
  <2>1. m - y \in D
    OBVIOUS
  <2>2. d <= m - y
    BY <1>2, <2>1
  <2> QED
    BY <1>3, <2>2
<1> QED
  BY <1>4 DEF Max

\* The members of the first quorum agree on what was written last.
QuorumsInv ==
  /\ quorums \in Construction
  /\ DOMAIN register = {"value", "clock", "written", "read"}
  /\ DOMAIN register.value = Servers(Universe(quorums))
  /\ register.clock \in [Servers(Universe(quorums)) -> 0 .. MaxClock + 1]
  /\ register.written # -1 =>
       /\ \A s \in First : register.value[s] = register.written
       /\ \A s, t \in First : register.clock[s] = register.clock[t]

ReadHolds ==
  register'.read # register.read /\ register.written # -1 => register'.read = register.written

\* The register starts with a server ahead of the others, and nothing written.
LEMMA QuorumsInvInit == QuorumsStart => QuorumsInv
<1> SUFFICES ASSUME QuorumsStart PROVE QuorumsInv
  OBVIOUS
<1>1. PICK c \in Construction : \E ahead \in Servers(Universe(c)) :
        /\ quorums = c
        /\ register = [value |-> [s \in Servers(Universe(c)) |-> IF s = ahead THEN 1 ELSE 0],
                       clock |-> [s \in Servers(Universe(c)) |-> IF s = ahead THEN 1 ELSE 0],
                       written |-> -1, read |-> -1]
  BY DEF QuorumsStart
<1>2. MaxClock + 1 \in Nat /\ 1 \in 0 .. MaxClock + 1 /\ 0 \in 0 .. MaxClock + 1
  BY QuorumsAssumption
<1> QED
  <2> PICK ahead \in Servers(Universe(c)) :
        /\ quorums = c
        /\ register = [value |-> [s \in Servers(Universe(c)) |-> IF s = ahead THEN 1 ELSE 0],
                       clock |-> [s \in Servers(Universe(c)) |-> IF s = ahead THEN 1 ELSE 0],
                       written |-> -1, read |-> -1]
    BY <1>1
  <2> QED
    BY <1>2 DEF QuorumsInv

\* A write makes them agree, and a read finds what they agree on.
LEMMA QuorumsInvStep ==
  ASSUME QuorumsInv, QuorumsStep \/ UNCHANGED quorumVars
  PROVE  QuorumsInv' /\ ReadHolds
<1>1. CASE UNCHANGED quorumVars
  <2>1. quorums' = quorums /\ register' = register /\ First' = First
    BY <1>1 DEF quorumVars, First
  <2> QED
    BY <2>1 DEF QuorumsInv, ReadHolds
<1>2. ASSUME QuorumsStep PROVE QuorumsInv' /\ ReadHolds
  <2> DEFINE U == Servers(Universe(quorums))
  <2>1. /\ quorums' = quorums /\ First' = First /\ First \in SUBSET U /\ First # {}
        /\ quorums \in Construction
    BY <1>2, ConstructionsMeet DEF QuorumsStep, QuorumsInv, First
  <2>2. /\ DOMAIN register = {"value", "clock", "written", "read"} /\ DOMAIN register.value = U
        /\ register.clock \in [U -> 0 .. MaxClock + 1] /\ MaxClock \in Nat
    BY QuorumsAssumption DEF QuorumsInv
  <2> HIDE DEF U
  <2>3. ASSUME NEW v \in RegisterValue, Write(v) PROVE QuorumsInv' /\ ReadHolds
    <3> DEFINE T == {register.clock[s] : s \in First} \cup {0}
               clock == Max(T) + 1
               vals == [s \in U |-> IF s \in First THEN v ELSE register.value[s]]
               clocks == [s \in U |-> IF s \in First THEN clock ELSE register.clock[s]]
    <3>1. T \in SUBSET (0 .. MaxClock + 1) /\ T # {} /\ MaxClock + 1 \in Nat
      BY <2>1, <2>2
    <3>2. Max(T) \in 0 .. MaxClock + 1
      <4> HIDE DEF T
      <4> QED
        BY <3>1, GreatestMember
    <3>3. /\ clock <= MaxClock
          /\ register' = [register EXCEPT !.value = vals, !.clock = clocks, !.written = v]
      BY <2>2, <2>3 DEF Write
    <3> HIDE DEF T
    <3>4. clock \in 0 .. MaxClock + 1
      BY <2>2, <3>2, <3>3
    <3> HIDE DEF clock
    <3>5. clocks \in [U -> 0 .. MaxClock + 1] /\ DOMAIN vals = U
      BY <2>2, <3>4
    <3>6. \A s \in First : vals[s] = v /\ clocks[s] = clock
      BY <2>1
    <3> HIDE DEF vals, clocks
    <3>7. /\ DOMAIN register' = {"value", "clock", "written", "read"}
          /\ register'.value = vals /\ register'.clock = clocks /\ register'.written = v
          /\ register'.read = register.read
      BY <2>2, <3>3
    <3> QED
      BY <2>1, <3>5, <3>6, <3>7 DEF QuorumsInv, ReadHolds, U
  <2>4. ASSUME Read PROVE QuorumsInv' /\ ReadHolds
    <3> DEFINE latest == {s \in First : \A t \in First : register.clock[t] <= register.clock[s]}
    <3>1. register' = [register EXCEPT !.read = register.value[Min(latest)]]
      BY <2>4 DEF Read
    <3>2. /\ DOMAIN register' = {"value", "clock", "written", "read"}
          /\ register'.value = register.value /\ register'.clock = register.clock
          /\ register'.written = register.written /\ register'.read = register.value[Min(latest)]
      <4> HIDE DEF latest
      <4> QED
        BY <2>2, <3>1
    <3>3. ASSUME register.written # -1 PROVE register.value[Min(latest)] = register.written
      <4>1. latest = First
        <5>1. \A s, t \in First : register.clock[s] = register.clock[t] /\ register.clock[s] \in Int
          BY <2>1, <2>2, <3>3 DEF QuorumsInv
        <5>2. \A s, t \in First : register.clock[t] <= register.clock[s]
          BY <5>1
        <5> QED
          BY <5>2
      <4>2. First \subseteq Nat
        BY <2>1 DEF U, Servers
      <4>3. PICK x \in First : \A y \in First : x <= y
        BY <2>1, <4>2, SmallestMember
      <4>4. Min(First) \in First
        BY <4>3 DEF Min
      <4> HIDE DEF latest
      <4> QED
        BY <3>3, <4>1, <4>4 DEF QuorumsInv
    <3> HIDE DEF latest
    <3> QED
      BY <2>1, <2>2, <3>2, <3>3 DEF QuorumsInv, ReadHolds, U
  <2> QED
    BY <1>2, <2>3, <2>4 DEF QuorumsStep
<1> QED
  BY <1>1, <1>2

--------------------------------------------------------------------------------
\* The bounds on processes and faults are one another's inverses.
LEMMA BoundsAlways == BoundsAgree
<1>1. ASSUME NEW n \in 1 .. Processes, NEW f \in 0 .. Processes, NEW fault \in Fault \ {"NONE"}
      PROVE  /\ f < n => \A signed \in BOOLEAN :
                  f <= MaxTolerated(n, fault, signed) <=> MinProcesses(f, fault, signed) <= n
             /\ BoundCheck(n, f, fault) <=> f <= MaxTolerated(n, fault, FALSE)
             /\ Solvable(n, f, fault, "PARTIALLY_SYNCHRONOUS", FALSE) <=> BoundCheck(n, f, fault)
             /\ n >= 2 /\ f < n => \A randomized \in BOOLEAN :
                  /\ FlpImpossible(n, fault, "ASYNCHRONOUS", randomized)
                       <=> ~Solvable(n, f, fault, "ASYNCHRONOUS", randomized)
                  /\ f >= 1 => (FlpAudit(f, "ASYNCHRONOUS", randomized, FALSE).flp_applies
                                  <=> FlpImpossible(n, fault, "ASYNCHRONOUS", randomized))
  <2>1. n \in Nat /\ f \in Nat /\ n >= 1 /\ fault # "NONE"
    BY GeneralsAssumption
  <2>2. f < n => \A signed \in BOOLEAN :
                  f <= MaxTolerated(n, fault, signed) <=> MinProcesses(f, fault, signed) <= n
    BY <2>1 DEF MaxTolerated, MinProcesses
  <2>3. BoundCheck(n, f, fault) <=> f <= MaxTolerated(n, fault, FALSE)
    BY <2>1 DEF MaxTolerated, BoundCheck
  <2>4. Solvable(n, f, fault, "PARTIALLY_SYNCHRONOUS", FALSE) <=> BoundCheck(n, f, fault)
    BY <2>1 DEF Solvable, BoundCheck
  <2>5. n >= 2 /\ f < n => \A randomized \in BOOLEAN :
                  /\ FlpImpossible(n, fault, "ASYNCHRONOUS", randomized)
                       <=> ~Solvable(n, f, fault, "ASYNCHRONOUS", randomized)
                  /\ f >= 1 => (FlpAudit(f, "ASYNCHRONOUS", randomized, FALSE).flp_applies
                                  <=> FlpImpossible(n, fault, "ASYNCHRONOUS", randomized))
    <3> SUFFICES ASSUME n >= 2, f < n, NEW randomized \in BOOLEAN
                 PROVE  /\ FlpImpossible(n, fault, "ASYNCHRONOUS", randomized)
                             <=> ~Solvable(n, f, fault, "ASYNCHRONOUS", randomized)
                        /\ f >= 1 => (FlpAudit(f, "ASYNCHRONOUS", randomized, FALSE).flp_applies
                                        <=> FlpImpossible(n, fault, "ASYNCHRONOUS", randomized))
      OBVIOUS
    <3>1. FlpImpossible(n, fault, "ASYNCHRONOUS", randomized) <=> ~randomized
      BY <2>1 DEF FlpImpossible
    <3>2. Solvable(n, f, fault, "ASYNCHRONOUS", randomized) <=> randomized
      BY <2>1 DEF Solvable
    <3>3. FlpAudit(f, "ASYNCHRONOUS", randomized, FALSE).flp_applies <=> f >= 1 /\ ~randomized
      BY DEF FlpAudit
    <3> QED
      BY <3>1, <3>2, <3>3
  <2> QED
    BY <2>2, <2>3, <2>4, <2>5
<1> QED
  BY <1>1 DEF BoundsAgree

--------------------------------------------------------------------------------
\* Oral messages.  A lieutenant that relays a word tells the others that word or
\* alternates, and both ways the word keeps its majority.

Word == {Attack, Retreat}

\* What each lieutenant hears when one of n that was told word relays it.
Heard(word, loyal, n) ==
  [j \in 1 .. n |-> IF j = 1 THEN word ELSE Direct(loyal, word, j - 1)]

LEMMA WordWeighs ==
  ASSUME NEW word \in Word, NEW loyal \in BOOLEAN, NEW n \in Nat \ {0}
  PROVE  OralMajority(Heard(word, loyal, n)) = word
<1> DEFINE s == Heard(word, loyal, n)
           A == {i \in DOMAIN s : s[i] = Attack}
           R == {i \in DOMAIN s : s[i] = Retreat}
<1>1. s \in [1 .. n -> Word] /\ DOMAIN s = 1 .. n /\ 1 \in 1 .. n /\ s[1] = word
  BY DEF Heard, Direct, Word
<1>2. IsFiniteSet(A) /\ IsFiniteSet(R) /\ Cardinality(A) \in Nat /\ Cardinality(R) \in Nat
  <2>1. A \in SUBSET (1 .. n) /\ R \in SUBSET (1 .. n) /\ IsFiniteSet(1 .. n)
    BY <1>1, FS_Interval
  <2> HIDE DEF A, R
  <2> QED
    BY <2>1, FS_Subset, FS_CardinalityType
<1>3. ASSUME loyal
      PROVE  \A i \in 1 .. n : s[i] = word
  BY <1>3, <1>1 DEF Heard, Direct
<1>4. ASSUME ~loyal, NEW i \in 1 .. n, i # 1
      PROVE  s[i] = IF i % 2 = 0 THEN Attack ELSE Retreat
  <2>1. s[i] = IF (i - 1) % 2 = 1 THEN Attack ELSE Retreat
    BY <1>4 DEF Heard, Direct
  <2>2. (i - 1) % 2 = 1 <=> i % 2 = 0
    BY <1>4
  <2> QED
    BY <2>1, <2>2
<1>5. CASE word = Attack
  <2>1. Cardinality(A \ {1}) = Cardinality(A) - 1 /\ IsFiniteSet(A \ {1})
    <3>1. 1 \in A
      BY <1>1, <1>5
    <3> HIDE DEF A
    <3> QED
      BY <1>2, <3>1, FS_RemoveElement
  <2>2. \A i \in R : i - 1 \in A \ {1}
    <3> SUFFICES ASSUME NEW i \in R PROVE i - 1 \in A \ {1}
      OBVIOUS
    <3>1. i \in 1 .. n /\ s[i] = Retreat /\ i # 1
      BY <1>1, <1>5 DEF Attack, Retreat
    <3>2. ~loyal
      BY <3>1, <1>3, <1>5 DEF Attack, Retreat
    <3>3. i % 2 # 0
      BY <3>1, <3>2, <1>4 DEF Attack, Retreat
    <3>4. i - 1 \in 1 .. n /\ i - 1 # 1 /\ (i - 1) % 2 = 0
      BY <3>1, <3>3
    <3>5. s[i - 1] = Attack
      BY <3>2, <3>4, <1>4
    <3> QED
      BY <3>4, <3>5, <1>1
  <2>3. [i \in R |-> i - 1] \in Injection(R, A \ {1})
    <3>1. R \subseteq Int
      BY <1>1
    <3> HIDE DEF A, R
    <3> QED
      BY <2>2, <3>1 DEF Injection, IsInjective
  <2>4. Cardinality(R) <= Cardinality(A \ {1})
    <3> HIDE DEF A, R
    <3> QED
      BY <2>1, <2>3, FS_Injection
  <2> QED
    BY <1>2, <1>5, <2>1, <2>4 DEF OralMajority
<1>6. CASE word = Retreat
  <2>2. \A i \in A : i - 1 \in R
    <3> SUFFICES ASSUME NEW i \in A PROVE i - 1 \in R
      OBVIOUS
    <3>1. i \in 1 .. n /\ s[i] = Attack /\ i # 1
      BY <1>1, <1>6 DEF Attack, Retreat
    <3>2. ~loyal
      BY <3>1, <1>3, <1>6 DEF Attack, Retreat
    <3>3. i % 2 = 0
      BY <3>1, <3>2, <1>4 DEF Attack, Retreat
    <3>4. i - 1 \in 1 .. n /\ (i - 1) % 2 # 0
      BY <3>1, <3>3
    <3>5. s[i - 1] = Retreat
      BY <3>2, <3>4, <1>1, <1>4, <1>6
    <3> QED
      BY <3>4, <3>5, <1>1
  <2>3. [i \in A |-> i - 1] \in Injection(A, R)
    <3>1. A \subseteq Int
      BY <1>1
    <3> HIDE DEF A, R
    <3> QED
      BY <2>2, <3>1 DEF Injection, IsInjective
  <2>4. Cardinality(A) <= Cardinality(R)
    <3> HIDE DEF A, R
    <3> QED
      BY <1>2, <2>3, FS_Injection
  <2> QED
    BY <1>2, <1>6, <2>4 DEF OralMajority
<1> QED
  BY <1>5, <1>6 DEF Word

\* What a command's lieutenants are told, and what they make of it by results.
Told(c, honest) == [i \in DOMAIN c.lieutenants |-> Direct(c.commander \in honest, c.value, i)]

Weighed(results, c, honest) ==
  [i \in DOMAIN c.lieutenants |->
     IF c.m = 0 THEN Told(c, honest)[i]
     ELSE OralMajority(<<Told(c, honest)[i]>> \o results[Relayed(c, i, Told(c, honest)[i])])]

AreOral(results, honest) == results = [c \in OralOrder |-> Weighed(results, c, honest)]

\* What is told are words.
LEMMA ToldTyped ==
  ASSUME NEW honest, NEW c \in OralOrder
  PROVE  /\ c.lieutenants \in Seq(Nat) /\ c.m \in Nat /\ c.commander \in Nat /\ c.value \in Word
         /\ DOMAIN c.lieutenants = 1 .. Len(c.lieutenants) /\ Len(c.lieutenants) \in Nat
         /\ Told(c, honest) \in [1 .. Len(c.lieutenants) -> Word]
         /\ Told(c, honest) \in Seq(Word) /\ Len(Told(c, honest)) = Len(c.lieutenants)
<1>1. c.lieutenants \in Seq(Nat) /\ c.m \in Nat /\ c.commander \in Nat /\ c.value \in Word
  BY DEF OralOrder, Word
<1>2. DOMAIN c.lieutenants = 1 .. Len(c.lieutenants) /\ Len(c.lieutenants) \in Nat
  BY <1>1
<1>3. Told(c, honest) \in [1 .. Len(c.lieutenants) -> Word]
  BY <1>1, <1>2 DEF Told, Direct, Word
<1> QED
  BY <1>1, <1>2, <1>3

\* A command is relayed with one relay less to the others.
LEMMA RelayedTyped ==
  ASSUME NEW c \in OralOrder, c.m # 0, NEW i \in DOMAIN c.lieutenants, NEW word \in Word
  PROVE  /\ Relayed(c, i, word) \in OralOrder
         /\ Relayed(c, i, word).m = c.m - 1 /\ Relayed(c, i, word).value = word
         /\ Len(Relayed(c, i, word).lieutenants) = Len(c.lieutenants) - 1
<1> DEFINE ls == c.lieutenants
           front == SubSeq(ls, 1, i - 1)
           back == SubSeq(ls, i + 1, Len(ls))
<1>1. ls \in Seq(Nat) /\ c.m \in Nat /\ DOMAIN ls = 1 .. Len(ls) /\ Len(ls) \in Nat
  BY ToldTyped
<1>2. i \in 1 .. Len(ls) /\ ls[i] \in Nat /\ \A j \in 1 .. Len(ls) : ls[j] \in Nat
  BY <1>1
<1>3. front \in Seq(Nat) /\ Len(front) = i - 1
  <2>1. i - 1 \in Int /\ 1 \in Int /\ \A j \in 1 .. i - 1 : ls[j] \in Nat
    BY <1>1, <1>2
  <2> HIDE DEF ls
  <2> QED
    BY <2>1, <1>1, <1>2, SubSeqProperties
<1>4. back \in Seq(Nat) /\ Len(back) = Len(ls) - i
  <2>1. i + 1 \in Int /\ Len(ls) \in Int /\ \A j \in i + 1 .. Len(ls) : ls[j] \in Nat
    BY <1>1, <1>2
  <2> HIDE DEF ls
  <2> QED
    BY <2>1, <1>1, <1>2, SubSeqProperties
<1>5. RemoveAt(ls, i) = front \o back
  BY DEF RemoveAt
<1>6. RemoveAt(ls, i) \in Seq(Nat) /\ Len(RemoveAt(ls, i)) = Len(ls) - 1
  <2> HIDE DEF ls, front, back
  <2>1. front \o back \in Seq(Nat) /\ Len(front \o back) = Len(front) + Len(back)
    BY <1>3, <1>4, ConcatProperties
  <2>2. Len(front) + Len(back) = Len(ls) - 1
    BY <1>1, <1>2, <1>3, <1>4
  <2> QED
    BY <2>1, <2>2, <1>5
<1>7. c.m - 1 \in Nat
  BY <1>1
<1> HIDE DEF front, back
<1> QED
  BY <1>1, <1>2, <1>6, <1>7 DEF Relayed, OralOrder, Word

\* What a relay makes others conclude keeps the word, if they conclude what they
\* are told.
LEMMA RelayKeepsWord ==
  ASSUME NEW honest, NEW c \in OralOrder, c.m # 0, NEW i \in DOMAIN c.lieutenants,
         NEW word \in Word
  PROVE  OralMajority(<<word>> \o Told(Relayed(c, i, word), honest)) = word
<1> DEFINE d == Relayed(c, i, word)
           n == Len(c.lieutenants)
           heard == Heard(word, d.commander \in honest, n)
<1>1. /\ d \in OralOrder /\ d.value = word /\ Len(d.lieutenants) = n - 1
      /\ n \in Nat /\ i \in 1 .. n
  BY RelayedTyped, ToldTyped
<1>2. /\ Told(d, honest) \in Seq(Word) /\ Len(Told(d, honest)) = n - 1
      /\ DOMAIN d.lieutenants = 1 .. n - 1
  BY <1>1, ToldTyped
<1>3. \A j \in 1 .. n - 1 : Told(d, honest)[j] = Direct(d.commander \in honest, word, j)
  BY <1>1, <1>2 DEF Told
<1>4. /\ <<word>> \o Told(d, honest) \in Seq(Word) /\ Len(<<word>> \o Told(d, honest)) = n
      /\ \A j \in 1 .. n : (<<word>> \o Told(d, honest))[j]
                             = IF j = 1 THEN word ELSE Told(d, honest)[j - 1]
  <2>1. <<word>> \in Seq(Word) /\ Len(<<word>>) = 1 /\ <<word>>[1] = word
    OBVIOUS
  <2> DEFINE u == Told(d, honest)
             w == <<word>>
  <2>2. /\ w \o u \in Seq(Word) /\ Len(w \o u) = Len(w) + Len(u)
        /\ \A j \in 1 .. Len(w) + Len(u) : (w \o u)[j] = IF j <= Len(w) THEN w[j] ELSE u[j - Len(w)]
    <3> HIDE DEF u, w
    <3> QED
      BY <2>1, <1>2, ConcatProperties DEF u, w
  <2> HIDE DEF u, d, n
  <2>3. Len(w) = 1 /\ w[1] = word /\ Len(u) = n - 1 /\ n \in Nat
    BY <2>1, <1>1, <1>2 DEF u
  <2> HIDE DEF w
  <2> QED
    BY <2>2, <2>3 DEF u, w
<1>5. heard \in Seq(Word) /\ Len(heard) = n
  <2>1. heard \in [1 .. n -> Word]
    BY <1>1 DEF Heard, Direct, Word
  <2> QED
    BY <2>1, <1>1
<1>6. <<word>> \o Told(d, honest) = heard
  <2>1. ASSUME NEW j \in 1 .. n PROVE (<<word>> \o Told(d, honest))[j] = heard[j]
    <3>1. heard[j] = IF j = 1 THEN word ELSE Direct(d.commander \in honest, word, j - 1)
      BY DEF Heard
    <3>2. j # 1 => j - 1 \in 1 .. n - 1
      BY <1>1
    <3> HIDE DEF d, n, heard
    <3> QED
      BY <3>1, <3>2, <1>3, <1>4
  <2> HIDE DEF d, n, heard
  <2> QED
    BY <2>1, <1>1, <1>4, <1>5, SeqEqual
<1>7. OralMajority(heard) = word
  <2>1. (d.commander \in honest) \in BOOLEAN /\ n \in Nat \ {0}
    BY <1>1
  <2> HIDE DEF d, n
  <2> QED
    BY <2>1, WordWeighs
<1> QED
  BY <1>6, <1>7

\* Told words satisfy what defines the results of oral messages, and nothing else
\* does: results that do so for fewer relays do so for one more.
LEMMA OralOnlyTold ==
  ASSUME NEW honest
  PROVE  /\ AreOral([c \in OralOrder |-> Told(c, honest)], honest)
         /\ \A results : AreOral(results, honest) =>
              \A c \in OralOrder : results[c] = Told(c, honest)
<1>1. AreOral([c \in OralOrder |-> Told(c, honest)], honest)
  <2> DEFINE told == [c \in OralOrder |-> Told(c, honest)]
  <2>1. ASSUME NEW c \in OralOrder PROVE Weighed(told, c, honest) = Told(c, honest)
    <3>1. ASSUME NEW i \in DOMAIN c.lieutenants, c.m # 0
          PROVE  OralMajority(<<Told(c, honest)[i]>> \o told[Relayed(c, i, Told(c, honest)[i])])
                   = Told(c, honest)[i]
      <4>1. Told(c, honest)[i] \in Word
        BY ToldTyped
      <4>2. PICK word \in Word : word = Told(c, honest)[i]
        BY <4>1
      <4>3. Relayed(c, i, word) \in OralOrder
        BY <3>1, RelayedTyped
      <4>4. told[Relayed(c, i, word)] = Told(Relayed(c, i, word), honest)
        BY <4>3
      <4>5. OralMajority(<<word>> \o Told(Relayed(c, i, word), honest)) = word
        BY <3>1, RelayKeepsWord
      <4> QED
        BY <4>2, <4>4, <4>5
    <3>2. Told(c, honest) \in [1 .. Len(c.lieutenants) -> Word] /\ DOMAIN c.lieutenants = 1 .. Len(c.lieutenants)
      BY ToldTyped
    <3> HIDE DEF told
    <3>3. \A i \in DOMAIN c.lieutenants : Weighed(told, c, honest)[i] = Told(c, honest)[i]
      BY <3>1 DEF Weighed
    <3>4. Weighed(told, c, honest) = [i \in DOMAIN c.lieutenants |-> Weighed(told, c, honest)[i]]
      BY DEF Weighed
    <3>5. Told(c, honest) = [i \in DOMAIN c.lieutenants |-> Told(c, honest)[i]]
      BY <3>2
    <3> QED
      BY <3>3, <3>4, <3>5
  <2> QED
    BY <2>1 DEF AreOral
<1>2. ASSUME NEW results, AreOral(results, honest)
      PROVE  \A c \in OralOrder : results[c] = Told(c, honest)
  <2> DEFINE Good == {k \in Nat : \A c \in OralOrder : c.m = k => results[c] = Told(c, honest)}
  <2>1. \A c \in OralOrder : results[c] = Weighed(results, c, honest)
    BY <1>2 DEF AreOral
  <2>2. 0 \in Good
    <3> SUFFICES ASSUME NEW c \in OralOrder, c.m = 0 PROVE results[c] = Told(c, honest)
      OBVIOUS
    <3>1. results[c] = [i \in DOMAIN c.lieutenants |-> Told(c, honest)[i]]
      BY <2>1 DEF Weighed
    <3> QED
      BY <3>1 DEF Told
  <2>3. ASSUME NEW k \in Nat, k # 0, k - 1 \in Good
        PROVE  k \in Good
    <3> SUFFICES ASSUME NEW c \in OralOrder, c.m = k PROVE results[c] = Told(c, honest)
      OBVIOUS
    <3>1. ASSUME NEW i \in DOMAIN c.lieutenants
          PROVE  OralMajority(<<Told(c, honest)[i]>> \o results[Relayed(c, i, Told(c, honest)[i])])
                   = Told(c, honest)[i]
      <4>1. Told(c, honest)[i] \in Word
        BY ToldTyped
      <4>2. PICK word \in Word : word = Told(c, honest)[i]
        BY <4>1
      <4>3. Relayed(c, i, word) \in OralOrder /\ Relayed(c, i, word).m = k - 1
        BY <2>3, RelayedTyped
      <4>4. results[Relayed(c, i, word)] = Told(Relayed(c, i, word), honest)
        BY <4>3, <2>3
      <4>5. OralMajority(<<word>> \o Told(Relayed(c, i, word), honest)) = word
        BY <2>3, RelayKeepsWord
      <4> QED
        BY <4>2, <4>4, <4>5
    <3>2. results[c] = [i \in DOMAIN c.lieutenants |-> Told(c, honest)[i]]
      BY <2>1, <2>3, <3>1 DEF Weighed
    <3> QED
      BY <3>2 DEF Told
  <2> HIDE DEF Good
  <2>4. \A n \in Nat : n \in Good
    <3> SUFFICES ASSUME NEW n \in Nat PROVE n \in Good
      OBVIOUS
    <3>1. \A k \in 1 .. n : k - 1 \in Good => k \in Good
      BY <2>3
    <3>2. \A k \in 0 .. n : k \in Good
      BY <2>2, <3>1, UpTo
    <3> QED
      BY <3>2
  <2> QED
    BY <2>4, ToldTyped DEF Good
<1> QED
  BY <1>1, <1>2

\* Oral messages leave every lieutenant with what its commander told it.
LEMMA OralMessagesTold ==
  ASSUME NEW c \in OralOrder, NEW honest
  PROVE  OralMessages(c.commander, c.lieutenants, c.m, c.value, honest) = Told(c, honest)
<1> DEFINE results == CHOOSE r : AreOral(r, honest)
<1>1. AreOral(results, honest)
  BY OralOnlyTold
<1>2. c = [commander |-> c.commander, lieutenants |-> c.lieutenants, m |-> c.m, value |-> c.value]
  BY DEF OralOrder
<1>3. OralMessages(c.commander, c.lieutenants, c.m, c.value, honest)
        = results[[commander |-> c.commander, lieutenants |-> c.lieutenants, m |-> c.m, value |-> c.value]]
  BY DEF OralMessages, AreOral, Weighed, Told
<1> HIDE DEF results
<1>4. results[c] = Told(c, honest)
  BY <1>1, OralOnlyTold
<1> QED
  BY <1>2, <1>3, <1>4

OrdersGiven ==
  [oral |-> OralMessages(0, [i \in 1 .. council.lieutenants |-> i],
                         council.m, council.value, council.honest),
   signed |-> SignedMessages(council.lieutenants, council.value)]

GeneralsInv == council \in Councils /\ (orders = NoOrders \/ orders = OrdersGiven)

LEMMA GeneralsInvInit == GeneralsStart => GeneralsInv
BY DEF GeneralsStart, GeneralsInv

LEMMA GeneralsInvStep ==
  ASSUME GeneralsInv, GeneralsStep \/ UNCHANGED generalsVars
  PROVE  GeneralsInv'
BY DEF GeneralsInv, OrdersGiven, GeneralsStep, generalsVars

\* The first of those that are asked about is one of them.
LEMMA FirstAmong ==
  ASSUME NEW T, T \subseteq Nat, T # {}
  PROVE  (CHOOSE i \in T : \A j \in T : i <= j) \in T
BY SmallestMember

\* A verdict on what lieutenants 1 .. n hold looks at the honest ones.
Honest(n, honest) == {i \in 1 .. n : i \in honest}

LEMMA VerdictIs ==
  ASSUME NEW n \in Nat, NEW held, DOMAIN held = 1 .. n, NEW value, NEW honest
  PROVE  /\ HonestOf(held, honest) = Honest(n, honest)
         /\ Verdict(held, value, honest).agreement_holds
              <=> \A i, j \in Honest(n, honest) : held[i] = held[j]
         /\ (0 \in honest => \A i \in Honest(n, honest) : held[i] = value)
              => Verdict(held, value, honest).validity_holds
<1> DEFINE among == Honest(n, honest)
<1>1. HonestOf(held, honest) = among /\ among \subseteq Nat
  BY DEF HonestOf, Honest
<1> HIDE DEF among
<1> DEFINE first == CHOOSE i \in among : \A j \in among : i <= j
<1>2. among # {} => first \in among
  BY <1>1, FirstAmong
<1>3. Verdict(held, value, honest) =
        [agreement_holds |-> \A i \in among : held[i] = held[first],
         validity_holds |-> 0 \in honest /\ among # {} => held[first] = value]
  BY <1>1 DEF Verdict
<1> HIDE DEF first
<1>4. Verdict(held, value, honest).agreement_holds = \A i \in among : held[i] = held[first]
  BY <1>3
<1>5. Verdict(held, value, honest).validity_holds = (0 \in honest /\ among # {} => held[first] = value)
  BY <1>3
<1>6. (\A i \in among : held[i] = held[first]) <=> \A i, j \in among : held[i] = held[j]
  BY <1>2
<1> QED
  BY <1>1, <1>2, <1>4, <1>5, <1>6 DEF among

\* Orders are followed because each lieutenant ends with what it was told.
LEMMA GeneralsFollow == GeneralsInv => OrdersFollowed
<1> SUFFICES ASSUME GeneralsInv, orders # NoOrders PROVE OrdersFollowed
  BY DEF OrdersFollowed
<1>1. PICK l \in Lieutenants :
        council \in [lieutenants : {l}, m : {m \in Relays : MayAsk(l, m)}, value : {Attack, Retreat},
                     honest : SUBSET (0 .. l)]
  BY DEF GeneralsInv, Councils
<1> DEFINE value == council.value
           honest == council.honest
           loyal == 0 \in honest
           among == Honest(l, honest)
           oral == orders.oral
           signed == orders.signed
<1>2. l \in Nat \ {0} /\ council.lieutenants = l /\ council.m \in Nat /\ value \in Word
  BY <1>1, GeneralsAssumption DEF Word
<1>3. orders = OrdersGiven
  BY DEF GeneralsInv
<1>4. oral = [i \in 1 .. l |-> Direct(loyal, value, i)]
  <2> DEFINE ls == [i \in 1 .. l |-> i]
             c == [commander |-> 0, lieutenants |-> ls, m |-> council.m, value |-> value]
  <2>1. ls \in Seq(Nat) /\ DOMAIN ls = 1 .. l
    BY <1>2
  <2>2. c \in OralOrder
    BY <1>2, <2>1 DEF OralOrder, Word
  <2>3. OralMessages(c.commander, c.lieutenants, c.m, c.value, honest) = Told(c, honest)
    BY <2>2, OralMessagesTold
  <2>4. oral = OralMessages(c.commander, c.lieutenants, c.m, c.value, honest)
    BY <1>2, <1>3 DEF OrdersGiven
  <2>5. Told(c, honest) = [i \in 1 .. l |-> Direct(loyal, value, i)]
    BY <2>1 DEF Told
  <2> QED
    BY <2>3, <2>4, <2>5
<1>5. signed = [i \in 1 .. l |-> value]
  BY <1>2, <1>3 DEF OrdersGiven, SignedMessages
<1>6. \A i \in among : oral[i] = Direct(loyal, value, i) /\ signed[i] = value
  BY <1>4, <1>5 DEF Honest
<1>7. /\ HonestOf(oral, honest) = among
      /\ Verdict(oral, value, honest).agreement_holds <=> \A i, j \in among : oral[i] = oral[j]
      /\ (loyal => \A i \in among : oral[i] = value) => Verdict(oral, value, honest).validity_holds
  <2>1. l \in Nat /\ DOMAIN oral = 1 .. l
    BY <1>2, <1>4
  <2> HIDE DEF oral, value, honest
  <2> QED
    BY <2>1, VerdictIs
<1>8. /\ HonestOf(signed, honest) = among
      /\ Verdict(signed, value, honest).agreement_holds <=> \A i, j \in among : signed[i] = signed[j]
      /\ (loyal => \A i \in among : signed[i] = value) => Verdict(signed, value, honest).validity_holds
  <2>1. l \in Nat /\ DOMAIN signed = 1 .. l
    BY <1>2, <1>5
  <2> HIDE DEF signed, value, honest
  <2> QED
    BY <2>1, VerdictIs
<1>9. loyal => \A i \in among : oral[i] = value
  BY <1>6 DEF Direct
<1>10. ASSUME ~loyal, NEW i \in among, NEW j \in among
       PROVE  oral[i] = oral[j] <=> i % 2 = j % 2
  <2>1. oral[i] = (IF i % 2 = 1 THEN Attack ELSE Retreat) /\ oral[j] = (IF j % 2 = 1 THEN Attack ELSE Retreat)
    BY <1>6, <1>10 DEF Direct
  <2>2. i \in Nat /\ j \in Nat /\ i % 2 \in {0, 1} /\ j % 2 \in {0, 1}
    BY <1>2 DEF Honest
  <2>3. (oral[i] = oral[j]) <=> (i % 2 = 1 <=> j % 2 = 1)
    BY <2>1 DEF Attack, Retreat
  <2> QED
    BY <2>2, <2>3
<1>11. (\A i, j \in among : oral[i] = oral[j]) <=> loyal \/ \A i, j \in among : i % 2 = j % 2
  <2> HIDE DEF oral, loyal, among, value
  <2> QED
    BY <1>9, <1>10
<1> HIDE DEF oral, signed, value, honest, loyal, among
<1>12. /\ \A i \in among : oral[i] = Direct(loyal, value, i)
       /\ Verdict(oral, value, honest).validity_holds /\ Verdict(signed, value, honest).validity_holds
       /\ Verdict(signed, value, honest).agreement_holds
       /\ Verdict(oral, value, honest).agreement_holds
            <=> loyal \/ \A i, j \in among : i % 2 = j % 2
  BY <1>6, <1>7, <1>8, <1>9, <1>11
<1> QED
  BY <1>7, <1>12 DEF OrdersFollowed, oral, signed, value, honest, loyal

--------------------------------------------------------------------------------
\* Honest lieutenants end with what their commander told them, and the bounds on
\* faults agree; any two quorums meet, whatever they are built from.
THEOREM FaultAnswersStand == VariantsSpec => [](FaultAnswers /\ QuorumsMeet)
<1>1. VariantsInit => GeneralsInv /\ QuorumsInv
  BY GeneralsInvInit, QuorumsInvInit DEF VariantsInit
<1>2. GeneralsInv /\ QuorumsInv /\ [VariantsNext]_variantVars => (GeneralsInv /\ QuorumsInv)'
  BY GeneralsInvStep, QuorumsInvStep, VariantSteps
<1>3. GeneralsInv /\ QuorumsInv => FaultAnswers /\ QuorumsMeet
  BY GeneralsFollow, BoundsAlways, ConstructionsMeet DEF FaultAnswers, QuorumsInv
<1> QED
  BY <1>1, <1>2, <1>3, PTL DEF VariantsSpec

\* A read returns the last write, since both go to the first quorum and each write
\* has a greater clock than all before.
THEOREM ReadsTheLast == VariantsSpec => ReadsLast
<1>1. VariantsInit => QuorumsInv
  BY QuorumsInvInit DEF VariantsInit
<1>2. QuorumsInv /\ [VariantsNext]_variantVars => QuorumsInv'
  BY QuorumsInvStep, VariantSteps
<1>3. QuorumsInv /\ [VariantsNext]_variantVars => [ReadHolds]_register
  BY QuorumsInvStep, VariantSteps
<1>4. [][ReadHolds]_register => ReadsLast
  BY PTL DEF ReadsLast, ReadHolds
<1> QED
  BY <1>1, <1>2, <1>3, <1>4, PTL DEF VariantsSpec

--------------------------------------------------------------------------------
\* What is decided in Paxos, PBFT and Byzantine Paxos stands on a quorum and stays.
THEOREM DecisionsStay == VariantsSpec => DecisionsCertified
BY PaxosDecides, PbftStandsOnQuorums, CertificatesAreSound DEF DecisionsCertified

\* Chains keep the order of their blocks and queues that of their messages.
THEOREM HistoriesStay == VariantsSpec => HistoriesKept
<1>1. VariantsSpec => [](BlocksLinked /\ QueueKeepsOrder)
  BY ChainsStayLinked, QueueIsFifo, PTL
<1> QED
  BY <1>1, ChainsGetBetter DEF HistoriesKept

\* The tolerated faults are what the directory says.
THEOREM FaultBoundsStand == VariantsSpec => FaultBoundsHold
BY FaultAnswersStand, ReadsTheLast DEF FaultBoundsHold
================================================================================
