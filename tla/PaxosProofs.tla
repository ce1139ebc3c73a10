----------------------------- MODULE PaxosProofs -----------------------------
(***************************************************************************)
(* What the synod of paxos_basic.c guarantees for every set of proposers,  *)
(* acceptors, learners, values and ballots, whatever the network loses,    *)
(* repeats or reorders.                                                    *)
(***************************************************************************)
EXTENDS MCPaxos, FiniteSetTheorems, TLAPS

Proposed(b, v) == [type |-> "ACCEPT", ballot |-> b, value |-> v] \in msgs

\* A ballot's proposer is done with it once an ACCEPT for it is out.
BallotIsSpent ==
  \A b \in Ballot, v \in Value : Proposed(b, v) =>
    /\ b <= current_ballot[Owner[b]]
    /\ b = current_ballot[Owner[b]] => phase[Owner[b]] = 2

\* So a ballot has one value.
OneValuePerBallot ==
  \A b \in Ballot, v, w \in Value : Proposed(b, v) /\ Proposed(b, w) => v = w

\* A proposer in phase 1 works on a ballot of its own.
OwnBallot ==
  \A p \in Proposer : phase[p] = 1 =>
    current_ballot[p] \in Ballot /\ Owner[current_ballot[p]] = p

\* What an acceptor holds, and what it reported, was proposed.
HeldWasProposed ==
  \A a \in Acceptor :
    IF accepted_ballot[a] = 0 THEN accepted_value[a] = NoValue
    ELSE accepted_value[a] \in Value /\ Proposed(accepted_ballot[a], accepted_value[a])
ReportWasProposed ==
  \A m \in msgs : m.type = "ACCEPTED" => Proposed(m.ballot, m.value)

IInv ==
  /\ TypeOK
  /\ BallotIsSpent /\ OneValuePerBallot /\ OwnBallot
  /\ HeldWasProposed /\ ReportWasProposed /\ LearnedWasProposed
-----------------------------------------------------------------------------
\* paxos_prepare moves its proposer to a fresh ballot and touches nothing else.
LEMMA PrepareKeepsInv ==
  ASSUME IInv, NEW p \in Proposer, NEW b \in Ballot, Prepare(p, b)
  PROVE  IInv'
<1> USE DEF IInv
<1>0. \A q \in Proposer, c \in Ballot :
        c \in Nat /\ c # 0 /\ current_ballot[q] \in Nat
  <2>1. TAKE q \in Proposer, c \in Ballot
  <2>2. current_ballot[q] \in Ballot \cup {0}
    BY DEF TypeOK
  <2>3. Ballot \cup {0} \subseteq Nat /\ 0 \notin Ballot
    BY SynodConstants
  <2>4. QED
    BY <2>2, <2>3
<1>1. TypeOK'
  <2>1. [type |-> "PREPARE", ballot |-> b] \in Message
    BY DEF Message
  <2>2. msgs' \in SUBSET Message
    BY <2>1 DEF TypeOK, Prepare, Send
  <2>3. current_ballot' \in [Proposer -> Ballot \cup {0}] /\ phase' \in [Proposer -> 0..2]
    BY DEF TypeOK, Prepare
  <2>4. QED
    BY <2>2, <2>3 DEF TypeOK, Prepare, acceptorVars
<1>2. \A c \in Ballot, v \in Value : Proposed(c, v)' <=> Proposed(c, v)
  BY DEF Prepare, Send, Proposed
<1>3. BallotIsSpent'
  <2>1. SUFFICES ASSUME NEW c \in Ballot, NEW v \in Value, Proposed(c, v)
                 PROVE  /\ c <= current_ballot'[Owner[c]]
                        /\ c = current_ballot'[Owner[c]] => phase'[Owner[c]] = 2
    BY <1>2 DEF BallotIsSpent
  <2>2. /\ c <= current_ballot[Owner[c]]
        /\ c = current_ballot[Owner[c]] => phase[Owner[c]] = 2
        /\ c \in Nat /\ Owner[c] \in Proposer /\ current_ballot[Owner[c]] \in Nat
    <3>1. Owner[c] \in Proposer
      BY SynodConstants
    <3>2. QED
      BY <1>0, <2>1, <3>1 DEF BallotIsSpent
  <2>3. CASE Owner[c] = p
    <3>1. current_ballot'[Owner[c]] = b /\ c \in Nat /\ b \in Nat /\ c < b
      BY <1>0, <2>2, <2>3 DEF Prepare, TypeOK
    <3>2. QED
      BY <3>1
  <2>4. CASE Owner[c] # p
    BY <2>2, <2>4 DEF Prepare, TypeOK
  <2>5. QED
    BY <2>3, <2>4
<1>4. OneValuePerBallot'
  BY <1>2 DEF OneValuePerBallot
<1>5. OwnBallot'
  BY DEF OwnBallot, Prepare, TypeOK
<1>6. HeldWasProposed'
  BY <1>2 DEF HeldWasProposed, Prepare, acceptorVars, TypeOK
<1>7. ReportWasProposed'
  BY DEF ReportWasProposed, Proposed, Prepare, Send
<1>8. LearnedWasProposed'
  BY DEF LearnedWasProposed, Prepare, Send
<1>9. QED
  BY <1>1, <1>3, <1>4, <1>5, <1>6, <1>7, <1>8

\* paxos_receive_prepare adds a promise and no proposal.
LEMMA ReceivePrepareKeepsInv ==
  ASSUME IInv, NEW a \in Acceptor, NEW m \in msgs, ReceivePrepare(a, m)
  PROVE  IInv'
<1> USE DEF IInv
<1>1. TypeOK'
  <2>1. m \in Message /\ m.type = "PREPARE"
    BY DEF TypeOK, ReceivePrepare
  <2>2. m.ballot \in Ballot
    BY <2>1 DEF Message
  <2>3. QED
    BY <2>2 DEF TypeOK, ReceivePrepare, Send, Message
<1>2. \A c \in Ballot, v \in Value : Proposed(c, v)' <=> Proposed(c, v)
  BY DEF ReceivePrepare, Send, Proposed
<1>3. BallotIsSpent' /\ OneValuePerBallot' /\ OwnBallot'
  BY <1>2 DEF BallotIsSpent, OneValuePerBallot, OwnBallot, ReceivePrepare
<1>4. HeldWasProposed'
  BY <1>2 DEF HeldWasProposed, ReceivePrepare, TypeOK
<1>5. ReportWasProposed'
  BY DEF ReportWasProposed, Proposed, ReceivePrepare, Send
<1>6. LearnedWasProposed'
  BY DEF LearnedWasProposed, ReceivePrepare, Send
<1>7. QED
  BY <1>1, <1>3, <1>4, <1>5, <1>6

\* paxos_accept proposes at a ballot that has no proposal yet.
LEMMA AcceptKeepsInv ==
  ASSUME IInv, NEW p \in Proposer, NEW v \in Value,
         NEW S \in SUBSET Promises(current_ballot[p]), Accept(p, S, v)
  PROVE  IInv'
<1> USE DEF IInv
<1> DEFINE b == current_ballot[p]
<1>0. b \in Ballot /\ Owner[b] = p /\ b \in Nat
  BY SynodConstants DEF OwnBallot, Accept
<1>1. TypeOK'
  BY <1>0 DEF TypeOK, Accept, Send, Message, acceptorVars
<1>2. \A c \in Ballot, w \in Value :
        Proposed(c, w)' <=> Proposed(c, w) \/ (c = b /\ w = v)
  BY DEF Accept, Send, Proposed
<1>3. \A w \in Value : ~Proposed(b, w)
  BY <1>0 DEF BallotIsSpent, Accept
<1>4. BallotIsSpent'
  <2>1. SUFFICES ASSUME NEW c \in Ballot, NEW w \in Value, Proposed(c, w)'
                 PROVE  /\ c <= current_ballot[Owner[c]]
                        /\ c = current_ballot[Owner[c]] => phase'[Owner[c]] = 2
    BY DEF BallotIsSpent, Accept
  <2>2. Owner[c] \in Proposer
    BY SynodConstants
  <2>3. CASE Proposed(c, w)
    BY <2>2, <2>3 DEF BallotIsSpent, Accept, TypeOK
  <2>4. CASE c = b
    BY <1>0, <2>4 DEF Accept, TypeOK
  <2>5. QED
    BY <1>2, <2>1, <2>3, <2>4
<1>5. OneValuePerBallot'
  BY <1>2, <1>3 DEF OneValuePerBallot
<1>6. OwnBallot'
  BY DEF OwnBallot, Accept, TypeOK
<1>7. HeldWasProposed' /\ ReportWasProposed' /\ LearnedWasProposed'
  BY DEF HeldWasProposed, ReportWasProposed, LearnedWasProposed, Proposed, Accept, Send,
         acceptorVars
<1>8. QED
  BY <1>1, <1>4, <1>5, <1>6, <1>7

\* paxos_receive_accept holds and reports the value it was sent.
LEMMA ReceiveAcceptKeepsInv ==
  ASSUME IInv, NEW a \in Acceptor, NEW m \in msgs, ReceiveAccept(a, m)
  PROVE  IInv'
<1> USE DEF IInv
<1>0. /\ m.ballot \in Ballot /\ m.value \in Value
      /\ m = [type |-> "ACCEPT", ballot |-> m.ballot, value |-> m.value]
  <2>1. m \in Message /\ m.type = "ACCEPT"
    BY DEF TypeOK, ReceiveAccept
  <2>2. QED
    BY <2>1 DEF Message
<1>1. TypeOK'
  BY <1>0 DEF TypeOK, ReceiveAccept, Send, Message
<1>2. \A c \in Ballot, v \in Value : Proposed(c, v)' <=> Proposed(c, v)
  BY DEF ReceiveAccept, Send, Proposed
<1>3. Proposed(m.ballot, m.value)
  BY <1>0 DEF Proposed
<1>4. BallotIsSpent' /\ OneValuePerBallot' /\ OwnBallot'
  BY <1>2 DEF BallotIsSpent, OneValuePerBallot, OwnBallot, ReceiveAccept
<1>5. HeldWasProposed'
  <2>1. SUFFICES ASSUME NEW c \in Acceptor
                 PROVE  (IF accepted_ballot[c] = 0 THEN accepted_value[c] = NoValue
                         ELSE /\ accepted_value[c] \in Value
                              /\ Proposed(accepted_ballot[c], accepted_value[c]))'
    BY DEF HeldWasProposed
  <2>2. CASE c = a
    <3>1. accepted_ballot'[c] = m.ballot /\ accepted_value'[c] = m.value
      BY <2>2 DEF ReceiveAccept, TypeOK
    <3>2. m.ballot # 0
      BY <1>0, SynodConstants
    <3>3. QED
      BY <1>0, <1>2, <1>3, <3>1, <3>2 DEF Proposed
  <2>3. CASE c # a
    <3>1. accepted_ballot'[c] = accepted_ballot[c] /\ accepted_value'[c] = accepted_value[c]
      BY <2>3 DEF ReceiveAccept, TypeOK
    <3>2. accepted_ballot[c] \in Ballot \cup {0}
      BY DEF TypeOK
    <3>3. CASE accepted_ballot[c] = 0
      BY <3>1, <3>3 DEF HeldWasProposed
    <3>4. CASE accepted_ballot[c] # 0
      BY <3>1, <3>4 DEF HeldWasProposed, Proposed, ReceiveAccept, Send
    <3>5. QED
      BY <3>3, <3>4
  <2>4. QED
    BY <2>2, <2>3
<1>6. ReportWasProposed'
  BY <1>3 DEF ReportWasProposed, Proposed, ReceiveAccept, Send
<1>7. LearnedWasProposed'
  BY DEF LearnedWasProposed, ReceiveAccept, Send
<1>8. QED
  BY <1>1, <1>4, <1>5, <1>6, <1>7

\* paxos_learner_receive learns a reported value.
LEMMA LearnerKeepsInv ==
  ASSUME IInv, NEW l \in Learner, NEW m \in msgs, LearnerReceive(l, m)
  PROVE  IInv'
<1> USE DEF IInv
<1>0. m.ballot \in Ballot /\ m.value \in Value /\ Proposed(m.ballot, m.value)
  <2>1. m \in Message /\ m.type = "ACCEPTED"
    BY DEF TypeOK, LearnerReceive
  <2>2. QED
    BY <2>1 DEF Message, ReportWasProposed
<1>1. TypeOK'
  BY <1>0 DEF TypeOK, LearnerReceive, acceptorVars
<1>2. LearnedWasProposed'
  BY <1>0 DEF LearnedWasProposed, LearnerReceive, TypeOK, Proposed
<1>3. BallotIsSpent' /\ OneValuePerBallot' /\ OwnBallot' /\ HeldWasProposed' /\ ReportWasProposed'
  BY DEF BallotIsSpent, OneValuePerBallot, OwnBallot, HeldWasProposed, ReportWasProposed,
         Proposed, LearnerReceive, acceptorVars
<1>4. QED
  BY <1>1, <1>2, <1>3

\* Every step keeps the invariant, and so it holds in every reachable state.
LEMMA InvStep == ASSUME IInv, [Next]_vars PROVE IInv'
<1>2. CASE UNCHANGED vars
  BY <1>2 DEF vars, acceptorVars, IInv, TypeOK, BallotIsSpent, OneValuePerBallot,
     OwnBallot, HeldWasProposed, ReportWasProposed, LearnedWasProposed, Proposed
<1>3. CASE Next
  BY <1>3, PrepareKeepsInv, ReceivePrepareKeepsInv, AcceptKeepsInv,
     ReceiveAcceptKeepsInv, LearnerKeepsInv DEF Next
<1>4. QED
  BY <1>2, <1>3

\* The strengthening of SameBallotSameValue holds initially.
LEMMA InvInit == Init => IInv
  BY SynodConstants DEF Init, IInv, TypeOK, BallotIsSpent, OneValuePerBallot, OwnBallot,
     HeldWasProposed, ReportWasProposed, LearnedWasProposed, Proposed

\* The strengthening of SameBallotSameValue holds in every reachable state.
LEMMA InvHolds == Spec => []IInv
<1>1. IInv /\ [Next]_vars => IInv'
  BY InvStep
<1>2. QED
  BY <1>1, InvInit, PTL DEF Spec
-----------------------------------------------------------------------------
\* The state of every node and every message keeps its type.
THEOREM TypeCorrect == Spec => []TypeOK
<1>1. IInv => TypeOK
  BY DEF IInv
<1>2. QED
  BY <1>1, InvHolds, PTL

\* Two values learned in one ballot are the same: the strengthening implies it.
LEMMA SameValue == IInv => SameBallotSameValue
BY DEF IInv, TypeOK, HeldWasProposed, OneValuePerBallot, SameBallotSameValue

\* paxos_verify_safety_invariant never returns false.
THEOREM SafetyInvariant == Spec => []SameBallotSameValue
BY SameValue, InvHolds, PTL

\* What is learned was proposed.
THEOREM Validity == Spec => []LearnedWasProposed
<1>1. IInv => LearnedWasProposed
  BY DEF IInv
<1>2. QED
  BY <1>1, InvHolds, PTL
-----------------------------------------------------------------------------
\* What the acceptors' replies say of the acceptors.
Reported(a, b, v) == [type |-> "ACCEPTED", from |-> a, ballot |-> b, value |-> v] \in msgs

\* A promise is kept, and what it reports was reported to the learners as well.
PromiseKept ==
  \A m \in msgs : m.type = "PROMISE" =>
    /\ promise_ballot[m.from] >= m.ballot
    /\ m.accepted_ballot # 0 => Reported(m.from, m.accepted_ballot, m.accepted_value)

\* An acceptor holds something just when it reported something, that among the rest.
HoldsWhatItReported ==
  \A a \in Acceptor :
    /\ accepted_ballot[a] # 0 => Reported(a, accepted_ballot[a], accepted_value[a])
    /\ \A b \in Ballot, v \in Value : Reported(a, b, v) => accepted_ballot[a] # 0

\* A proposer in phase 2 leads.
ProposersLead == \A p \in Proposer : phase[p] = 2 => IsLeader(p)

VInv == IInv /\ PromiseKept /\ HoldsWhatItReported /\ ProposersLead

\* Ballots are positive numbers, and so is every ballot a process stores, 0 standing for none.
LEMMA BallotsAreNumbers ==
  /\ Ballot \subseteq Nat /\ 0 \notin Ballot /\ Ballot \cup {0} \subseteq Nat
  /\ TypeOK => /\ \A p \in Proposer : current_ballot[p] \in Nat
               /\ \A a \in Acceptor : promise_ballot[a] \in Nat /\ accepted_ballot[a] \in Nat
<1>1. Ballot \subseteq Nat /\ 0 \notin Ballot /\ Ballot \cup {0} \subseteq Nat
  BY SynodConstants
<1>2. ASSUME TypeOK, NEW p \in Proposer
      PROVE  current_ballot[p] \in Nat
  <2>1. current_ballot[p] \in Ballot \cup {0}
    BY <1>2 DEF TypeOK
  <2>2. QED
    BY <1>1, <2>1
<1>3. ASSUME TypeOK, NEW a \in Acceptor
      PROVE  promise_ballot[a] \in Nat /\ accepted_ballot[a] \in Nat
  <2>1. promise_ballot[a] \in Ballot \cup {0} /\ accepted_ballot[a] \in Ballot \cup {0}
    BY <1>3 DEF TypeOK
  <2>2. QED
    BY <1>1, <2>1
<1>4. QED
  BY <1>1, <1>2, <1>3

\* Sets of acceptors that contain a majority are one; two majorities meet.
LEMMA MajorityGrows ==
  ASSUME NEW S \in SUBSET Acceptor, NEW T \in SUBSET S, Majority(T)
  PROVE  Majority(S)
<1>1. IsFiniteSet(S) /\ Cardinality(S) \in Nat
  BY SynodConstants, FS_Subset, FS_CardinalityType
<1>2. Cardinality(T) <= Cardinality(S) /\ Cardinality(T) \in Nat
  BY <1>1, FS_Subset, FS_CardinalityType
<1>3. Cardinality(Acceptor) \in Nat
  BY SynodConstants, FS_CardinalityType
<1>4. QED
  BY <1>1, <1>2, <1>3 DEF Majority

\* Two majorities of acceptors share an acceptor.
LEMMA MajoritiesMeet ==
  ASSUME NEW S \in SUBSET Acceptor, NEW T \in SUBSET Acceptor, Majority(S), Majority(T)
  PROVE  \E a \in Acceptor : a \in S /\ a \in T
<1>1. IsFiniteSet(Acceptor) /\ IsFiniteSet(S) /\ IsFiniteSet(T)
  BY SynodConstants, FS_Subset
<1>2. /\ Cardinality(Acceptor) \in Nat /\ Cardinality(S) \in Nat /\ Cardinality(T) \in Nat
  BY <1>1, FS_CardinalityType
<1>3. Cardinality(S) + Cardinality(T) > Cardinality(Acceptor)
  BY <1>2 DEF Majority
<1>4. S \cap T # {}
  BY <1>1, <1>3, FS_MajoritiesIntersect
<1>5. QED
  BY <1>4

\* A majority is never empty.
LEMMA NoMajorityIsEmpty == ~Majority({})
<1>1. Cardinality({}) = 0 /\ Cardinality(Acceptor) \in Nat
  BY SynodConstants, FS_EmptySet, FS_CardinalityType
<1>2. QED
  BY <1>1 DEF Majority

\* What one step can do to the votes: promises rise, no report is withdrawn, and a new
\* report is made by an acceptor that had promised no higher ballot.
LEMMA VotesStep ==
  ASSUME IInv, [Next]_vars, NEW a \in Acceptor
  PROVE  /\ promise_ballot[a] <= promise_ballot'[a]
         /\ \A b \in Ballot, v \in Value : Reported(a, b, v) => Reported(a, b, v)'
         /\ \A b \in Ballot, v \in Value :
              Reported(a, b, v)' => Reported(a, b, v) \/ b >= promise_ballot[a]
<1>0. TypeOK
  BY DEF IInv
<1>1. promise_ballot[a] \in Nat /\ Ballot \subseteq Nat
  BY <1>0, BallotsAreNumbers
<1>2. CASE UNCHANGED vars
  BY <1>1, <1>2 DEF vars, acceptorVars, Reported
<1>3. ASSUME NEW p \in Proposer, NEW b \in Ballot, Prepare(p, b)
      PROVE  /\ promise_ballot[a] <= promise_ballot'[a]
             /\ \A c \in Ballot, v \in Value : Reported(a, c, v)' <=> Reported(a, c, v)
  BY <1>1, <1>3 DEF Prepare, Send, Reported, acceptorVars
<1>4. ASSUME NEW c \in Acceptor, NEW m \in msgs, ReceivePrepare(c, m)
      PROVE  /\ promise_ballot[a] <= promise_ballot'[a]
             /\ \A b \in Ballot, v \in Value : Reported(a, b, v)' <=> Reported(a, b, v)
  <2>1. m \in Message /\ m.type = "PREPARE"
    BY <1>0, <1>4 DEF TypeOK, ReceivePrepare
  <2>2. m.ballot \in Nat
    BY <1>1, <2>1 DEF Message
  <2>3. promise_ballot[a] <= promise_ballot'[a]
    BY <1>0, <1>1, <1>4, <2>2 DEF ReceivePrepare, TypeOK
  <2>4. QED
    BY <1>4, <2>3 DEF ReceivePrepare, Send, Reported
<1>5. ASSUME NEW p \in Proposer, NEW v \in Value,
             NEW S \in SUBSET Promises(current_ballot[p]), Accept(p, S, v)
      PROVE  /\ promise_ballot[a] <= promise_ballot'[a]
             /\ \A b \in Ballot, w \in Value : Reported(a, b, w)' <=> Reported(a, b, w)
  BY <1>1, <1>5 DEF Accept, Send, Reported, acceptorVars
<1>6. ASSUME NEW c \in Acceptor, NEW m \in msgs, ReceiveAccept(c, m)
      PROVE  /\ promise_ballot[a] <= promise_ballot'[a]
             /\ \A b \in Ballot, v \in Value : Reported(a, b, v) => Reported(a, b, v)'
             /\ \A b \in Ballot, v \in Value :
                  Reported(a, b, v)' => Reported(a, b, v) \/ b >= promise_ballot[a]
  BY <1>1, <1>6 DEF ReceiveAccept, Send, Reported
<1>7. ASSUME NEW l \in Learner, NEW m \in msgs, LearnerReceive(l, m)
      PROVE  /\ promise_ballot[a] <= promise_ballot'[a]
             /\ \A b \in Ballot, v \in Value : Reported(a, b, v)' <=> Reported(a, b, v)
  BY <1>1, <1>7 DEF LearnerReceive, Reported, acceptorVars
<1>8. QED
  BY <1>2, <1>3, <1>4, <1>5, <1>6, <1>7 DEF Next

\* No message is ever taken back.
LEMMA MessagesStay == [Next]_vars => msgs \subseteq msgs'
BY DEF Next, Prepare, ReceivePrepare, Accept, ReceiveAccept, LearnerReceive, Send, vars

\* A new PROMISE comes from an acceptor that handles a PREPARE.
LEMMA OnlyPreparesPromise ==
  ASSUME [Next]_vars, NEW m \in msgs', m \notin msgs, m.type = "PROMISE"
  PROVE  \E a \in Acceptor, r \in msgs : ReceivePrepare(a, r)
<1>1. CASE UNCHANGED vars
  BY <1>1 DEF vars
<1>2. ASSUME NEW p \in Proposer, NEW b \in Ballot, Prepare(p, b) PROVE FALSE
  BY <1>2 DEF Prepare, Send
<1>3. ASSUME NEW p \in Proposer, NEW v \in Value,
             NEW S \in SUBSET Promises(current_ballot[p]), Accept(p, S, v)
      PROVE  FALSE
  BY <1>3 DEF Accept, Send
<1>4. ASSUME NEW a \in Acceptor, NEW r \in msgs, ReceiveAccept(a, r) PROVE FALSE
  BY <1>4 DEF ReceiveAccept, Send
<1>5. ASSUME NEW l \in Learner, NEW r \in msgs, LearnerReceive(l, r) PROVE FALSE
  BY <1>5 DEF LearnerReceive
<1>6. QED
  BY <1>1, <1>2, <1>3, <1>4, <1>5 DEF Next

\* Only an acceptor that handles an ACCEPT changes what is accepted, or reports it.
LEMMA OnlyAcceptsReport ==
  ASSUME [Next]_vars, ~\E a \in Acceptor, m \in msgs : ReceiveAccept(a, m)
  PROVE  /\ accepted_ballot' = accepted_ballot /\ accepted_value' = accepted_value
         /\ \A m \in msgs' : m.type = "ACCEPTED" => m \in msgs
<1> DEFINE Goal == /\ accepted_ballot' = accepted_ballot /\ accepted_value' = accepted_value
                   /\ \A m \in msgs' : m.type = "ACCEPTED" => m \in msgs
<1>1. CASE UNCHANGED vars
  BY <1>1 DEF vars, acceptorVars
<1>2. ASSUME NEW p \in Proposer, NEW b \in Ballot, Prepare(p, b) PROVE Goal
  BY <1>2 DEF Prepare, Send, acceptorVars
<1>3. ASSUME NEW p \in Proposer, NEW v \in Value,
             NEW S \in SUBSET Promises(current_ballot[p]), Accept(p, S, v)
      PROVE  Goal
  BY <1>3 DEF Accept, Send, acceptorVars
<1>4. ASSUME NEW a \in Acceptor, NEW m \in msgs, ReceivePrepare(a, m) PROVE Goal
  BY <1>4 DEF ReceivePrepare, Send
<1>5. ASSUME NEW l \in Learner, NEW m \in msgs, LearnerReceive(l, m) PROVE Goal
  BY <1>5 DEF LearnerReceive, acceptorVars
<1>6. QED
  BY <1>1, <1>2, <1>3, <1>4, <1>5 DEF Next

\* A proposer enters phase 2 of its ballot only by proposing on a majority of promises.
LEMMA OnlyAcceptEntersPhase2 ==
  ASSUME TypeOK, [Next]_vars, NEW p \in Proposer, phase'[p] = 2,
         ~(phase[p] = 2 /\ current_ballot'[p] = current_ballot[p])
  PROVE  \E v \in Value : \E S \in SUBSET Promises(current_ballot[p]) : Accept(p, S, v)
<1>1. CASE UNCHANGED vars
  BY <1>1 DEF vars
<1>2. ASSUME NEW q \in Proposer, NEW b \in Ballot, Prepare(q, b) PROVE FALSE
  <2>1. CASE q = p
    BY <1>2, <2>1 DEF Prepare, TypeOK
  <2>2. CASE q # p
    BY <1>2, <2>2 DEF Prepare, TypeOK
  <2>3. QED
    BY <2>1, <2>2
<1>3. ASSUME NEW q \in Proposer, NEW v \in Value,
             NEW S \in SUBSET Promises(current_ballot[q]), Accept(q, S, v)
      PROVE  q = p
  BY <1>3 DEF Accept, TypeOK
<1>4. ASSUME NEW a \in Acceptor, NEW m \in msgs, ReceivePrepare(a, m) \/ ReceiveAccept(a, m)
      PROVE  FALSE
  BY <1>4 DEF ReceivePrepare, ReceiveAccept
<1>5. ASSUME NEW l \in Learner, NEW m \in msgs, LearnerReceive(l, m) PROVE FALSE
  BY <1>5 DEF LearnerReceive
<1>6. QED
  BY <1>1, <1>2, <1>3, <1>4, <1>5 DEF Next

\* A value is proposed in a ballot only by the proposer of that ballot.
LEMMA OnlyAcceptProposes ==
  ASSUME [Next]_vars, NEW c \in Ballot, NEW v \in Value, Proposed(c, v)', ~Proposed(c, v)
  PROVE  \E p \in Proposer :
           /\ c = current_ballot[p]
           /\ \E S \in SUBSET Promises(current_ballot[p]) : Accept(p, S, v)
<1>1. CASE UNCHANGED vars
  BY <1>1 DEF vars, Proposed
<1>2. ASSUME NEW p \in Proposer, NEW b \in Ballot, Prepare(p, b) PROVE FALSE
  BY <1>2 DEF Prepare, Send, Proposed
<1>3. ASSUME NEW p \in Proposer, NEW w \in Value,
             NEW S \in SUBSET Promises(current_ballot[p]), Accept(p, S, w)
      PROVE  c = current_ballot[p] /\ w = v
  BY <1>3 DEF Accept, Send, Proposed
<1>4. ASSUME NEW a \in Acceptor, NEW m \in msgs, ReceivePrepare(a, m) \/ ReceiveAccept(a, m)
      PROVE  FALSE
  BY <1>4 DEF ReceivePrepare, ReceiveAccept, Send, Proposed
<1>5. ASSUME NEW l \in Learner, NEW m \in msgs, LearnerReceive(l, m) PROVE FALSE
  BY <1>5 DEF LearnerReceive, Proposed
<1>6. QED
  BY <1>1, <1>2, <1>3, <1>4, <1>5 DEF Next

\* An ACCEPTED message names a value proposed in its ballot.
LEMMA ReportsProposed ==
  ASSUME IInv, NEW a, NEW b, NEW v, Reported(a, b, v)
  PROVE  Proposed(b, v)
BY DEF IInv, ReportWasProposed, Reported

\* The fields of a promise of ballot b.
LEMMA PromiseType ==
  ASSUME TypeOK, NEW b, NEW m \in Promises(b)
  PROVE  /\ m \in msgs /\ m.type = "PROMISE" /\ m.ballot = b /\ m.from \in Acceptor
         /\ m.accepted_ballot \in Ballot \cup {0}
         /\ m.accepted_value \in Value \cup {NoValue}
<1>1. m \in msgs /\ m \in Message /\ m.type = "PROMISE" /\ m.ballot = b
  BY DEF TypeOK, Promises
<1>2. QED
  BY <1>1 DEF Message

\* A leader stays one until it prepares again.
LEMMA LeadersStay ==
  ASSUME IInv, [Next]_vars, NEW p \in Proposer, IsLeader(p),
         current_ballot'[p] = current_ballot[p], phase'[p] >= 1
  PROVE  IsLeader(p)'
<1> DEFINE S == {a \in Acceptor : promise_ballot[a] >= current_ballot[p]}
           T == {a \in Acceptor : promise_ballot'[a] >= current_ballot[p]}
<1>1. \A a \in Acceptor : /\ promise_ballot[a] \in Nat /\ promise_ballot'[a] \in Nat
                          /\ promise_ballot[a] <= promise_ballot'[a]
  <2>1. TypeOK /\ TypeOK'
    BY InvStep DEF IInv
  <2>2. \A a \in Acceptor : promise_ballot[a] \in Nat /\ promise_ballot'[a] \in Nat
    <3>1. \A a \in Acceptor : /\ promise_ballot[a] \in Ballot \cup {0}
                              /\ promise_ballot'[a] \in Ballot \cup {0}
      BY <2>1 DEF TypeOK
    <3>2. Ballot \cup {0} \subseteq Nat
      BY SynodConstants
    <3>3. QED
      BY <3>1, <3>2
  <2>3. QED
    BY <2>2, VotesStep
<1>2. current_ballot[p] \in Nat
  BY BallotsAreNumbers DEF IInv
<1>3. S \subseteq T
  BY <1>1, <1>2
<1>4. Majority(S)
  BY DEF IsLeader
<1>5. Majority(T)
  BY <1>3, <1>4, MajorityGrows
<1>6. QED
  BY <1>5 DEF IsLeader

\* The acceptors' side of the invariant, step by step.
LEMMA PromiseKeptStep ==
  ASSUME VInv, [Next]_vars
  PROVE  PromiseKept'
<1> USE DEF VInv
<1>0. TypeOK /\ Ballot \subseteq Nat /\ 0 \notin Ballot
  BY BallotsAreNumbers DEF IInv
<1>1. SUFFICES ASSUME NEW m \in msgs', m.type = "PROMISE"
               PROVE  /\ promise_ballot'[m.from] >= m.ballot
                      /\ m.accepted_ballot # 0 =>
                           Reported(m.from, m.accepted_ballot, m.accepted_value)'
  BY DEF PromiseKept
<1>2. TypeOK'
  BY InvStep DEF IInv
<1>3. /\ m.from \in Acceptor /\ m.ballot \in Ballot
      /\ m.accepted_ballot \in Ballot \cup {0} /\ m.accepted_value \in Value \cup {NoValue}
  <2>1. m \in Message
    BY <1>2 DEF TypeOK
  <2>2. QED
    BY <1>1, <2>1 DEF Message
<1>4. promise_ballot[m.from] \in Nat /\ promise_ballot'[m.from] \in Nat /\ m.ballot \in Nat
  <2>1. promise_ballot'[m.from] \in Ballot \cup {0}
    BY <1>2, <1>3 DEF TypeOK
  <2>2. Ballot \cup {0} \subseteq Nat
    BY <1>0
  <2>3. QED
    BY <1>0, <1>3, <2>1, <2>2, BallotsAreNumbers
<1>5. CASE m \in msgs
  <2>1. promise_ballot[m.from] >= m.ballot
    BY <1>1, <1>5 DEF PromiseKept
  <2>2. promise_ballot[m.from] <= promise_ballot'[m.from]
    BY <1>3, VotesStep
  <2>3. ASSUME m.accepted_ballot # 0
        PROVE  Reported(m.from, m.accepted_ballot, m.accepted_value)'
    <3>1. Reported(m.from, m.accepted_ballot, m.accepted_value)
      BY <1>1, <1>5, <2>3 DEF PromiseKept
    <3>2. msgs \subseteq msgs'
      BY MessagesStay
    <3>3. QED
      BY <3>1, <3>2 DEF Reported
  <2>4. QED
    BY <1>4, <2>1, <2>2, <2>3
<1>6. CASE m \notin msgs
  <2>1. PICK a \in Acceptor, r \in msgs : ReceivePrepare(a, r)
    BY <1>1, <1>6, OnlyPreparesPromise
  <2>2. m = [type |-> "PROMISE", from |-> a, ballot |-> r.ballot,
             accepted_ballot |-> accepted_ballot[a], accepted_value |-> accepted_value[a]]
    BY <1>6, <2>1 DEF ReceivePrepare, Send
  <2>3. promise_ballot'[a] = r.ballot
    BY <1>0, <2>1 DEF ReceivePrepare, TypeOK
  <2>4. msgs \subseteq msgs'
    BY MessagesStay
  <2>5. m.accepted_ballot # 0 => Reported(m.from, m.accepted_ballot, m.accepted_value)'
    BY <2>2, <2>4 DEF HoldsWhatItReported, Reported
  <2>6. QED
    BY <1>4, <2>2, <2>3, <2>5
<1>7. QED
  BY <1>5, <1>6

\* Every step keeps it: what an acceptor holds it reported, and once it reported it holds something.
LEMMA HoldsStep ==
  ASSUME VInv, [Next]_vars
  PROVE  HoldsWhatItReported'
<1> USE DEF VInv
<1>0. TypeOK /\ 0 \notin Ballot
  BY BallotsAreNumbers DEF IInv
<1>1. SUFFICES ASSUME NEW a \in Acceptor
               PROVE  /\ accepted_ballot'[a] # 0 =>
                           Reported(a, accepted_ballot[a], accepted_value[a])'
                      /\ \A b \in Ballot, v \in Value :
                           Reported(a, b, v)' => accepted_ballot'[a] # 0
  BY DEF HoldsWhatItReported
<1>2. CASE \E c \in Acceptor, m \in msgs : ReceiveAccept(c, m)
  <2>1. PICK c \in Acceptor, m \in msgs : ReceiveAccept(c, m)
    BY <1>2
  <2>2. m.ballot \in Ballot
    <3>1. m \in Message /\ m.type = "ACCEPT"
      BY <1>0, <2>1 DEF TypeOK, ReceiveAccept
    <3>2. QED
      BY <3>1 DEF Message
  <2>3. CASE c = a
    <3>1. accepted_ballot'[a] = m.ballot /\ accepted_value'[a] = m.value
      BY <1>0, <2>1, <2>3 DEF ReceiveAccept, TypeOK
    <3>2. m.ballot # 0
      BY <1>0, <2>2
    <3>3. Reported(a, accepted_ballot[a], accepted_value[a])'
      BY <2>1, <2>3, <3>1 DEF ReceiveAccept, Send, Reported
    <3>4. QED
      BY <3>1, <3>2, <3>3
  <2>4. CASE c # a
    <3>1. accepted_ballot'[a] = accepted_ballot[a] /\ accepted_value'[a] = accepted_value[a]
      BY <1>0, <2>1, <2>4 DEF ReceiveAccept, TypeOK
    <3>2. \A b, v : Reported(a, b, v)' <=> Reported(a, b, v)
      BY <2>1, <2>4 DEF ReceiveAccept, Send, Reported
    <3>3. Reported(a, accepted_ballot[a], accepted_value[a])' <=>
            Reported(a, accepted_ballot[a], accepted_value[a])
      BY <2>1, <2>4, <3>1 DEF ReceiveAccept, Send, Reported
    <3>4. QED
      BY <3>1, <3>2, <3>3 DEF HoldsWhatItReported
  <2>5. QED
    BY <2>3, <2>4
<1>3. CASE ~\E c \in Acceptor, m \in msgs : ReceiveAccept(c, m)
  <2>1. /\ accepted_ballot' = accepted_ballot /\ accepted_value' = accepted_value
        /\ \A m \in msgs' : m.type = "ACCEPTED" => m \in msgs
    BY <1>3, OnlyAcceptsReport
  <2>2. \A b, v : Reported(a, b, v)' => Reported(a, b, v)
    BY <2>1 DEF Reported
  <2>3. msgs \subseteq msgs'
    BY MessagesStay
  <2>4. QED
    BY <2>1, <2>2, <2>3 DEF HoldsWhatItReported, Reported
<1>4. QED
  BY <1>2, <1>3

\* Every step keeps it: a proposer in phase 2 leads.
LEMMA LeadStep ==
  ASSUME VInv, [Next]_vars
  PROVE  ProposersLead'
<1> USE DEF VInv
<1>0. TypeOK
  BY DEF IInv
<1>1. SUFFICES ASSUME NEW p \in Proposer, phase'[p] = 2
               PROVE  IsLeader(p)'
  BY DEF ProposersLead
<1>2. CASE phase[p] = 2 /\ current_ballot'[p] = current_ballot[p]
  BY <1>1, <1>2, LeadersStay DEF ProposersLead
<1>3. CASE ~(phase[p] = 2 /\ current_ballot'[p] = current_ballot[p])
  <2>1. PICK v \in Value : \E S \in SUBSET Promises(current_ballot[p]) : Accept(p, S, v)
    BY <1>0, <1>1, <1>3, OnlyAcceptEntersPhase2
  <2> PICK S \in SUBSET Promises(current_ballot[p]) : Accept(p, S, v)
    BY <2>1
  <2>2. {m.from : m \in S} \subseteq Acceptor
    BY <1>0, PromiseType
  <2>3. {m.from : m \in S} \subseteq
          {a \in Acceptor : promise_ballot'[a] >= current_ballot'[p]}
    <3>1. \A m \in S : promise_ballot[m.from] >= current_ballot[p]
      BY DEF Promises, PromiseKept
    <3>2. promise_ballot' = promise_ballot /\ current_ballot' = current_ballot
      BY DEF Accept, acceptorVars
    <3>3. QED
      BY <2>2, <3>1, <3>2
  <2>4. Majority({m.from : m \in S})
    BY DEF Accept
  <2>5. Majority({a \in Acceptor : promise_ballot'[a] >= current_ballot'[p]})
    BY <2>3, <2>4, MajorityGrows
  <2>6. QED
    BY <1>1, <2>5 DEF IsLeader
<1>4. QED
  BY <1>2, <1>3

\* The invariant of the acceptors' answers holds in every reachable state.
LEMMA VotesHold == Spec => []VInv
<1>1. Init => IInv
  BY InvInit
<1>2. Init => VInv
  BY <1>1 DEF Init, VInv, PromiseKept, HoldsWhatItReported, ProposersLead, Reported
<1>3. VInv /\ [Next]_vars => VInv'
  BY InvStep, PromiseKeptStep, HoldsStep, LeadStep DEF VInv
<1>4. QED
  BY <1>2, <1>3, PTL DEF Spec

\* What Multi-Paxos reads off the acceptors is true of the synod: who may send ACCEPT
\* messages leads, what the chosen index calls chosen is, and what is chosen is counted.
THEOREM LogAnswersHold == Spec => []LogAnswers
<1>1. ASSUME VInv PROVE LogAnswers
  <2>1. \A p \in Proposer : phase[p] = 2 => IsLeader(p)
    BY <1>1 DEF VInv, ProposersLead
  <2>2. ASSUME NEW a \in Accepted, EveryIndexChosen(a)
        PROVE  ChosenAt(accepted_ballot[a], accepted_value[a])
    <3> DEFINE S == {c \in Accepted : accepted_ballot[c] = accepted_ballot[a]}
               T == {c \in Acceptor : Reported(c, accepted_ballot[a], accepted_value[a])}
    <3>1. \A c \in S : c \in Acceptor /\ accepted_ballot[c] # 0
      BY <1>1, BallotsAreNumbers DEF Accepted, VInv, IInv
    <3>2. \A c \in S : accepted_value[c] = accepted_value[a]
      BY <1>1, SameValue DEF Accepted, VInv, SameBallotSameValue
    <3>3. S \subseteq T
      BY <1>1, <3>1, <3>2 DEF VInv, HoldsWhatItReported
    <3>4. Majority(S)
      BY <2>2 DEF EveryIndexChosen
    <3>5. Majority(T)
      BY <3>3, <3>4, MajorityGrows
    <3>6. QED
      BY <3>5 DEF ChosenAt, Reported
  <2>3. ASSUME Chosen # {}
        PROVE  CountChosen = 1
    <3>1. PICK b \in Ballot, v \in Value : ChosenAt(b, v)
      BY <2>3 DEF Chosen
    <3> DEFINE T == {a \in Acceptor : Reported(a, b, v)}
    <3>2. Majority(T)
      BY <3>1 DEF ChosenAt, Reported
    <3>3. \A a \in T : a \in Acceptor /\ accepted_ballot[a] \in Nat /\ accepted_ballot[a] # 0
      BY <1>1, BallotsAreNumbers DEF VInv, IInv, HoldsWhatItReported
    <3>4. T \subseteq Accepted
      BY <3>3 DEF Accepted
    <3>5. Accepted \in SUBSET Acceptor
      BY DEF Accepted
    <3>6. Majority(Accepted)
      BY <3>2, <3>4, <3>5, MajorityGrows
    <3>7. QED
      BY <3>6 DEF CountChosen
  <2>4. QED
    BY <2>1, <2>2, <2>3 DEF LogAnswers
<1>2. QED
  BY <1>1, VotesHold, PTL
-----------------------------------------------------------------------------
\* The argument of Paxos needs a promise to report the highest ballot its acceptor has
\* accepted at.  The code's acceptors may report less: accepting raises neither
\* promise_ballot nor, necessarily, accepted_ballot.
HighestReported ==
  \A m \in msgs : m.type = "PROMISE" =>
    \A b \in Ballot, v \in Value :
      b < m.ballot /\ Reported(m.from, b, v) => b <= m.accepted_ballot

\* No value but v can be chosen below ballot c: at every lower ballot a majority reported
\* v or will never report anything.
SafeAt(c, v) ==
  \A b \in Ballot : b < c =>
    \E Q \in SUBSET Acceptor :
      /\ Majority(Q)
      /\ \A a \in Q : \/ Reported(a, b, v)
                      \/ promise_ballot[a] > b /\ \A w \in Value : ~Reported(a, b, w)

ProposalsSafe == \A c \in Ballot, v \in Value : Proposed(c, v) => SafeAt(c, v)

\* What is safe stays safe.
LEMMA SafeStays ==
  ASSUME IInv, [Next]_vars, NEW c \in Ballot, NEW v \in Value, SafeAt(c, v)
  PROVE  SafeAt(c, v)'
<1>1. SUFFICES ASSUME NEW b \in Ballot, b < c
               PROVE  \E Q \in SUBSET Acceptor :
                        /\ Majority(Q)
                        /\ \A a \in Q :
                             \/ Reported(a, b, v)'
                             \/ promise_ballot'[a] > b /\ \A w \in Value : ~Reported(a, b, w)'
  BY DEF SafeAt, Majority
<1>2. PICK Q \in SUBSET Acceptor :
        /\ Majority(Q)
        /\ \A a \in Q : \/ Reported(a, b, v)
                        \/ promise_ballot[a] > b /\ \A w \in Value : ~Reported(a, b, w)
  BY <1>1 DEF SafeAt
<1>3. ASSUME NEW a \in Q
      PROVE  \/ Reported(a, b, v)'
             \/ promise_ballot'[a] > b /\ \A w \in Value : ~Reported(a, b, w)'
  <2>1. a \in Acceptor /\ b \in Nat /\ promise_ballot[a] \in Nat /\ promise_ballot'[a] \in Nat
    <3>1. TypeOK'
      BY InvStep DEF IInv
    <3>2. promise_ballot'[a] \in Ballot \cup {0}
      BY <3>1 DEF TypeOK
    <3>3. QED
      BY <3>2, BallotsAreNumbers DEF IInv
  <2>2. /\ promise_ballot[a] <= promise_ballot'[a]
        /\ Reported(a, b, v) => Reported(a, b, v)'
        /\ \A w \in Value : Reported(a, b, w)' => Reported(a, b, w) \/ b >= promise_ballot[a]
    BY <2>1, VotesStep
  <2>3. CASE Reported(a, b, v)
    BY <2>2, <2>3
  <2>4. CASE promise_ballot[a] > b /\ \A w \in Value : ~Reported(a, b, w)
    <3>1. promise_ballot'[a] > b /\ ~(b >= promise_ballot[a])
      BY <2>1, <2>2, <2>4
    <3>2. QED
      BY <2>2, <2>4, <3>1
  <2>5. QED
    BY <1>2, <2>3, <2>4
<1>4. QED
  BY <1>2, <1>3

\* What paxos_accept may propose is safe at its ballot.
LEMMA ProposableIsSafe ==
  ASSUME VInv, HighestReported, ProposalsSafe, NEW p \in Proposer, NEW v \in Value,
         NEW S \in SUBSET Promises(current_ballot[p]), Accept(p, S, v)
  PROVE  SafeAt(current_ballot[p], v)
<1> DEFINE n == current_ballot[p]
           Q == {m.from : m \in S}
           reported == {m \in S : m.accepted_ballot > 0}
<1>0. TypeOK /\ n \in Ballot /\ Ballot \subseteq Nat /\ 0 \notin Ballot
  BY BallotsAreNumbers DEF VInv, IInv, OwnBallot, Accept
<1>1. \A m \in S : /\ m \in msgs /\ m.type = "PROMISE" /\ m.ballot = n /\ m.from \in Acceptor
                   /\ m.accepted_ballot \in Ballot \cup {0} /\ m.accepted_ballot \in Nat
  <2>1. TAKE m \in S
  <2>2. /\ m \in msgs /\ m.type = "PROMISE" /\ m.ballot = n /\ m.from \in Acceptor
        /\ m.accepted_ballot \in Ballot \cup {0}
    BY <1>0, PromiseType
  <2>3. m.accepted_ballot \in Nat
    BY <2>2, BallotsAreNumbers
  <2>4. QED
    BY <2>2, <2>3
<1>2. Q \in SUBSET Acceptor /\ Majority(Q)
  BY <1>1 DEF Accept
<1>3. \A m \in S : promise_ballot[m.from] >= n /\ promise_ballot[m.from] \in Nat
  BY <1>0, <1>1, BallotsAreNumbers DEF VInv, PromiseKept
<1>4. \A m \in S, b \in Ballot, w \in Value :
        b < n /\ Reported(m.from, b, w) => b <= m.accepted_ballot
  BY <1>1 DEF HighestReported
<1>5. SUFFICES ASSUME NEW b \in Ballot, b < n
               PROVE  \E R \in SUBSET Acceptor :
                        /\ Majority(R)
                        /\ \A a \in R :
                             \/ Reported(a, b, v)
                             \/ promise_ballot[a] > b /\ \A w \in Value : ~Reported(a, b, w)
  BY DEF SafeAt
<1>6. \A m \in S : promise_ballot[m.from] > b
  <2>1. n \in Nat /\ b \in Nat
    BY <1>0
  <2> HIDE DEF n
  <2>2. QED
    BY <1>3, <1>5, <2>1
<1>7. CASE reported = {}
  <2>1. \A m \in S : m.accepted_ballot = 0
    BY <1>1, <1>7
  <2>2. \A m \in S, w \in Value : ~Reported(m.from, b, w)
    BY <1>0, <1>4, <1>5, <2>1
  <2>3. QED
    BY <1>2, <1>6, <2>2
<1>8. CASE reported # {}
  <2>1. PICK h \in reported : /\ v = h.accepted_value
                              /\ \A o \in reported : o.accepted_ballot <= h.accepted_ballot
    BY <1>8 DEF Accept, Proposable
  <2> DEFINE k == h.accepted_ballot
  <2>2. h \in S /\ k \in Ballot /\ k \in Nat /\ k # 0
    BY <1>0, <1>1
  <2>3. Reported(h.from, k, v)
    BY <1>1, <2>1, <2>2 DEF VInv, PromiseKept
  <2>4. Proposed(k, v) /\ SafeAt(k, v)
    <3>1. Proposed(k, v)
      BY <2>3, ReportsProposed DEF VInv
    <3>2. QED
      BY <2>2, <3>1 DEF ProposalsSafe
  <2>5. CASE b < k
    BY <2>4, <2>5 DEF SafeAt
  <2>6. CASE b = k
    <3>1. \A m \in S, w \in Value : Reported(m.from, b, w) => w = v
      BY <2>4, <2>6, ReportsProposed DEF VInv, IInv, OneValuePerBallot
    <3>2. \A a \in Q : \/ Reported(a, b, v)
                       \/ promise_ballot[a] > b /\ \A w \in Value : ~Reported(a, b, w)
      BY <1>6, <3>1
    <3>3. QED
      BY <1>2, <3>2
  <2>7. CASE b > k
    <3>1. \A m \in S : m.accepted_ballot <= k
      BY <1>1, <2>1, <2>2
    <3>2. \A m \in S, w \in Value : ~Reported(m.from, b, w)
      <4>1. SUFFICES ASSUME NEW m \in S, NEW w \in Value, Reported(m.from, b, w)
                     PROVE  FALSE
        OBVIOUS
      <4>2. b <= m.accepted_ballot /\ m.accepted_ballot <= k /\ m.accepted_ballot \in Nat
        BY <1>1, <1>4, <1>5, <3>1, <4>1
      <4> HIDE DEF k
      <4>3. b \in Nat
        BY <1>0
      <4>4. QED
        BY <2>2, <2>7, <4>2, <4>3
    <3>3. QED
      BY <1>2, <1>6, <3>2
  <2>8. QED
    <3> HIDE DEF k
    <3>1. b \in Nat
      BY <1>0
    <3>2. QED
      BY <2>2, <2>5, <2>6, <2>7, <3>1
<1>9. QED
  BY <1>7, <1>8

\* With HighestReported, a step proposes only values safe against every lower ballot.
LEMMA SafeStep ==
  ASSUME VInv, HighestReported, ProposalsSafe, [Next]_vars
  PROVE  ProposalsSafe'
<1>0. IInv
  BY DEF VInv
<1>1. SUFFICES ASSUME NEW c \in Ballot, NEW v \in Value, Proposed(c, v)'
               PROVE  SafeAt(c, v)'
  BY DEF ProposalsSafe
<1>2. CASE Proposed(c, v)
  BY <1>0, <1>2, SafeStays DEF ProposalsSafe
<1>3. CASE ~Proposed(c, v)
  <2>1. PICK p \in Proposer : /\ c = current_ballot[p]
                              /\ \E S \in SUBSET Promises(current_ballot[p]) : Accept(p, S, v)
    BY <1>1, <1>3, OnlyAcceptProposes
  <2>2. PICK S \in SUBSET Promises(current_ballot[p]) : Accept(p, S, v)
    BY <2>1
  <2>3. SafeAt(c, v)
    BY <2>1, <2>2, ProposableIsSafe
  <2>4. QED
    BY <1>0, <2>3, SafeStays
<1>4. QED
  BY <1>2, <1>3

\* Where proposals are safe, no two values are chosen, and none but the chosen one is
\* proposed at a higher ballot.
LEMMA ChosenIsProposed ==
  ASSUME IInv, NEW b \in Ballot, NEW v \in Value, ChosenAt(b, v)
  PROVE  Proposed(b, v)
<1>1. PICK a \in Acceptor : Reported(a, b, v)
  BY NoMajorityIsEmpty DEF ChosenAt, Reported
<1>2. QED
  BY <1>1, ReportsProposed

\* A value proposed above a ballot that chose is the chosen value.
LEMMA ChosenBelow ==
  ASSUME IInv, ProposalsSafe, NEW b \in Ballot, NEW v \in Value, ChosenAt(b, v),
         NEW c \in Ballot, NEW w \in Value, Proposed(c, w), b < c
  PROVE  w = v
<1>1. SafeAt(c, w)
  BY DEF ProposalsSafe
<1>2. PICK Q \in SUBSET Acceptor :
        /\ Majority(Q)
        /\ \A a \in Q : \/ Reported(a, b, w)
                        \/ promise_ballot[a] > b /\ \A u \in Value : ~Reported(a, b, u)
  BY <1>1 DEF SafeAt
<1>3. Majority({a \in Acceptor : Reported(a, b, v)})
  BY DEF ChosenAt, Reported
<1>4. PICK a \in Acceptor : a \in Q /\ a \in {d \in Acceptor : Reported(d, b, v)}
  BY <1>2, <1>3, MajoritiesMeet
<1>5. Reported(a, b, v) /\ Reported(a, b, w)
  BY <1>2, <1>4
<1>6. QED
  BY <1>5, ReportsProposed DEF IInv, OneValuePerBallot

\* Safe proposals give agreement: one value is ever chosen, and only it is proposed later.
LEMMA SafeIsAgreement ==
  ASSUME IInv, ProposalsSafe
  PROVE  Agreement /\ OnlyChosenProposed
<1>1. Agreement
  <2>1. SUFFICES ASSUME NEW v \in Value, NEW w \in Value, NEW b \in Ballot, NEW c \in Ballot,
                        ChosenAt(b, v), ChosenAt(c, w)
                 PROVE  v = w
    BY DEF Agreement, Chosen
  <2>2. Proposed(b, v) /\ Proposed(c, w)
    BY <2>1, ChosenIsProposed
  <2>3. b \in Nat /\ c \in Nat
    BY BallotsAreNumbers
  <2>4. CASE b = c
    BY <2>2, <2>4 DEF IInv, OneValuePerBallot
  <2>5. CASE b < c
    BY <2>1, <2>2, <2>5, ChosenBelow
  <2>6. CASE c < b
    BY <2>1, <2>2, <2>6, ChosenBelow
  <2>7. QED
    BY <2>3, <2>4, <2>5, <2>6
<1>2. OnlyChosenProposed
  <2>1. SUFFICES ASSUME NEW m \in msgs, m.type = "ACCEPT",
                        NEW b \in Ballot, NEW v \in Value, b < m.ballot, ChosenAt(b, v)
                 PROVE  m.value = v
    BY DEF OnlyChosenProposed
  <2>2. m.ballot \in Ballot /\ m.value \in Value /\ Proposed(m.ballot, m.value)
    <3>1. m \in Message
      BY DEF IInv, TypeOK
    <3>2. /\ m.ballot \in Ballot /\ m.value \in Value
          /\ m = [type |-> "ACCEPT", ballot |-> m.ballot, value |-> m.value]
      BY <2>1, <3>1 DEF Message
    <3>3. QED
      BY <3>2 DEF Proposed
  <2>3. QED
    BY <2>1, <2>2, ChosenBelow
<1>3. QED
  BY <1>1, <1>2

\* Nothing is reported and nothing proposed initially.
LEMMA SafeInit == Init => HighestReported /\ ProposalsSafe
BY DEF Init, HighestReported, ProposalsSafe, Proposed

\* Whatever the numbers of proposers, acceptors, values and ballots, Paxos's safety can
\* fail in only one way, that an acceptor's promise omits its highest vote: as long as
\* none does, no two values are chosen and no higher ballot proposes another value.
THEOREM AgreementIfHighestReported ==
  Spec /\ []HighestReported => [](Agreement /\ OnlyChosenProposed)
<1>1. VInv /\ HighestReported /\ ProposalsSafe /\ [Next]_vars => ProposalsSafe'
  BY SafeStep
<1>2. VInv /\ ProposalsSafe => Agreement /\ OnlyChosenProposed
  BY SafeIsAgreement DEF VInv
<1>3. Init => ProposalsSafe
  BY SafeInit
<1>4. QED
  BY <1>1, <1>2, <1>3, VotesHold, PTL DEF Spec
-----------------------------------------------------------------------------
\* When is the highest vote reported?  A promise reports what the acceptor holds, so it
\* suffices that the acceptor holds its highest vote among those below a ballot.
HoldsHighestBelow ==
  \A a \in Acceptor, b, c \in Ballot, v \in Value :
    b < c /\ Reported(a, b, v) => b <= accepted_ballot[a]

\* A promise reports the highest ballot, as long as acceptors hold their highest.
LEMMA HighestReportedStep ==
  ASSUME VInv, HighestReported, HoldsHighestBelow, [Next]_vars
  PROVE  HighestReported'
<1>0. TypeOK /\ TypeOK' /\ Ballot \subseteq Nat
  BY InvStep, BallotsAreNumbers DEF VInv, IInv
<1>1. SUFFICES ASSUME NEW m \in msgs', m.type = "PROMISE", NEW b \in Ballot, NEW v \in Value,
                      b < m.ballot, Reported(m.from, b, v)'
               PROVE  b <= m.accepted_ballot
  BY DEF HighestReported
<1>2. m.from \in Acceptor /\ m.ballot \in Ballot
  <2>1. m \in Message
    BY <1>0 DEF TypeOK
  <2>2. QED
    BY <1>1, <2>1 DEF Message
<1>3. CASE m \in msgs
  <2>1. promise_ballot[m.from] >= m.ballot
    BY <1>1, <1>3 DEF VInv, PromiseKept
  <2>2. Reported(m.from, b, v) \/ b >= promise_ballot[m.from]
    BY <1>1, <1>2, VotesStep DEF VInv
  <2>3. b \in Nat /\ m.ballot \in Nat /\ promise_ballot[m.from] \in Nat
    BY <1>0, <1>2, BallotsAreNumbers
  <2>4. Reported(m.from, b, v)
    BY <1>1, <2>1, <2>2, <2>3
  <2>5. QED
    BY <1>1, <1>3, <2>4 DEF HighestReported
<1>4. CASE m \notin msgs
  <2>1. PICK a \in Acceptor, r \in msgs : ReceivePrepare(a, r)
    BY <1>1, <1>4, OnlyPreparesPromise
  <2>2. m = [type |-> "PROMISE", from |-> a, ballot |-> r.ballot,
             accepted_ballot |-> accepted_ballot[a], accepted_value |-> accepted_value[a]]
    BY <1>4, <2>1 DEF ReceivePrepare, Send
  <2>3. Reported(a, b, v)
    BY <1>1, <2>1, <2>2 DEF ReceivePrepare, Send, Reported
  <2>4. QED
    BY <1>1, <1>2, <2>2, <2>3 DEF HoldsHighestBelow
<1>5. QED
  BY <1>3, <1>4

\* The refinement mapping: the synod's steps choose or stutter as long as chosen values
\* agree.
LEMMA ChosenStays == ASSUME IInv, [Next]_vars PROVE Chosen \subseteq Chosen'
<1>1. SUFFICES ASSUME NEW b \in Ballot, NEW v \in Value, ChosenAt(b, v)
               PROVE  ChosenAt(b, v)'
  BY DEF Chosen
<1> DEFINE S == {a \in Acceptor : Reported(a, b, v)}
           T == {a \in Acceptor : Reported(a, b, v)'}
<1>2. S \subseteq T
  BY VotesStep
<1>3. Majority(S)
  BY <1>1 DEF ChosenAt, Reported
<1>4. Majority(T)
  BY <1>2, <1>3, MajorityGrows
<1>5. QED
  BY <1>4 DEF ChosenAt, Reported, Majority

\* A step chooses a first value or leaves the choice alone: it is one of Consensus.
LEMMA ChoosesOrStutters ==
  ASSUME IInv, [Next]_vars, Agreement'
  PROVE  [Consensus!Choose]_Chosen
<1>1. Chosen \subseteq Chosen'
  BY ChosenStays
<1>2. \A v, w \in Chosen' : v = w
  BY DEF Agreement
<1>3. Chosen' \subseteq Value
  BY DEF Chosen
<1>4. CASE Chosen # {}
  BY <1>1, <1>2, <1>4
<1>5. CASE Chosen = {} /\ Chosen' # {}
  <2>1. PICK v \in Value : Chosen' = {v}
    BY <1>2, <1>3, <1>5
  <2>2. QED
    BY <1>5, <2>1 DEF Consensus!Choose
<1>6. QED
  BY <1>4, <1>5

\* Initially nothing is chosen, as in Consensus.
LEMMA NothingChosenFirst == Init => Consensus!Init
BY NoMajorityIsEmpty DEF Init, Consensus!Init, Chosen, ChosenAt

\* As long as promises report the highest vote, the synod implements the abstract
\* consensus, and Multi-Paxos's readings of it are right.
LEMMA HighestReportedImplements == Spec /\ []HighestReported => ImplementsConsensus
<1>1. IInv /\ [Next]_vars /\ Agreement' => [Consensus!Choose]_Chosen
  BY ChoosesOrStutters
<1>2. Init => Consensus!Init
  BY NothingChosenFirst
<1>3. QED
  BY <1>1, <1>2, InvHolds, AgreementIfHighestReported, LogAnswersHold, PTL
     DEF Spec, ImplementsConsensus, Consensus!Spec

\* No acceptor's accepted_ballot ever falls.
AcceptedGrows == \A a \in Acceptor : accepted_ballot'[a] >= accepted_ballot[a]

HoldsHighest ==
  \A a \in Acceptor, b \in Ballot, v \in Value : Reported(a, b, v) => b <= accepted_ballot[a]

\* Acceptors hold their highest ballot as long as accepted_ballot only grows.
LEMMA HoldsHighestStep ==
  ASSUME VInv, HoldsHighest, [Next]_vars, AcceptedGrows \/ UNCHANGED vars
  PROVE  HoldsHighest'
<1>0. TypeOK /\ TypeOK'
  BY InvStep DEF VInv, IInv
<1>1. SUFFICES ASSUME NEW a \in Acceptor, NEW b \in Ballot, NEW v \in Value,
                      Reported(a, b, v)'
               PROVE  b <= accepted_ballot'[a]
  BY DEF HoldsHighest
<1>2. b \in Nat /\ accepted_ballot[a] \in Nat /\ accepted_ballot'[a] \in Nat
  <2>1. accepted_ballot'[a] \in Ballot \cup {0}
    BY <1>0 DEF TypeOK
  <2>2. QED
    BY <1>0, <2>1, BallotsAreNumbers
<1>3. accepted_ballot'[a] >= accepted_ballot[a]
  BY <1>2 DEF AcceptedGrows, vars, acceptorVars
<1>4. CASE Reported(a, b, v)
  BY <1>2, <1>3, <1>4 DEF HoldsHighest
<1>5. CASE ~Reported(a, b, v)
  <2>1. PICK c \in Acceptor, m \in msgs : ReceiveAccept(c, m)
    BY <1>1, <1>5, OnlyAcceptsReport DEF Reported
  <2>2. c = a /\ m.ballot = b
    BY <1>1, <1>5, <2>1 DEF ReceiveAccept, Send, Reported
  <2>3. accepted_ballot'[a] = b
    BY <1>0, <2>1, <2>2 DEF ReceiveAccept, TypeOK
  <2>4. QED
    BY <1>2, <2>3
<1>6. QED
  BY <1>4, <1>5

\* paxos_receive_accept overwrites accepted_ballot without comparing.  Were it never to
\* lower it, the synod would implement consensus whatever the number of ballots.
THEOREM ImplementsIfAcceptedGrows == Spec /\ [][AcceptedGrows]_vars => ImplementsConsensus
<1>1. Init => HoldsHighest
  BY DEF Init, HoldsHighest, Reported
<1>2. VInv /\ HoldsHighest /\ [Next]_vars /\ [AcceptedGrows]_vars => HoldsHighest'
  BY HoldsHighestStep
<1>3. HoldsHighest => HoldsHighestBelow
  BY DEF HoldsHighest, HoldsHighestBelow
<1>4. VInv /\ HighestReported /\ HoldsHighestBelow /\ [Next]_vars => HighestReported'
  BY HighestReportedStep
<1>5. Init => HighestReported
  BY SafeInit
<1>6. Spec /\ [][AcceptedGrows]_vars => []HighestReported
  BY <1>1, <1>2, <1>3, <1>4, <1>5, VotesHold, PTL DEF Spec
<1>7. QED
  BY <1>6, HighestReportedImplements, PTL

\* With at most two ballots the code as it is implements consensus: what an acceptor
\* holds is then at least the lower ballot.
THEOREM TwoBallotsImplement ==
  ASSUME NEW CONSTANT x, NEW CONSTANT y, Ballot \subseteq {x, y}
  PROVE  Spec => ImplementsConsensus
<1>1. ASSUME VInv PROVE HoldsHighestBelow
  <2>1. SUFFICES ASSUME NEW a \in Acceptor, NEW b \in Ballot, NEW c \in Ballot,
                        NEW v \in Value, b < c, Reported(a, b, v)
                 PROVE  b <= accepted_ballot[a]
    BY DEF HoldsHighestBelow
  <2>2. accepted_ballot[a] # 0
    BY <1>1, <2>1 DEF VInv, HoldsWhatItReported
  <2>3. accepted_ballot[a] \in Ballot
    BY <1>1, <2>2 DEF VInv, IInv, TypeOK
  <2>4. b \in Nat /\ c \in Nat
    BY BallotsAreNumbers
  <2>5. accepted_ballot[a] \in {b, c}
    <3>1. b # c
      BY <2>1, <2>4
    <3>2. b \in {x, y} /\ c \in {x, y} /\ accepted_ballot[a] \in {x, y}
      BY <2>3
    <3>3. QED
      BY <3>1, <3>2
  <2>6. QED
    BY <2>1, <2>4, <2>5
<1>2. VInv /\ HighestReported /\ HoldsHighestBelow /\ [Next]_vars => HighestReported'
  BY HighestReportedStep
<1>3. Init => HighestReported
  BY SafeInit
<1>4. Spec => []HighestReported
  BY <1>1, <1>2, <1>3, VotesHold, PTL DEF Spec
<1>5. QED
  BY <1>4, HighestReportedImplements, PTL
=============================================================================
