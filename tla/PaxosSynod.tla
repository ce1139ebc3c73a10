----------------------------- MODULE PaxosSynod -----------------------------
(***************************************************************************)
(* The message handlers of paxos_basic.c as an asynchronous system: any    *)
(* number of proposers, acceptors and learners, and a network that may     *)
(* lose, duplicate, delay and reorder.  The calling discipline is that of  *)
(* paxos_run_instance: a proposer calls paxos_accept once per ballot, on   *)
(* the promises of a majority for that ballot.                             *)
(***************************************************************************)
EXTENDS Integers, FiniteSets

CONSTANTS Proposer, Acceptor, Learner, Value,
          NoValue,     \* no value accepted or learned
          Ballot,      \* bound: the ballots that may be tried
          Owner        \* ballot = round * MAX_NODES + proposer id: its proposer
ASSUME SynodConstants ==
  /\ Ballot \subseteq Nat \ {0}
  /\ Owner \in [Ballot -> Proposer]
  /\ NoValue \notin Value
  /\ IsFiniteSet(Acceptor)

VARIABLES current_ballot, phase,                          \* paxos_proposer_t
          promise_ballot, accepted_ballot, accepted_value,  \* paxos_acceptor_t
          learned,                                        \* paxos_learner_t
          msgs        \* every message sent; receiving does not remove one
acceptorVars == <<promise_ballot, accepted_ballot, accepted_value>>
vars == <<current_ballot, phase, acceptorVars, learned, msgs>>

Message ==
  [type : {"PREPARE"}, ballot : Ballot]
    \cup [type : {"PROMISE"}, from : Acceptor, ballot : Ballot,
          accepted_ballot : Ballot \cup {0}, accepted_value : Value \cup {NoValue}]
    \cup [type : {"ACCEPT"}, ballot : Ballot, value : Value]
    \cup [type : {"ACCEPTED"}, from : Acceptor, ballot : Ballot, value : Value]

TypeOK ==
  /\ current_ballot \in [Proposer -> Ballot \cup {0}]
  /\ phase \in [Proposer -> 0..2]
  /\ promise_ballot \in [Acceptor -> Ballot \cup {0}]
  /\ accepted_ballot \in [Acceptor -> Ballot \cup {0}]
  /\ accepted_value \in [Acceptor -> Value \cup {NoValue}]
  /\ learned \in [Learner -> Value \cup {NoValue}]
  /\ msgs \in SUBSET Message

\* mutant: a learner not reset between two instances
InitStaleLearner ==
  /\ current_ballot = [p \in Proposer |-> 0]
  /\ phase = [p \in Proposer |-> 0]
  /\ promise_ballot = [a \in Acceptor |-> 0]
  /\ accepted_ballot = [a \in Acceptor |-> 0]
  /\ accepted_value = [a \in Acceptor |-> NoValue]
  /\ learned \in [Learner -> Value \cup {NoValue}]
  /\ msgs = {}

Init ==
  /\ current_ballot = [p \in Proposer |-> 0]
  /\ phase = [p \in Proposer |-> 0]
  /\ promise_ballot = [a \in Acceptor |-> 0]
  /\ accepted_ballot = [a \in Acceptor |-> 0]
  /\ accepted_value = [a \in Acceptor |-> NoValue]
  /\ learned = [l \in Learner |-> NoValue]
  /\ msgs = {}

Send(m) == msgs' = msgs \cup {m}
Majority(S) == 2 * Cardinality(S) > Cardinality(Acceptor)

\* mutant: a ballot may be prepared again
PrepareAgain(p, b) ==
  /\ Owner[b] = p
  /\ b >= current_ballot[p]
  /\ current_ballot' = [current_ballot EXCEPT ![p] = b]
  /\ phase' = [phase EXCEPT ![p] = 1]
  /\ Send([type |-> "PREPARE", ballot |-> b])
  /\ UNCHANGED <<acceptorVars, learned>>

\* paxos_prepare: a ballot above any the proposer has used.
Prepare(p, b) ==
  /\ Owner[b] = p
  /\ b > current_ballot[p]
  /\ current_ballot' = [current_ballot EXCEPT ![p] = b]
  /\ phase' = [phase EXCEPT ![p] = 1]
  /\ Send([type |-> "PREPARE", ballot |-> b])
  /\ UNCHANGED <<acceptorVars, learned>>

ReceivePrepare(a, m) ==
  /\ m.type = "PREPARE"
  /\ m.ballot > promise_ballot[a]
  /\ promise_ballot' = [promise_ballot EXCEPT ![a] = m.ballot]
  /\ Send([type |-> "PROMISE", from |-> a, ballot |-> m.ballot,
           accepted_ballot |-> accepted_ballot[a],
           accepted_value |-> accepted_value[a]])
  /\ UNCHANGED <<current_ballot, phase, accepted_ballot, accepted_value, learned>>

Promises(b) == {m \in msgs : m.type = "PROMISE" /\ m.ballot = b}

ProposableOwn(S) == Value      \* mutant: the promises' reports ignored

\* The value of the highest accepted ballot among the promises S, else one of
\* the proposer's own choosing.
Proposable(S) ==
  LET reported == {m \in S : m.accepted_ballot > 0} IN
  IF reported = {} THEN Value
  ELSE {m.accepted_value : m \in
          {h \in reported : \A o \in reported : o.accepted_ballot <= h.accepted_ballot}}

\* paxos_accept: the proposer in phase 1 has the promises S of a majority.
Accept(p, S, v) ==
  /\ phase[p] = 1
  /\ S \subseteq Promises(current_ballot[p])
  /\ Majority({m.from : m \in S})
  /\ v \in Proposable(S)
  /\ phase' = [phase EXCEPT ![p] = 2]
  /\ Send([type |-> "ACCEPT", ballot |-> current_ballot[p], value |-> v])
  /\ UNCHANGED <<current_ballot, acceptorVars, learned>>

\* mutant: the promise is not consulted
ReceiveAcceptStale(a, m) ==
  /\ m.type = "ACCEPT"
  /\ accepted_ballot' = [accepted_ballot EXCEPT ![a] = m.ballot]
  /\ accepted_value' = [accepted_value EXCEPT ![a] = m.value]
  /\ Send([type |-> "ACCEPTED", from |-> a, ballot |-> m.ballot, value |-> m.value])
  /\ UNCHANGED <<current_ballot, phase, promise_ballot, learned>>

\* Accepting does not raise promise_ballot.
ReceiveAccept(a, m) ==
  /\ m.type = "ACCEPT"
  /\ m.ballot >= promise_ballot[a]
  /\ accepted_ballot' = [accepted_ballot EXCEPT ![a] = m.ballot]
  /\ accepted_value' = [accepted_value EXCEPT ![a] = m.value]
  /\ Send([type |-> "ACCEPTED", from |-> a, ballot |-> m.ballot, value |-> m.value])
  /\ UNCHANGED <<current_ballot, phase, promise_ballot, learned>>

\* paxos_learner_receive learns the first value any acceptor reports.
LearnerReceive(l, m) ==
  /\ m.type = "ACCEPTED"
  /\ learned[l] = NoValue
  /\ learned' = [learned EXCEPT ![l] = m.value]
  /\ UNCHANGED <<current_ballot, phase, acceptorVars, msgs>>

Next ==
  \/ \E p \in Proposer, b \in Ballot : Prepare(p, b)
  \/ \E a \in Acceptor, m \in msgs : ReceivePrepare(a, m)
  \/ \E p \in Proposer, v \in Value :
       \E S \in SUBSET Promises(current_ballot[p]) : Accept(p, S, v)
  \/ \E a \in Acceptor, m \in msgs : ReceiveAccept(a, m)
  \/ \E l \in Learner, m \in msgs : LearnerReceive(l, m)

Spec == Init /\ [][Next]_vars
-----------------------------------------------------------------------------
\* A value is chosen at a ballot once a majority has reported accepting it there.
ChosenAt(b, v) ==
  Majority({a \in Acceptor :
    [type |-> "ACCEPTED", from |-> a, ballot |-> b, value |-> v] \in msgs})
Chosen == {v \in Value : \E b \in Ballot : ChosenAt(b, v)}

\* paxos_verify_safety_invariant: acceptors that accepted at the same ballot
\* accepted the same value.
SameBallotSameValue ==
  \A a, c \in Acceptor :
    accepted_ballot[a] = accepted_ballot[c] => accepted_value[a] = accepted_value[c]

\* Paxos safety: no two values are chosen, at whatever ballots.
Agreement == \A v, w \in Chosen : v = w

\* "only v proposed at m > n" (README.md:51): once v is chosen at ballot n, no
\* higher ballot proposes another value.
OnlyChosenProposed ==
  \A m \in msgs : m.type = "ACCEPT" =>
    \A n \in Ballot, v \in Value : n < m.ballot /\ ChosenAt(n, v) => m.value = v

\* A learner has learned what a proposer sent and an acceptor accepted.
LearnedWasProposed ==
  \A l \in Learner : learned[l] # NoValue =>
    \E b \in Ballot : [type |-> "ACCEPT", ballot |-> b, value |-> learned[l]] \in msgs

-----------------------------------------------------------------------------
\* paxos_multi.c asks of the acceptors of the one synod what becomes of a log.
Accepted == {a \in Acceptor : accepted_ballot[a] > 0}

\* multipaxos_is_leader
IsLeader(p) ==
  phase[p] >= 1 /\ Majority({a \in Acceptor : promise_ballot[a] >= current_ballot[p]})

\* mutant: whatever is accepted is counted
AnyBallotChosen(first) == Majority(Accepted)

\* multipaxos_chosen_index finds every index chosen, or none: the acceptors that
\* accepted at the ballot of the first that accepted anything are a majority.
EveryIndexChosen(first) ==
  Majority({a \in Accepted : accepted_ballot[a] = accepted_ballot[first]})

\* multipaxos_count_chosen: of whatever ballots
CountChosen == IF Majority(Accepted) THEN 1 ELSE 0

\* Who may send ACCEPT messages leads, and remains leader until it prepares again; what
\* the chosen index calls chosen is, whoever is asked first; and what is chosen is
\* counted.  (Not conversely: two proposers may lead, a chosen value be missed by the
\* index, and what is counted not be chosen.)
LogAnswers ==
  /\ \A p \in Proposer : phase[p] = 2 => IsLeader(p)
  /\ \A a \in Accepted : EveryIndexChosen(a) => ChosenAt(accepted_ballot[a], accepted_value[a])
  /\ Chosen # {} => CountChosen = 1
=============================================================================
