------------------------------- MODULE DirectPaxos -----------------------------
(***************************************************************************)
(* paxos.c of mini-consensus-fault-tolerance: acceptors that answer calls, *)
(* shared by a multi-Paxos leader, by instances that run on copies of the  *)
(* acceptors, and by a proposer that drives the same handlers one acceptor *)
(* at a time, as the phases of the protocol are described.                 *)
(***************************************************************************)
EXTENDS Integers, FiniteSets

CONSTANTS Acceptor,    \* indices in the array of acceptors, 0 .. num_acceptors - 1
          Slot,        \* instance ids
          PaxosValue,  \* values to propose, none of them -1
          MaxTries     \* bound: proposal numbers the other proposer uses

ASSUME DirectPaxosAssumption ==
  /\ IsFiniteSet(Acceptor) /\ Acceptor = 0 .. Cardinality(Acceptor) - 1 /\ Slot \subseteq Nat
  /\ PaxosValue \subseteq Nat /\ MaxTries \in Nat

NoValue == -1

VARIABLES acceptors,   \* promised and accepted numbers <<round, server_id>>, accepted_value
          leader,      \* multi_paxos_t: leader_id, -1 for none, and phase1_done
          decided,     \* decided_value of each slot
          instance,    \* the last paxos_run_instance that decided
          proposer, learner,
          offered      \* history: the values the leader sent

paxosVars == <<acceptors, leader, decided, instance, proposer, learner, offered>>

\* paxos_proposal_compare
Before(m, n) == m[1] < n[1] \/ (m[1] = n[1] /\ m[2] < n[2])

PaxosMajority(S) == Cardinality(S) >= Cardinality(Acceptor) \div 2 + 1

\* paxos_receive_prepare
Promises(acc, n) == Before(acc.promised, n)
Prepared(acc, n) == IF Promises(acc, n) THEN [acc EXCEPT !.promised = n] ELSE acc

\* paxos_receive_accept
Accepts(acc, n) == ~Before(n, acc.promised)

\* Mutant: accepting does not raise the promise.
AcceptedUnpromised(acc, n, v) ==
  IF Accepts(acc, n) THEN [acc EXCEPT !.accepted = n, !.value = v] ELSE acc

Accepted(acc, n, v) ==
  IF Accepts(acc, n) THEN [promised |-> n, accepted |-> n, value |-> v] ELSE acc

\* The acceptors are zeroed, as are the instances but for decided_value.
PaxosStart ==
  /\ acceptors = [a \in Acceptor |-> [promised |-> <<0, 0>>, accepted |-> <<0, 0>>, value |-> NoValue]]
  /\ leader = [id |-> -1, phase1_done |-> FALSE]
  /\ decided = [s \in Slot |-> NoValue]
  /\ instance = [id |-> -1, decided |-> NoValue]
  /\ proposer = [tries |-> 0, promised |-> {}, highest |-> <<0, 0>>, seen |-> NoValue,
                 proposed |-> NoValue, accepted |-> {}, decided |-> NoValue]
  /\ learner = [count |-> 0, value |-> NoValue, learned |-> FALSE]
  /\ offered = {}

LeaderNumber == <<1, 0>>
Elected(accs) == PaxosMajority({a \in Acceptor : Promises(accs[a], LeaderNumber)})
AllPrepared(accs, n) == [a \in Acceptor |-> Prepared(accs[a], n)]

\* multi_paxos_elect_leader
ElectLeader(id) ==
  /\ leader' = IF Elected(acceptors) THEN [id |-> id, phase1_done |-> TRUE] ELSE leader
  /\ acceptors' = AllPrepared(acceptors, LeaderNumber)
  /\ UNCHANGED <<decided, instance, proposer, learner, offered>>

\* multi_paxos_propose: phase 1 at most once, and its replies tell nothing.
ProposeSlot(s, v) ==
  LET electing == ~leader.phase1_done
      accs == IF electing THEN AllPrepared(acceptors, LeaderNumber) ELSE acceptors
      accepting == {a \in Acceptor : Accepts(accs[a], LeaderNumber)}
  IN  IF electing /\ ~Elected(acceptors)
      THEN acceptors' = accs /\ UNCHANGED <<leader, decided, offered>>
      ELSE /\ leader' = IF electing
                        THEN [id |-> IF leader.id >= 0 THEN leader.id ELSE 0, phase1_done |-> TRUE]
                        ELSE leader
           /\ acceptors' = [a \in Acceptor |-> Accepted(accs[a], LeaderNumber, v)]
           /\ decided' = IF PaxosMajority(accepting) THEN [decided EXCEPT ![s] = v] ELSE decided
           /\ offered' = offered \cup {v}

Propose(s, v) == ProposeSlot(s, v) /\ UNCHANGED <<instance, proposer, learner>>

\* The value phase 2 sends: of the accepted values reported, the first under the
\* highest number; the proposer's own if there is none.
ValueToSend(accs, reporting, v) ==
  LET voted == {a \in reporting : accs[a].value # NoValue /\ Before(<<0, 0>>, accs[a].accepted)}
      first == CHOOSE a \in voted : \A b \in voted :
                 \/ Before(accs[b].accepted, accs[a].accepted)
                 \/ accs[b].accepted = accs[a].accepted /\ a <= b
  IN  IF voted = {} THEN v ELSE accs[first].value

\* paxos_run_instance: both phases on copies of the acceptors, which keep nothing
\* of it.
RunInstance(id, v) ==
  LET n == <<id + 1, 0>>
      promising == {a \in Acceptor : Promises(acceptors[a], n)}
      copies == AllPrepared(acceptors, n)
  IN  /\ PaxosMajority(promising)
      /\ PaxosMajority({a \in Acceptor : Accepts(copies[a], n)})
      /\ instance' = [id |-> id, decided |-> ValueToSend(acceptors, promising, v)]
      /\ UNCHANGED <<acceptors, leader, decided, proposer, learner, offered>>

ProposerNumber == <<proposer.tries, 1>>

\* The other proposer starts over under its next number.
StartProposal ==
  /\ proposer.tries < MaxTries
  /\ proposer' = [proposer EXCEPT !.tries = @ + 1, !.promised = {}, !.highest = <<0, 0>>,
                                  !.seen = NoValue, !.proposed = NoValue, !.accepted = {}]
  /\ UNCHANGED <<acceptors, leader, decided, instance, learner, offered>>

\* An acceptor gets its prepare; the proposer keeps the highest number reported.
PrepareAt(a) ==
  LET acc == acceptors[a]
      reports == acc.value # NoValue /\ Before(proposer.highest, acc.accepted)
  IN  /\ proposer.tries > 0 /\ proposer.proposed = NoValue
      /\ Promises(acc, ProposerNumber)
      /\ acceptors' = [acceptors EXCEPT ![a] = Prepared(@, ProposerNumber)]
      /\ proposer' = [proposer EXCEPT
           !.promised = @ \cup {a},
           !.highest = IF reports THEN acc.accepted ELSE @,
           !.seen = IF reports THEN acc.value ELSE @]
      /\ UNCHANGED <<leader, decided, instance, learner, offered>>

\* paxos_accept
SendAccept(v) ==
  /\ proposer.proposed = NoValue /\ PaxosMajority(proposer.promised)
  /\ proposer' = [proposer EXCEPT !.proposed = IF proposer.seen # NoValue THEN proposer.seen ELSE v]
  /\ UNCHANGED <<acceptors, leader, decided, instance, learner, offered>>

\* paxos_learner_receive_accepted: any MSG_ACCEPTED counts.
Learn(v) ==
  learner' = [count |-> learner.count + 1, value |-> v,
              learned |-> PaxosMajority(1 .. learner.count + 1)]

\* An acceptor gets its accept, and both proposer and learner its reply.
AcceptAt(a) ==
  LET accepted == proposer.accepted \cup {a}
  IN  /\ proposer.proposed # NoValue /\ a \notin proposer.accepted
      /\ Accepts(acceptors[a], ProposerNumber)
      /\ acceptors' = [acceptors EXCEPT ![a] = Accepted(@, ProposerNumber, proposer.proposed)]
      /\ proposer' = [proposer EXCEPT
           !.accepted = accepted,
           !.decided = IF PaxosMajority(accepted) THEN proposer.proposed ELSE @]
      /\ Learn(proposer.proposed)
      /\ UNCHANGED <<leader, decided, instance, offered>>

PaxosStep ==
  \/ \E id \in {0, 1} : ElectLeader(id)
  \/ \E s \in Slot, v \in PaxosValue : Propose(s, v) \/ RunInstance(s, v)
  \/ StartProposal
  \/ \E a \in Acceptor : PrepareAt(a) \/ AcceptAt(a)
  \/ \E v \in PaxosValue : SendAccept(v)

--------------------------------------------------------------------------------
Decisions == ({decided[s] : s \in Slot} \cup {proposer.decided}) \ {NoValue}

\* As long as the leader sends one value only, whatever the slot, decisions agree
\* and stay, and an instance that runs after one returns it: the leader's slots
\* share their acceptors and its number, so a second value may replace the first.
\* A leader that lost a majority of the promises decides nothing more.  The
\* learner is right until the proposer starts over, and then may count acceptances
\* of two numbers.
DecisionsKept ==
  /\ Cardinality(offered') <= 1 =>
       /\ Decisions \subseteq Decisions' /\ Cardinality(Decisions') <= 1
       /\ instance' # instance => Decisions \subseteq {instance'.decided}
  /\ PaxosMajority({a \in Acceptor : Before(LeaderNumber, acceptors[a].promised)}) =>
       decided' = decided
  /\ proposer'.tries <= 1 /\ learner'.learned => learner'.value = proposer'.decided

PaxosDecisionsStay == [][DecisionsKept]_paxosVars
================================================================================
