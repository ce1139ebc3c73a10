------------------------------ MODULE SyncNetwork ------------------------------
(***************************************************************************)
(* The network the three synchronizers run on (network.c and synchro.h of  *)
(* mini-synchronizer-alpha-beta-gamma): nodes with adjacency lists, their  *)
(* synchronizer state and round, and their incoming queues.                *)
(*                                                                         *)
(* A queue is only ever scanned for the messages of one type whose round   *)
(* is the receiver's, so the queues are one set of messages; a repeated    *)
(* message differs from the first in the execution that sent it.  Messages *)
(* of rounds their receiver has left are never counted and are dropped.    *)
(***************************************************************************)
EXTENDS Integers, Sequences, FiniteSets

CONSTANTS Node,           \* node ids, 0 .. num_nodes - 1
          MaxExecutions,  \* bound: calls of synchro_execute_round
          MaxCrashes      \* bound: nodes that crash

ASSUME NodeAssumption ==
  /\ IsFiniteSet(Node) /\ 0 \in Node /\ Node = 0 .. Cardinality(Node) - 1
  /\ MaxExecutions \in Nat
  /\ MaxCrashes \in Nat

VARIABLES neighbors,              \* adjacency lists, latest edge first
          state,                  \* node_state_t
          current_round,
          incoming,               \* the messages in all incoming queues
          total_messages_sent,
          total_rounds_executed,
          completed               \* history: rounds whose protocol the node completed

netVars == <<state, current_round, incoming, total_messages_sent,
             total_rounds_executed, completed>>

None == -1                        \* NODE_ID_NONE

\* network_add_edge, for each edge in turn: each end goes in front of the other's list.
AdjacencyLists(edges) ==
  [i \in Node |->
     LET at == SelectSeq(edges, LAMBDA e : i \in {e[1], e[2]})
         Nth(k) == at[Len(at) + 1 - k]
     IN  [k \in 1 .. Len(at) |-> IF Nth(k)[1] = i THEN Nth(k)[2] ELSE Nth(k)[1]]]

Neighbors(i) == {neighbors[i][k] : k \in DOMAIN neighbors[i]}

Alive == {i \in Node : state[i] # "CRASHED"}

Message == [type : {"SAFE", "ACK", "SAFE_SUBTREE", "NEXT_PULSE", "INTERCLUSTER"},
            sender : Node, receiver : Node, round : Nat, sent_in : Nat]

\* node_send_message: a message carries its sender's round.
Msg(type, i, j) ==
  [type |-> type, sender |-> i, receiver |-> j, round |-> current_round[i],
   sent_in |-> total_rounds_executed]

\* The messages of a type that i finds in its queue for its current round.
Delivered(type, i, msgs) ==
  {m \in msgs : /\ m.type = type
                /\ m.receiver = i
                /\ m.round = current_round[i]}

Heard(type, i, msgs) == {m.sender : m \in Delivered(type, i, msgs)}

NetInit ==
  /\ state = [i \in Node |-> "UNSAFE"]
  /\ current_round = [i \in Node |-> 0]
  /\ incoming = {}
  /\ total_messages_sent = 0
  /\ total_rounds_executed = 0
  /\ completed = [i \in Node |-> 0]

\* Mutant: the cleanup also consumes the messages of the round it moves to.
FinishRoundConsumingNext(sent, ready, resting, ran) ==
  /\ total_rounds_executed < MaxExecutions
  /\ total_rounds_executed' = total_rounds_executed + 1
  /\ total_messages_sent' = total_messages_sent + Cardinality(sent)
  /\ current_round' = [i \in Node |-> current_round[i] + IF i \in ready THEN 1 ELSE 0]
  /\ state' = [i \in Node |-> IF i \in ready THEN "UNSAFE" ELSE resting[i]]
  /\ incoming' = {m \in incoming \cup sent : m.round > current_round'[m.receiver]}
  /\ completed' = [i \in Node |-> IF i \in ran THEN current_round[i] + 1 ELSE completed[i]]

\* What ends each synchronizer's execution of a round: the nodes of ready
\* advance and consume what they read, the others rest in resting.
FinishRound(sent, ready, resting, ran) ==
  /\ total_rounds_executed < MaxExecutions
  /\ total_rounds_executed' = total_rounds_executed + 1
  /\ total_messages_sent' = total_messages_sent + Cardinality(sent)
  /\ current_round' = [i \in Node |-> current_round[i] + IF i \in ready THEN 1 ELSE 0]
  /\ state' = [i \in Node |-> IF i \in ready THEN "UNSAFE" ELSE resting[i]]
  /\ incoming' = {m \in incoming \cup sent : m.round >= current_round'[m.receiver]}
  /\ completed' = [i \in Node |-> IF i \in ran THEN current_round[i] + 1 ELSE completed[i]]

\* The fault model of synchro.h: a node crashes between two executions.
Crash(i) ==
  /\ i \in Alive
  /\ Cardinality(Node \ Alive) < MaxCrashes
  /\ state' = [state EXCEPT ![i] = "CRASHED"]
  /\ UNCHANGED <<current_round, incoming, total_messages_sent,
                 total_rounds_executed, completed>>

NetTypeOK ==
  /\ state \in [Node -> {"UNSAFE", "SAFE", "WAITING", "CRASHED"}]
  /\ current_round \in [Node -> Nat]
  /\ incoming \subseteq Message
  /\ total_messages_sent \in Nat
  /\ total_rounds_executed \in 0 .. MaxExecutions
  /\ completed \in [Node -> Nat]
================================================================================
