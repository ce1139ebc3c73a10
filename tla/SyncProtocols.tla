------------------------------ MODULE SyncProtocols ----------------------------
(***************************************************************************)
(* The protocols of distributed_algorithms.c over the alpha and beta       *)
(* synchronizers.  The first phase of synchro_execute_round calls the      *)
(* protocol at node after node, in the order of their ids: one call is one *)
(* step here, and what ends the execution is another.  A message sent by a *)
(* call is in the receiver's queue at once, so who has run already decides *)
(* who reads it in this execution.                                         *)
(***************************************************************************)
EXTENDS Synchronizers

CONSTANTS Protocol,   \* the protocols to run
          Rounds      \* the rounds inject_random_faults may leave a node in

ASSUME ProtocolAssumption ==
  /\ Protocol \subseteq {"BFS", "LE_LANN", "FLOOD_SET", "BROADCAST", "CONVERGECAST", "SELF_STABILIZING"}
  /\ Rounds \subseteq Nat

VARIABLES protocol,
          local_data,
          reported,     \* nodes with local_sensor < 0: they reported to their parent
          mail,         \* application messages in the queues
          done,         \* the nodes whose protocol returned 0 in this execution
          turn,         \* the node whose protocol is called next
          input         \* history: what local_data held at the start

protocolVars == <<protocol, local_data, reported, mail, done, turn, input>>
allVars == <<vars, protocolVars>>

N == Cardinality(Node)

\* A payload is a pointer to a variable of the sender, or to a dead local: it is
\* not part of the message.
Mail == [sender : Node, receiver : Node, round : Nat]
SendTo(i, receivers, round) ==
  /\ mail' = mail \cup {[sender |-> i, receiver |-> j, round |-> round] : j \in receivers}
  /\ total_messages_sent' = total_messages_sent + Cardinality(receivers)
From(i) == {m \in mail : m.receiver = i}
ThisRound(i) == {m \in From(i) : m.round = current_round[i]}

\* bfs_run, consensus_init_random, the children arrays beta built, and
\* inject_random_faults, which may set any round and SAFE or UNSAFE.
Data ==
  CASE protocol = "BFS" -> {[i \in Node |-> IF i = 0 THEN 1 ELSE 0]}
    [] protocol = "FLOOD_SET" -> [Node -> {0, 1}]
    [] protocol = "LE_LANN" -> {[i \in Node |-> i]}
    [] OTHER -> {[i \in Node |-> 0]}

ProtocolInit ==
  /\ protocol \in Protocol
  /\ synchro_type = IF protocol \in {"BROADCAST", "CONVERGECAST"} THEN "BETA" ELSE "ALPHA"
  /\ neighbors \in Graphs
  /\ IF synchro_type = "BETA" THEN BetaTrees
     ELSE /\ bfs_parent = [i \in Node |-> None]
          /\ depth = [i \in Node |-> IF protocol = "BFS" /\ i = 0 THEN 0 ELSE -1]
          /\ cluster_leader = [i \in Node |-> None]
  /\ IF protocol = "SELF_STABILIZING"
     THEN /\ state \in [Node -> {"SAFE", "UNSAFE"}]
          /\ current_round \in [Node -> Rounds]
          /\ completed = current_round
          /\ incoming = {} /\ total_messages_sent = 0 /\ total_rounds_executed = 0
     ELSE NetInit
  /\ local_data \in Data /\ input = local_data
  /\ reported = {} /\ mail = {} /\ done = {} /\ turn = 0

\* mutant: a search of an earlier round is read
BfsAnyRound(i) ==
  LET round == current_round[i]
      found == local_data[i] = 0 /\ From(i) # {}
      first == CHOOSE m \in From(i) : \A k \in From(i) : m.sender <= k.sender
  IN  /\ SendTo(i, IF round > 0 /\ local_data[i] = 1 /\ depth[i] = round - 1
                   THEN Neighbors(i) ELSE {}, round)
      /\ IF round > 0 /\ found
         THEN /\ local_data' = [local_data EXCEPT ![i] = 1]
              /\ bfs_parent' = [bfs_parent EXCEPT ![i] = first.sender]
              /\ depth' = [depth EXCEPT ![i] = round]
         ELSE UNCHANGED <<local_data, bfs_parent, depth>>
      /\ UNCHANGED <<reported, current_round, state>>

\* bfs_protocol_round: a node discovered in the last round sends a search to its
\* neighbours; an undiscovered one takes the first search of this round.
BfsRound(i) ==
  LET round == current_round[i]
      found == local_data[i] = 0 /\ ThisRound(i) # {}
      first == CHOOSE m \in ThisRound(i) : \A k \in ThisRound(i) : m.sender <= k.sender
  IN  /\ SendTo(i, IF round > 0 /\ local_data[i] = 1 /\ depth[i] = round - 1
                   THEN Neighbors(i) ELSE {}, round)
      /\ IF round > 0 /\ found
         THEN /\ local_data' = [local_data EXCEPT ![i] = 1]
              /\ bfs_parent' = [bfs_parent EXCEPT ![i] = first.sender]
              /\ depth' = [depth EXCEPT ![i] = round]
         ELSE UNCHANGED <<local_data, bfs_parent, depth>>
      /\ UNCHANGED <<reported, current_round, state>>

\* consensus_flood_set_round.  The payload is the sender's local_data as it is now.
FloodSetRound(i) ==
  /\ SendTo(i, Neighbors(i), current_round[i])
  /\ local_data' = [local_data EXCEPT ![i] =
       IF \E m \in ThisRound(i) : local_data[m.sender] = 1 THEN 1 ELSE @]
  /\ UNCHANGED <<bfs_parent, depth, reported, current_round, state>>

\* broadcast_protocol_round; 1 is the value that is broadcast.
BroadcastRound(i) ==
  LET starts == i = 0 /\ current_round[i] = 0
      told == local_data[i] = 0 /\ \E m \in From(i) : m.sender = bfs_parent[i]
  IN  /\ SendTo(i, IF starts \/ told THEN Children(i) ELSE {}, current_round[i])
      /\ local_data' = [local_data EXCEPT ![i] = IF starts \/ told THEN 1 ELSE @]
      /\ UNCHANGED <<bfs_parent, depth, reported, current_round, state>>

\* mutant: the reports read stay in the queue
ConvergecastKeepsReports(i) ==
  LET heard == {c \in Children(i) : \E m \in From(i) : m.sender = c}
      reports == i \notin reported /\ heard = Children(i) /\ bfs_parent[i] # None
  IN  /\ SendTo(i, IF reports THEN {bfs_parent[i]} ELSE {}, current_round[i] + 1)
      /\ reported' = reported \cup IF reports THEN {i} ELSE {}
      /\ UNCHANGED <<local_data, bfs_parent, depth, current_round, state>>

\* convergecast_sum_round: a node that finds reports of all its children in one
\* call reports.  The reports it reads leave the queue, and which children were
\* heard in earlier calls is not remembered.  (The sum is read through a pointer
\* to a dead local and decides nothing.)
ConvergecastRound(i) ==
  LET heard == {c \in Children(i) : \E m \in From(i) : m.sender = c}
      reports == i \notin reported /\ heard = Children(i) /\ bfs_parent[i] # None
  IN  /\ mail' = {m \in mail : ~(i \notin reported /\ m.receiver = i /\ m.sender \in heard)}
                   \cup IF reports THEN {[sender |-> i, receiver |-> bfs_parent[i],
                                           round |-> current_round[i] + 1]} ELSE {}
      /\ total_messages_sent' = total_messages_sent + IF reports THEN 1 ELSE 0
      /\ reported' = reported \cup IF reports THEN {i} ELSE {}
      /\ UNCHANGED <<local_data, bfs_parent, depth, current_round, state>>

Highest(S) == CHOOSE x \in S : \A y \in S : y <= x

\* mutant: only the heartbeats of the node's own round are read
SelfStabilizingThisRound(i) ==
  LET ahead == {current_round[m.sender] : m \in ThisRound(i)} \cup {current_round[i]}
  IN  /\ SendTo(i, Neighbors(i), current_round[i])
      /\ current_round' = [current_round EXCEPT ![i] = Highest(ahead)]
      /\ state' = [state EXCEPT ![i] = IF Highest(ahead) > current_round[i] THEN "UNSAFE" ELSE @]
      /\ UNCHANGED <<local_data, bfs_parent, depth, reported>>

\* self_stabilizing_synchro_round: a node behind a neighbour that ever sent it a
\* heartbeat jumps to the neighbour's present round.  Nothing sends a MSG_RESET.
SelfStabilizingRound(i) ==
  LET ahead == {current_round[m.sender] : m \in From(i)} \cup {current_round[i]}
  IN  /\ SendTo(i, Neighbors(i), current_round[i])
      /\ current_round' = [current_round EXCEPT ![i] = Highest(ahead)]
      /\ state' = [state EXCEPT ![i] = IF Highest(ahead) > current_round[i] THEN "UNSAFE" ELSE @]
      /\ UNCHANGED <<local_data, bfs_parent, depth, reported>>

\* leader_election_le_lann_round: a node's first neighbour is its successor, and
\* one that sees no identifier but its own returns -1, the leader.
LeLannRound(i) ==
  LET round == current_round[i]
      seen == {local_data[m.sender] : m \in ThisRound(i)} \cup {local_data[i]}
      leads == round > 0 /\ Highest(seen) = i /\ local_data[i] = i
  IN  /\ SendTo(i, IF leads \/ Neighbors(i) = {} THEN {} ELSE {neighbors[i][1]},
                IF round = 0 THEN 0 ELSE round + 1)
      /\ local_data' = [local_data EXCEPT ![i] = IF round = 0 THEN i ELSE Highest(seen)]
      /\ UNCHANGED <<bfs_parent, depth, reported, current_round, state>>

\* A node returns 0, except one that finds itself the leader.
Returns0(i) ==
  ~(protocol = "LE_LANN" /\ current_round[i] > 0 /\ local_data'[i] = i)

\* The call of the protocol at node i.
Visit(i) ==
  /\ turn = i /\ total_rounds_executed < MaxExecutions
  /\ turn' = i + 1
  /\ \/ protocol = "BFS" /\ BfsRound(i)
     \/ protocol = "LE_LANN" /\ LeLannRound(i)
     \/ protocol = "FLOOD_SET" /\ FloodSetRound(i)
     \/ protocol = "BROADCAST" /\ BroadcastRound(i)
     \/ protocol = "CONVERGECAST" /\ ConvergecastRound(i)
     \/ protocol = "SELF_STABILIZING" /\ SelfStabilizingRound(i)
  /\ done' = done \cup (IF Returns0(i) THEN {i} ELSE {})
  /\ UNCHANGED <<incoming, total_rounds_executed, completed, neighbors, cluster_leader,
                 synchro_type, protocol, input>>

\* The rest of the execution.  Beta's scans drop old messages from the head of a
\* queue, after the protocol had the chance to read them once more.
\* synchro_run_protocol would stop after an execution that moves no node.
Synchronize ==
  /\ turn = N
  /\ turn' = 0 /\ done' = {}
  /\ \/ synchro_type = "ALPHA" /\ AlphaExecuteRound(done) /\ mail' = mail
     \/ synchro_type = "BETA" /\ BetaExecuteRound
        /\ mail' = {m \in mail : m.round >= current_round[m.receiver]}
  /\ UNCHANGED <<treeVars, neighbors, synchro_type, protocol, local_data, reported, input>>

ProtocolNext == Synchronize \/ \E i \in Node : Visit(i)

ProtocolSpec == ProtocolInit /\ [][ProtocolNext]_allVars

--------------------------------------------------------------------------------
\* The nodes a path of d edges with rising identifiers leads to from one of S.
Rising(S, d) ==
  LET nodes[k \in 0 .. d] ==
        IF k = 0 THEN S ELSE UNION {{j \in Neighbors(i) : j > i} : i \in nodes[k - 1]}
  IN  nodes[d]

\* The execution in which v reports: the one in which the reports of all its
\* children can be read, if that is one and the same; MaxExecutions
\* stands for never.
ReportsIn(v) ==
  LET in[u \in Node] ==
        LET arrivals == {IF c < u THEN in[c] ELSE in[c] + 1 : c \in Children(u)}
        IN  IF arrivals = {} THEN 0
            ELSE IF Cardinality(arrivals) = 1 /\ arrivals \subseteq 0 .. MaxExecutions
                 THEN CHOOSE t \in arrivals : TRUE ELSE MaxExecutions
  IN  in[v]

\* Whatever rounds a fault leaves, after as many executions as there are nodes
\* neighbours are at most one round apart for good.  (They need not meet: a node
\* waits in its round until a neighbour has left it, and only then jumps.)
RoundsReconciled ==
  total_rounds_executed >= N =>
    \A i \in Node : \A j \in Neighbors(i) : current_round[i] <= current_round[j] + 1

\* What the protocols reach between two executions.  A search finds a node in the
\* round that is the length of the shortest path with rising identifiers to it,
\* and no other node; a 1 floods along all such paths in the first execution and
\* nowhere afterwards; every node concludes that it leads the ring; the broadcast
\* reaches each level of the tree at the latest one execution after the one
\* above; a node whose children report in different executions never does; and the
\* rounds a fault left are reconciled.
ProtocolOutcome ==
  turn = 0 =>
    LET e == total_rounds_executed
    IN  /\ protocol = "BFS" => \A v \in Node :
             LET lengths == {d \in 0 .. N - 1 : v \in Rising({0}, d)}
             IN  /\ local_data[v] = 1 <=> \E d \in lengths : d < e \/ d = 0
                 /\ local_data[v] = 1 => depth[v] = CHOOSE d \in lengths : \A k \in lengths : d <= k
        /\ protocol = "FLOOD_SET" /\ e > 0 => \A v \in Node :
             local_data[v] = 1 <=> \E d \in 0 .. N - 1 : v \in Rising({i \in Node : input[i] = 1}, d)
        /\ protocol = "LE_LANN" /\ e > 1 => \A v \in Node : local_data[v] = v /\ (Neighbors(v) # {} => current_round[v] = 1)
        /\ protocol = "BROADCAST" => \A v \in Node :
             (InTree(v) /\ depth[v] < e) => local_data[v] = 1
        /\ protocol = "CONVERGECAST" =>
             reported = {v \in Node : bfs_parent[v] # None /\ ReportsIn(v) < e}
        /\ protocol = "SELF_STABILIZING" => RoundsReconciled
================================================================================
