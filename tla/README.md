# Verification of mini-distributed-computing-theory

TLA+ modules, TLC configurations and TLAPS proofs for the C code under `src/`: eight
subprojects, each a library of distributed algorithms with its own types, tests and
demonstrations. No subproject calls another, so the development is eight families of
modules; the modules of a family compose.

Abbreviations below: `ss` mini-self-stabilization-dijkstra, `pr` mini-paxos-raft-formal,
`sy` mini-synchronizer-alpha-beta-gamma, `co` mini-coloring-mis-lower-bounds,
`cf` mini-consensus-fault-tolerance, `by` mini-byzantine-agreement-lower-bound,
`fl` mini-flp-impossibility-proof, `lo` mini-local-model-port-numbering.

## 1. Inventory

### ss: self-stabilization

| part | state | operations | hard behaviour | what makes it correct |
|---|---|---|---|---|
| Token rings (`dijkstra_ring.c`, three variants) | a local state per machine | `ring_step` (one machine), `ring_synchronous_round` (all), `ring_converge_to_legitimate` (a loop) | every interleaving of machines from every configuration | a privilege always exists, privileges never multiply, the ring converges and stays converged, every machine is served |
| Fault injection (`fault_injection.c`) | the ring, counters of recoveries | single, burst, byzantine faults, then the loop again | a fault in any configuration the loop left | each fault is recovered within the budget |
| Transition systems (`state_machine.c`, `self_stabilization.c`) | all configurations of a ring and their successors | closure and convergence checks | exhaustive only for small rings | agrees with the definition of self-stabilization |
| Experiments (`convergence.c`) | a ring, a daemon's choice, counters | one move per step; energy functions | choices made on a snapshot and executed one after the other | convergence within the bound the scheduler states |
| Schedulers (`scheduler.c`) | round-robin pointer, history | central, distributed, synchronous selection with a fairness | starvation | a continuously privileged machine is chosen |
| Applications (`applications.c`) | routing tables, clocks, leaders, trees | rounds of each protocol | corrupted start | the mutual-exclusion application recovers; routing and trees reach the true distances |

### pr: Paxos and Raft with messages

| part | state | operations | hard behaviour | what makes it correct |
|---|---|---|---|---|
| Basic Paxos (`paxos_basic.c`) | ballots, promises, accepted values, learned values | prepare, receive prepare, accept, receive accept, learner receive | messages lost, repeated, late, reordered; competing proposers | one value is chosen |
| Raft (`raft_leader_election.c`, `raft_log_replication.c`, `raft_simulator.c`) | term, role, vote, log, commit index, next and match indexes | timeouts, vote and append requests and replies, client commands | the same, and elections that cross replication | election safety, log matching, leader append-only, leader completeness |
| Multi-Paxos, quorums, Byzantine Paxos | proposals per index; quorum lists; equivocating acceptors | replication, gaps; enumeration; prepare/accept with faults | gaps; Byzantine reports | as basic Paxos per index; quorums intersect |
| Checkers (`tla_model.c`, `invariant_checker.c`, `safety_proof.c`, `flp_impossibility.c`) | an explored state graph | breadth-first search, predicates | none of their own | their predicates are the properties stated here |

### sy: synchronizers

| part | state | operations | hard behaviour | what makes it correct |
|---|---|---|---|---|
| Network (`network.c`) | adjacency lists, queues, rounds | send, consume, drop | messages of other rounds in a queue | only messages of the receiver's round count |
| Alpha, beta, gamma | node states SAFE/WAITING/READY, trees, clusters | one execution of a round; initialisation builds trees and clusters | protocols that do not finish, executions repeated, nodes that crash between executions | a node enters a round only when others completed the last |
| Protocols on top (`distributed_algorithms.c`) | per-algorithm data | BFS, leader election, convergecast, MST, flooding | messages read in the phase that sends them; shared buffers | the results equal those of a synchronous network |

### co: colouring and independent sets

| part | state | operations | hard behaviour | what makes it correct |
|---|---|---|---|---|
| Luby's set (`mis_luby.c`) | membership, activity, ranks | rounds of draws and visits | visits see the earlier visits of their round; ties | independent, maximal, bounded rounds |
| Randomized colourings (`color_luby.c`, `color_randomized.c`) | colours, activity, proposals | rounds per colour; proposals and conflicts | a proposal against colours given in the same round | proper, Delta+1 colours |
| LOCAL simulator, Cole-Vishkin, Linial, deterministic MIS | inboxes; identifiers as colours | rounds; colour reductions | delivery inside a round | every node reads all its neighbours sent |
| Sequential colourings, builders, measures | none | one pass each | orders of visits | proper colourings; the functions agree with each other |

### cf, by, fl, lo

| part | state | hard behaviour | what makes it correct |
|---|---|---|---|
| cf: Raft with direct calls (`raft.c`) | as in pr, no network | a call that stops half way | one leader per term; committed entries survive |
| cf: Paxos with direct calls (`paxos.c`) | acceptors, instances per slot, a learner | a slot proposed again; acceptors shared by proposers | a decision has a majority of one proposal and stays |
| cf: PBFT (`pbft.c`) | views, sequence windows, counts per slot | view changes, checkpoints, repeated messages | what executes was prepared and committed by quorums |
| cf: oral and signed messages (`byzantine_agreement.c`) | relayed values | traitors that tell different lies | agreement and validity up to the stated bounds |
| cf: quorums, Nakamoto chain, queue, detector, log | sets; chains; ring buffer; timers | a composite order; stale blocks; a full buffer | quorums meet; blocks follow their parents; first in, first out |
| by: phase protocols, EIG, automata, finality | values, phases, information trees, epochs | Byzantine messages, coins, reads within a round | agreement and validity with n > 3f; what is final stays |
| fl: configurations and valence | processes, message buffer | every schedule; searches that see a part | safety of the six protocols; the searches cover what can be decided |
| lo: port-numbered LOCAL algorithms | node states, ports | symmetric networks, sweeps in place | the outputs solve their problems |

`PROJECT.json` lists every component with its status, and every hazard at its line.

## 2. Plan

Done first: token rings and their recovery loop, the synod, Raft, the synchronizers, randomized
symmetry breaking, Raft with direct calls, each with the theorems named below. Done since, in
this order:

1. `ss` the scheduler and its experiment, the checks of transition systems, the search for
   attractors, the applications: `RingScheduler`, `RingChecks`, `RingApplications`, composed with
   `RingRecovery` in `RingCallers`.
2. `sy` the protocols over the synchronizers as a layer on `Synchronizers`: `SyncProtocols`.
3. `lo` and the deterministic half of `co`: `LocalGraph`, `PortNumbering`, `LocalProblems`,
   `GraphUtils`, `SequentialColoring`, composed in `SymmetryBreaking`.
4. `cf` the other systems, with the quorums and the Byzantine Paxos of `pr`: composed with
   `CftRaft` in `ConsensusVariants`.
5. `by`: `PhaseProtocols` and `BlockchainFinality`, composed in `ByzantineAgreement`.
6. `fl`: `FlpExplorer`. `pr`: what Multi-Paxos reads off the acceptors, in `PaxosSynod`.

Proved, each for every value of the constants: the rings with their recovery loop, scheduler, experiment
and applications; the synod; Raft's elections and logs (`pr` and `cf`); the synchronizers, their
trees and the protocols over them; Luby's algorithms; the other consensus systems of `cf`; the phase protocols and the rules of
finality of `by`. Sections 3 to 10 give the arguments, section 13 what stays with TLC.

Left: the protocols of `fl`; the colourings of `co` and `lo` that do not fold over data; the log of
Multi-Paxos as a composition of synods, one per index, which the code does not implement (its
acceptors keep one value for all indexes). What will not be modelled is listed in section 13.

## 3. Token rings (ss)

`DijkstraRing` holds the three algorithms as operators on a configuration: guards
(`ring_compute_privilege`), commands, `Step` (`ring_step`), `SynchronousRound` and `Energy`.
Both ways to move are one operator, `Move(s, M)`: the machines in `M` read `s` and write together.

`RingDaemon` is the ring under an adversary: any privileged machine moves, or all do. Its names begin
with `Daemon` or `ring`, so that `RingProofs` can speak of it and of the loop together.
`RingRecovery` is the deterministic loop `ring_converge_to_legitimate`, started again after each
fault by the callers in `fault_injection.c` and `applications.c`; its daemon always moves the
privileged machine of least index, as the scan in the code does.

`RingScheduler` is the daemon of `scheduler.c`, driven in a loop: the caller hands over the
privileges, the daemon selects under its type and fairness policy, the caller executes and
records. The caller is the experiment of `convergence.c` or anybody with any privileges. Only the
order of executions matters to a selection, so `last_executed` is, for each machine, the set of
those that executed later (`later`), and a selection is the set of machines the loop goes through
in ascending order. The experiment moves the selected machines one after the other although they were selected on one
snapshot; a machine that lost its privilege meanwhile does nothing.
`RingChecks` is what the repository computes about rings: the transition system with its closure,
convergence and distance verdicts, the measures of a configuration, and Tarjan's search for
attractors, one call of its recursion at a time. `RingApplications` has the distance-vector routing, the
spanning tree and the clocks, a round per step. `RingCallers` composes them with
`RingRecovery`: one caller runs at a time, the others keep still.

| run | shows |
|---|---|
| `ring_kstate_n4` | K-state, N = 4, K = 5, all 625 configurations, any mixture of central and synchronous moves: no deadlock, no new privilege, the token of a legitimate ring goes to the next machine, convergence, and service of every machine for ever |
| `ring_callers` | 3-state, N = 4. Recovery: two faults (single, burst or Byzantine), a convergence moves at most N-1 machines, so a budget of 4 recovers from everything, and the loop ends. `ExperimentsServe`: round robin passes a machine that stays privileged over at most N-1 times; the experiment is legitimate within N-1 rounds under the central daemon and within N(N-1) under the others, and counts every move it makes. `ChecksAgree`: the verdicts on a configuration agree with each other and with the ring, and the search finds exactly the sets of configurations that reach each other and nothing else. `ApplicationsRecover`: routing and the tree have the true distances within N rounds, neighbouring clocks are at most one apart within (N-1) times the largest clock |

Bounds. Configurations are enumerated in full. N = 4 with K = 5 is the least ring with two middle
machines, K > N as `ring_init` demands. For recovery two faults are enough: a convergence
starts from an arbitrary configuration in any case, so the second only shows that counters are
reset. The search for attractors runs on the ring's own transition system and on every graph
of four configurations (`FourNodeGraphs`), because a ring gives it few shapes to work on. Twelve
rounds (`MaxAppRounds`) let the longest repair of a line of four end; clocks start at 0..4.

Fairness. `WF_vars(Next)` in the `Spec` of `RingDaemon` and weak fairness of the loop in
`RingRecovery` and `RingCallers`: the loops that drive a ring take a further step as long as they
are allowed one. Nothing is assumed about
which machine moves; convergence and `EveryMachineServed` hold for an unfair daemon. `Inject`
has no fairness.

With five machines and three states a central daemon can avoid convergence for ever, against
the README of `ss` ("K = 3 states are sufficient, independent of N"). That is a finding,
seen by giving `RingDaemon!CentralSpec` these constants; no run of the project keeps it.

The code's 4-state variant is in the operators (`Variant = "4STATE"`); its closure fails and the
theorems exclude it by an assumption in their statement. The code accepts it for N = 2 too,
where a configuration without privilege exists; `Return` has the "deadlock" exit for it.

**Proved** (`RingProofs`), for all N and K that `ring_init`
accepts: type correctness, deadlock freedom, tokens never increase, closure, circulation of the
token (all of `DaemonSpec`); that the loop moves at most N-1 machines and therefore recovers from
every fault when its budget is N or more; and that between faults every step of the loop is one of the
daemon's (`LoopIsCentralDaemon`), so what is proved of the daemon's moves holds of the loop's too. The arguments:

- *deadlock*: without a privilege each machine equals its predecessor, so the bottom equals the
  top, which is its guard. Equality along the prefix uses a least counterexample, not induction.
- *tokens*: after the machines of `M` move, the privileges are among the old ones outside `M` and
  the successors of those in `M`, so their number does not grow (`PrivilegesAfterMove`).
- *recovery*: the inductive invariant is `CopiedPrefix`. After t moves the machines 0..t-1 hold
  the bottom's state; the first privileged machine is then t or the bottom, and the bottom only
  when the ring agrees, which is legitimate. The bound on steps alone is not inductive: it needs
  to know how far the bottom's state has been copied.

- *scheduler and experiment* (`ExperimentsAlwaysServe`): a machine that round robin passed over so many times
  has as many others that executed after it or are about to (`WaitInv`, with `LaterOrders`). Under the central
  daemon the experiment is the recovery loop (`CentralInv`). A round of another daemon sweeps the ring in
  place; a state of the bottom that nobody beyond the settled machines holds comes nearer, or one more
  machine settles (`Settling`; `Crowded` is the start of a ring of four with three states, which may have no such state). With
  three states and more machines the sweeps may go round for ever; the property excludes that case.
- *applications* (`ApplicationsAlwaysRecover`): each round routing becomes right for destinations one step further
  away (`RightWithin`), the tree rules out one more distance that is too short (`NotBelow`), and while
  neighbouring clocks are not `Near`, a clock comes one tick closer to the largest (`Lags`).

Convergence under the adversary and service of every machine are model-checked only (liveness), and so
is `ChecksAgree`: Tarjan's search is recursive over the graph, and the checks enumerate its configurations.

## 4. Paxos synod (pr)

`PaxosSynod` has one action per handler of `paxos_basic.c` over a set of messages from which
nothing is removed, so a message may be delivered late, repeatedly, in any order or never. The
proposer's caller is `paxos_run_instance`: it calls `paxos_accept` once per ballot, on the
promises of a majority; the calling discipline is the guard of `Accept`. The acceptor follows the
code in *not* raising its promise when it accepts, and the learner in learning the first report.

`ConsensusChoice` is the abstract specification: a value is chosen at most once. `MCPaxos` maps
its `chosen` to the values some ballot's majority accepted and checks `ImplementsConsensus`:
the refinement, that a chosen value is the only one proposed later, and `LogAnswers`.

Multi-Paxos (`paxos_multi.c`) keeps no acceptor state per log index: what it reads, it reads off
the acceptors of one synod. `IsLeader`, `EveryIndexChosen` and `CountChosen` are those readings, and
`LogAnswers` says what they mean in every state: a proposer that may send ACCEPT messages leads,
what the chosen index calls chosen is, and what is chosen is counted. The converses are false.

| run | shows |
|---|---|
| `paxos_two_ballots` | two proposers, a ballot each, three acceptors, a learner, two values: the synod implements consensus; acceptors of one ballot agree (`paxos_verify_safety_invariant`); a chosen value is the only one proposed later; what is learned was proposed; Multi-Paxos's readings are true |
| `paxos_three_ballots` | expected violation: with three ballots two values are chosen. An acceptor accepts ballot 2 without having promised it, then the late ballot 1, and reports the lower one to the proposer of ballot 3 |

Two ballots are the largest instance for which agreement holds, three the least in which it
fails; both are below what `MAX_NODES` rounds allow. Acceptors and values are symmetric, and no
property tells them apart. Ballots stop the model, so deadlock is not checked.

**Proved** (`PaxosProofs`, which extends `MCPaxos` for the refinement mapping), for any proposers,
acceptors, learners, values and ballots: `TypeCorrect`, `SafetyInvariant` (`SameBallotSameValue`), `Validity`,
`LogAnswersHold`, and what can be had of agreement.
- *One value per ballot*: `IInv` adds that a ballot belongs to its owner and is spent by one ACCEPT
  message (`BallotIsSpent`, `OneValuePerBallot`, `OwnBallot`), and that what an acceptor holds or
  reports was sent (`HeldWasProposed`, `ReportWasProposed`).
- *Readings of the log*: `VInv` adds that a promise is kept and what it reports was reported
  (`PromiseKept`), that an acceptor holds something just when it reported something
  (`HoldsWhatItReported`), and that whoever is in phase 2 leads (`ProposersLead`).
- *Agreement* fails, as `paxos_three_ballots` shows, and `AgreementIfHighestReported` says that it
  fails in this one way only: as long as every promise reports the highest vote of its acceptor
  (`HighestReported`), two values are never chosen. The induction is Paxos's own: a value is
  proposed only where no other can have been chosen below (`SafeAt`).
- From it follow two refinements of `ConsensusChoice`, each step by step: of the code as it is with
  at most two ballots (`TwoBallotsImplement`), and with any number of them were `accepted_ballot`
  never lowered (`ImplementsIfAcceptedGrows`). The hypothesis of the second is the comparison
  `paxos_receive_accept` does not make. Agreement is not a theorem of this code without one of them.

## 5. Raft (pr)

`RaftRpc` has one action per handler, with the request and the reply as separate messages that
the network loses, repeats, delays and reorders. `raft_tick` is `ElectionTimeout` and
`SendAppendEntries`; timers run out at any moment. Two conventions of the caller are modelled as
the headers and `raft_simulate_cluster` give them: votes are counted once per server and only for
the candidate's term, and an append request names no receiver. Kept from the code: the candidate's last
index counts from 1 and the voter's from 0 (`LogOk`), a mismatch leaves the bad entry in
place (`HandleAppendEntries`), a leader credits a follower with the log it has when the reply arrives
(`HandleAppendReply`), and `commit_index` may exceed the length of a log cut afterwards.
The simulator's own loop calls the handlers synchronously, in one of the orders modelled. It
promotes a candidate without looking at its state again (`raft_simulator.c:213`); as every server
hears of a term in the step that opens it, the promoted server is still that term's candidate.
A cluster of one server never elects: the majority is looked at only when a reply comes in.
`state`, `voted_for` and the log survive in the program for as long as the process does; the
code has no restart, and none is modelled.

| run | shows |
|---|---|
| `raft_rpc` | three servers, terms 0..2, logs of two entries, two messages in the network at a time: at most one leader per term, matching logs, append-only leaders |
| `raft_committed_lost` | expected violation: `LeaderCompleteness`. A late reply to an empty request commits an entry only the leader has |

Bounds. Two terms allow a leader to be replaced by one with another log and the old
one to return. Two messages at a time let a request overtake a reply; a message may stay for
as long as it likes, and be received again. In `MCRaft`, servers are symmetric
(no CHOOSE ranges over servers), and the VIEW leaves out `next_index` and `match_index` of
servers that do not lead and `votes` of those that are no candidates: `BecomeLeader` and
`ElectionTimeout` write them before they are read, and no property mentions them.

**Proved**, for any finite set of servers, any terms, entries and messages; the bounds are used only
where a type names them.
- `ElectionSafe` (`RaftProofs`). `ElectionSafety` is not inductive: `IInv` says that a granted vote is
  remembered by its sender until its term grows (`VotesRemembered`), that a server's granted
  messages and the counted votes of one term go to one candidate (`OneVotePerTerm`), and that a
  leader had a majority (`LeadersElected`). Two majorities share a voter (`MajoritiesIntersect`, by
  cardinalities), which voted for one.
- `TypeCorrect` (`RaftProofs`): `TypeOK` needs `Fit`, that no request reaches further than a log can.
- `LogsMatch` and `LeadersAppendOnly` (`RaftProofs`). A request may arrive when the log it was cut
  from has long been replaced, so the invariant is about fragments, the logs and the requests
  alike: where two hold an entry of the same index and term they agree below (`LogsAgree`). This
  survives an append only if no two servers append in one term, for ever, not just at one time:
  `TermsLed` says that each term in an entry is settled, a majority having voted for its leader
  or being past voting in it. `LeaderHasOwn` says that a leader has all entries of its term.

Committed entries are lost by this code (`raft_committed_lost`), so leader completeness is no theorem.

## 6. Synchronizers (sy)

`SyncNetwork` is the network and what ends an execution; `TreeSynchronizers` breadth-first trees,
clusters, convergecast and broadcast, with beta and gamma on top; `Synchronizers` adds alpha and
composes them: a network under one of the three, driven by calls of `synchro_execute_round` with
crashes between the calls. `SyncProtocols` runs the protocols of `distributed_algorithms.c` over
alpha and beta.

An execution is one action, since the code runs its phases to the end without returning to its
caller. Within it the phases are the definitions `AfterProtocol`, `SafeMessages`,
`StartWaiting`, `AlphaReady` and `Reports`, `Pulsed`. The trees are computed by recursive
functions over the steps of the search, in the order of the adjacency lists (the latest edge
first, as `network_add_edge` builds them). A queue is scanned only for messages of one type and
of the receiver's round, so the queues are one set of messages, and a message whose receiver
has left its round is dropped from it: nothing will count it. A repeated message differs in
`sent_in`, the execution that sent it, because beta and gamma count repetitions.
In `Synchronizers` a protocol is its result only: alpha looks at it (`done`), beta and gamma do not.
A crash sets the node's state, as the fault model of `synchro.h` describes; the code reads the
state and has no function that sets it, so crashes are an event from outside. `completed` is a
history variable.

In `SyncProtocols` the phase that runs the protocol is taken apart: a call for one node is one
step, in the order of the nodes' identifiers, because a message is in its receiver's queue as soon as it is sent, and
a later node reads in the phase in which an earlier one wrote. What ends the execution is
one further step, `Synchronizers`' own. `protocol` says which of the six runs: breadth-first search,
LeLann's election, flooding of a set, broadcast, convergecast, or self-stabilizing
rounds after a fault.

| run | shows |
|---|---|
| `synchronizers` | every graph of four nodes, three executions, at most one crash, cluster sizes 1 to 4. `AlphaTwoHop`: a node enters a round only when its neighbours and theirs completed the last. `AlphaProgress`: when all protocols finish, the nodes furthest behind move, whatever is left in the queues. `BetaParentLeads`: the order of rounds in the tree. `TreesCarryRounds`: trees and clusters have true distances, beta moves in lock step at 2(n-1) messages a round, one-node clusters cost gamma what alpha's exchange between neighbours costs each way, and one cluster what beta costs |
| `protocols` | every graph of four nodes, six executions of each protocol. `ProtocolOutcome` says exactly which nodes the search and the flood reach (those on paths of rising identifiers), when the broadcast arrives, which nodes ever report in the convergecast, that every node elects itself, and that the rounds of neighbours end at most one apart |

Beta's barrier for children does not hold: a child that reported in two executions of one round
is counted twice and stands in for its crashed sibling. That is a finding without a run;
`BetaParentLeads` is what remains.

Bounds. Graphs of four nodes include those with two hops, cycles with chords, isolated nodes
and several components. Three executions let a node be two ahead of another
component, and messages of an earlier execution be read in a later one. Six are enough for the
slowest protocol on four nodes to come to rest. Edges are added in one
order. Executions stop the model, so deadlock is not checked. No fairness is needed: progress
is stated as what one execution does.

Gamma's barrier is not stated as a property: its cleanup advances every node that has not crashed, whether the
pulse reached it or not (a divergence recorded in `PROJECT.json`).

**Proved** (`SynchronizerProofs`), on every network, for any protocols, crashes and number of
executions of the synchronizers, and for the protocols over them. The proofs use
`SynchronizerAssumption`: the adjacency lists name nodes of the network, and `network_add_edge` refuses an edge from a node to itself and puts any other into both lists.
- `AlphaIsTwoHopBarrier`. `AlphaTwoHop` is not inductive, for a node enters a round because of the
  messages in its queue. `AlphaInv` says what a message stands for: a SAFE vouches for its sender's
  round (`SafeVouches`), an ACK for that of the sender and all its neighbours (`AckVouches`), and a
  node in SAFE or WAITING completed the round it is in (`SafeCompleted`). The rounds a
  message vouches for stay completed, so it does not matter in which execution it is read.
- `AlphaNeverStalls`. For progress the messages must not only be true but there: a node has in its
  queue what it needs of a neighbour that is ahead of it (`AheadHeard`) or waits (`WaitingHeard`),
  although messages of rounds left behind are dropped.
- `BetaFollowsParent`. A pulse vouches for its sender having left the round it was sent in
  (`PulseVouches`). That the tree's parents are nodes is proved of the search that builds it, whose
  recursions over queues and lists are shown to have solutions (`Recursion`, `SearchTyped`, `PulsedRule`).
- `TreesAlwaysCarryRounds`. The search keeps its queue in the order of depths, which differ by at most one
  (`SearchInv`, of `TreeFrom`, `InLine` and `Seen`), so depths are distances (`DepthIsDistance`); each cluster's search stays
  within what its leader reached (`ClusterLeaders`). Reports and pulses are fixed points over the tree
  (`ReportsRule`, `PulsedRule`): everybody reports, by descending depth (`ReportsAll`), and is pulsed, by ascending
  depth (`PulsesAll`). Messages are counted by pairing them with the edges of the tree or the graph (`TreeCost`, `EdgesCost`).
  The invariant is `CarryInv`: until a node crashes, each tree is in one round with nothing under way (`Still`).
- `ProtocolsReachTheirOutcome`: `ProtocolOutcome`, of `SyncProtocols`, where nobody crashes but any number of
  executions is made. Each protocol has an invariant that says exactly what its messages and its
  nodes' data are between two calls of an execution; `OutcomeInv` is their conjunction.
  - Search and flood (`SeekInv`, `FloodInv`): all nodes are in the same round (`LockStep`), which says of
    every queue what is in it (`Searches`, `Heartbeats`). A node hears in this execution the neighbours
    below it, and those above it only in the next, too late. So the flood takes every path of rising
    identifiers in one execution (`FloodedRule`), the search one edge of it an execution (`Away`), and
    no such path has N edges.
  - Election (`ElectInv`): no queue ever holds a message of the round that is read.
  - Broadcast (`CastInv`): a node of the tree is told one execution after its parent (`Told`).
  - Convergecast (`GatherInv`): `ReportsIn`, which says in which execution a node reports, is recursive over the
    tree; it has a solution by descending depth (`ReportsInRule`). What a parent has in its queue is what
    its children sent since (`Pending`, `Arrival`).
  - The self-stabilizing rounds (`FaultInv`): from the first execution on, rounds do not fall along an edge from a
    lower to a higher identifier; and while a gap wider than one lasts, each execution puts one more
    node on its far side (`Since`, `HowMany`), so that N executions close all.

## 7. Symmetry breaking (co, lo)

`LubyRound` is what the randomized algorithms share: a round draws a rank for each vertex in play and visits
the vertices in order, each visit seeing those before it. `LubyMis` is `mis_luby_randomized`,
`LubyColoring` has `luby_style_coloring` and `randomized_delta_plus_one_coloring`; one step is one
visit. Random draws are choices from `Rank`, ties included.

`LocalGraph`, `PortNumbering` and `LocalProblems` are `lo`: its contexts and measures, the
numberings, views, classes and coverings, and the algorithms (colourings, independent sets,
matchings, covers, dominating sets, orientations, trees, sorting). `GraphUtils` and
`SequentialColoring` are the deterministic half of `co`: builders, verifiers, views, sequential and
Cole-Vishkin colourings, deterministic sets, and its LOCAL simulator running a flood. A call of a
round function is one step. Where the code sweeps over the nodes and writes what later nodes
read, the step folds over the nodes in their order (`Sweep`), which is where these algorithms differ from
the synchronous ones their comments describe. `SymmetryBreaking` runs one algorithm on one graph.

| run | shows |
|---|---|
| `symmetry_breaking` | `Independent`, `Maximal`, `RoundsBounded`: Luby's set is independent throughout and maximal with dominators at the end, and each round takes a vertex. `Proper`, and in `ColouringsDeliver` that Delta+1 colours complete Luby's. `ProblemsSolved`, `ColouringsDeliver`: what each algorithm of `lo` and of `co` returns when it ends, checked by the repository's own verifiers and by definitions; where the code misses its purpose the property says how far it gets. `StructureAgrees`: the functions on graphs, which the two subprojects write twice, agree with each other and with the definitions of the measures |

Bounds. A path, a star, a triangle with a tail, a cycle and the complete graph of four vertices, numbered
so that a vertex visited late decides for one visited early and the other way round; two
separate edges and a hexagon besides for the deterministic ones. Three ranks give all orders of a
vertex and two neighbours, with ties. Rings of 9 and 17 are the least on which the colour
reductions take more than one pass. The simulator and the runtime are called for three rounds, by
when a flood on four vertices is over.

**Proved** (`LubyProofs`), on every finite graph and for all integer ranks: `MisIndependent`,
`MisRounds`, `MisMaximal`, `LubyProper`, `RandomProper`. Independence needs `Separate` (the
neighbours of members are out of play), maximality `Covered` (out of play means member or
neighbour of one) and `Stopped`; the bound on rounds needs `Outranked`: until the round's first
joins, every vertex already visited has a neighbour in play of higher rank, and so a vertex of highest rank
is still to come (`HighestRank`, `SomeoneJoins`). These theorems are about `MisSpec`,
`ColoringSpec` and `RandomSpec`, the algorithms alone; the run composes their actions unchanged.
`Complete` (in `ColouringsDeliver`) is model-checked only: the code gives up on a colour after 100
rounds, which a large graph could reach. So is everything about the deterministic algorithms.

## 8. Raft with direct calls (cf)

`CftRaft` is `raft.c` of `cf`, a second and independent Raft: `raft_start_election` and
`raft_append_command` call the handlers of the other servers, in the order of their ids, and
give up at the first that has a higher term. One such call is one action (nothing returns to a
caller before it ends), and what is hard is the call that ends half-way. `Contacted(s)` is
the set of servers visited, `Ahead(s)` those that would stop the call, and the action writes
what each visited server's handler wrote: the term and the vote of a voter, the log a follower
makes of the entries (`Replicated`), its commit index. A server named in `Contacted` is never
`Ahead`, so a visit does not change which servers are visited later, and the visits can be
written together. Kept from the code: a leader stopped by a higher term becomes a follower
*in its own term* and forgets its vote, while a candidate takes the higher term; the mismatch path cuts
the follower's log and the leader backs up by one; a leader counts itself in `match_index` only
after a command.

No function of the library puts a server into the state CANDIDATE; its callers do, as
`tests/test_consensus.c:191-193`: `Timeout` is that. `votes_received`, `leader_id`, `received_heartbeat` and
the statistics are written and never read, and are left out; the membership functions check
their arguments and return. `elected` is a history variable.

The run is `consensus_variants` of the next section. `LogsSurvive` is `LeaderCompleteness` (what a
leader regards as committed is on a majority, `raft_verify_leader_completeness`) and
`StateMachineSafety` (applied entries agree and stay, `raft_verify_state_machine_safety`).

Bounds. Three servers, terms 0..3, logs of three: a leader can be replaced twice and the first
return, and one committed entry lie under two that differ. Servers are numbers and visited
in order, so they are not symmetric.

**Proved** (`CftRaftProofs`), for any number of servers and with no use of the bounds:
- `ElectionSafe`. The winner of an election has visited every server, so nobody is behind an election that was
  won (`Informed`); while nobody is ahead of it either, a majority remembers its vote
  (`Remembered`), because the only steps that forget one in the same term happen when somebody
  is ahead. A second election in a term would need nobody ahead and a second majority.
- `LogsSurviveAll`. Logs that share a term are the same below its entries (`LogsCompatible`), what a leader
  knows of the others' logs is so (`Matched`), and a committed entry cannot be lost (`Stable`): a majority
  has it, and so has every log with an entry of a higher term and every leader of a higher term. A
  candidate that wins took a vote from that majority, and the comparison of last terms and lengths
  gives it the entry (`WinnerHasStable`). A command that stops half-way leaves some followers with the
  leader's log and the rest as they were; each conjunct has a lemma for it (`CommandKeeps...`).

## 9. The other consensus systems (cf, pr)

Each of these is a module of its own; `ConsensusVariants` chooses one, which runs while the
others keep still.

- `DirectPaxos` (`paxos.c`): acceptors that answer calls, shared by a multi-Paxos leader, by instances
  that run on copies of them, and by a proposer that contacts one acceptor at a time. The
  leader sends every proposal of every slot under one number, and the learner counts acceptances
  of any number; both are kept.
- `PbftReplicas` (`pbft.c`): windows of sequence numbers with counters that are neither
  deduplicated nor moved with the window, checkpoints and view changes. Requests and view changes
  do not influence each other in the code (the view decides nothing), so `concern` explores them apart.
- `ByzantineGenerals` (`byzantine_agreement.c`, and the bounds of `consensus_types.c` and
  `consensus_model.c`): OM(m) by a recursive function, SM(m), their verdicts, and the bounds the
  directory states separately.
- `QuorumSystems` (`quorum.c`; `quorum_system.c` of `pr`): majorities, grids, masking
  quorums and planes of the orders given, and the register kept on the first quorum.
- `ByzantinePaxos` (`byzantine_paxos.c` of `pr`): certificates over a network that keeps, repeats and
  reorders replies, one acceptor with any of the faulty behaviours.
- `NakamotoChain` (`nakamoto.c`): mining, blocks that arrive late, fork choice and adoption.
- `MessageDelivery` (`consensus_model.c`, `consensus_types.c`): the ring buffer, delivery to live
  nodes, the Omega detector and the replicated log.

| run | shows |
|---|---|
| `consensus_variants` | `ElectionSafety` and `LogsSurvive` of section 8. `FaultBoundsHold`: loyal lieutenants follow a loyal commander, the directory's bounds agree with each other, quorums meet just when the construction allows, and a read returns the last write. `DecisionsCertified`: decisions of Paxos agree and stay as long as the leader sends one value; what PBFT executes stands on 2f+1 replicas, as long as messages are not repeated and until a checkpoint moves the window; a proposal of Byzantine Paxos is finished by 2f+1 acceptors of its own ballot, and two certificates of 3f+1 acceptors share one that does not lie. `HistoriesKept`: blocks stay linked and chains only improve; the queue holds what was accepted and not taken, in order; the log does not lose track of what it cut |

Bounds. Each is the least at which the case in question happens: two slots and two values for a
slot proposed again; a window of three for a number read again after a checkpoint, and six messages
for a certificate to fill; seven processes and two relays for OM(2), and orders 2, 3 and 4
for a plane of a prime and of a composite order; two ballots each for two proposers and one
liar among four; chains of three blocks for a fork two deep; five messages to wrap a ring of two. An index has 16 values (`IndexRange`)
for the 2^64 of the code: any number above the length of the log shows the wrap. All systems
stop at their bounds, so deadlock is not checked.

**Proved** (`VariantsProofs`), for any number of processes and whatever the bounds: `DecisionsStay`
(`DecisionsCertified`) and `HistoriesStay` (`HistoriesKept`). Each system has an invariant of its own
variables, which the others leave alone (`VariantSteps`).
- *Paxos* (`PaxosDecides`). Numbers are compared by their ranks, of which the leader's is 2. A value is
  chosen under a rank (`ChosenAt`) if a majority accepted it at that rank or since, and neither what an
  acceptor accepts nor what the proposer has seen or proposed is anything else. Each action keeps it
  chosen (`ChosenStays`), also the calls that stop half-way and the instances on copies. That the
  leader cannot decide once the other proposer has a value is `LeaderLost`: a majority of promises was taken from it.
- *PBFT* (`PbftStandsOnQuorums`). Counters are not sets, so the invariant equates each with the number of
  replicas it was raised by (`CountersStand`), until the window moves; a window moves only after an
  execution, and the first execution was on a quorum (`ExecutedOnQuorum`).
- *Byzantine Paxos* (`CertificatesAreSound`). Certificates are genuine: each member's answer, of the
  proposer's ballot, is in the network (`CertificatesCurrent`), and an answer tells how its sender
  behaves (`PromisesTell`). Two sets of 2f+1 among 3f+1 share f+1 members (`SharedMembers`), one of which does not
  lie. With more acceptors the quorums of the code are too small for that, against its comment (a finding in `PROJECT.json`).
- *Queue, detector, log* (`QueueIsFifo`). The k-th waiting message is k-1 places from the head (`RingHolds`), where
  places are counted modulo the capacity (`Places`).
- *Chains* (`ChainsStayLinked`, `ChainsGetBetter`). Every block is one higher than the block whose hash
  it names, on a chain or on its way (`Follows`), and a chain takes only blocks that name its tip (`Linked`); going down
  from a common block the hashes force the same blocks (`CommonPast`). The work of a chain grows by
  that of the block added (`WorkAdds`), and of finitely many chains ordered by work and length one is best (`BestChainExists`).
- *Bounds* (`FaultBoundsStand`). An honest lieutenant ends with what its commander told it, whatever is
  relayed (`OralMessagesTold`): the recursion of OM(m) has one solution (`AreOral`), by a least counterexample on
  the relays left. Majorities and masking
  quorums meet by counting; the lines of a plane (`Slope`, `Vertical`, `AtInfinity`) meet if its order is a prime, for then
  slopes can be divided by, and two of them do not if it is composite, which the code accepts. A read
  returns the last write because both go to the first quorum (`QuorumsInv`). `QuorumsAssumption` has the sizes that
  the constructions refuse.

## 10. Byzantine agreement and finality (by)

`PhaseProtocols` has the system all protocols share (processes, the faulty among them, values and
decisions) and one step per phase or round of Phase King, Ben-Or with its coins, Dolev and Strong's
signed chains, exponential information gathering, the message automata, and the phases of Paxos
and PBFT that `consensus_types.c` keeps in one state. Reads within a round are kept: a process that
is handled later in a round sees what earlier ones did, which lets Dolev and Strong's chains grow by
more than one signer. The information tree is a recursive function over paths.
`BlockchainFinality` has Casper's justification and finalization, Tendermint's steps through rounds and
heights, and the atomic swap. `ByzantineAgreement` runs one of them.

| run | shows |
|---|---|
| `agreement` | `AgreementAndValidity`: correct processes that decide agree, on their common value if they have one (under Dolev and Strong, if all that are not crashed have). `Dissemination`: one phase of Phase King makes all estimates equal; Ben-Or's correct processes decide together; each process has everybody's value after one round of Dolev and Strong, with only chains that verify; and the EIG tree of four processes resolves to nothing. `SettledAndHeld`: automata settle; a Paxos decision is what the processes hold and what stands proposed, and changes only when a caller accepts another value; once PBFT committed, a quorum holds the primary's value. (Decisions do not last: an accept takes any value, and a pre-prepare replaces what was counted.) `FinalityRules`: finalized epochs only grow, Tendermint commits what two quorums voted for, and Bob is never paid unless Alice revealed the secret (but may go unpaid when she did) |

Bounds. Systems of 3, 4 and 5 processes, with f up to a third and beyond it, every assignment of
faults and of initial values; four rounds of the protocols that do not end by themselves;
five epochs, three heights of two rounds, two blocks.

**Proved** (`AgreementProofs`), for any processes, faults, values and numbers of rounds: `DecidedAgree`
and `AgreementKept` (`AgreementAndValidity`), `DisseminationKept` (`Dissemination`), `DecisionsHeld` (`SettledAndHeld`) and
`FinalityKept` (`FinalityRules`). Each protocol has an invariant, over the variables all share.
- *Phase King* (`KingInv`): one phase makes all estimates equal, and equal estimates stay; what is decided
  is the estimate.
- *Ben-Or* (`BenInv`): the correct decide together or not at all. Validity needs binary values
  (`phase_protocols.h:151`) and 2f < n (`consensus_types.c:81`); it is false otherwise, for example with n = 5 and f = 3.
- *Dolev and Strong* (`DsInv`): whoever is not crashed holds valid chains, from the first round on one from each
  that is not crashed, and decides one value.
- *EIG* (`EigInv`): the tree of at most four processes resolves to nothing, whatever the faulty one says.
- *Automata, Paxos and PBFT phases* (`AutoInv`, `PaxosInv`, `PbftInv`): taking majorities of majorities has period one or two;
  the processes that take part hold one value.
- *Finality* (`FinalityInv`): epochs only grow, what is committed was precommitted, and Bob's payment
  comes after the secret.

## 11. Asynchronous schedules (fl)

`FlpExplorer` has a configuration as processes and a bag of pending messages, the six protocols as one step
function each, and any pending message delivered next, or a process that has not started started: every
asynchronous schedule. `CanDecide`, `Bivalent`, `GraphNodes` and `Preserving` are the searches the
code makes over the same steps, with their order of delivery, their depth and the configurations
they leave out because they look like others. `can_decide` remembers what the search said when the
run started.

| run | shows |
|---|---|
| `flp_explorer` | `SafetyLeft`: which of agreement and validity asynchrony leaves to each protocol. `LivenessLeft`: who has decided once everything is delivered. `DecisionsStay`. `SearchForesees`: the search covers whatever process 0 decides in any run. `SearchAnswers`: the searches agree with each other, and see nothing before the first steps, when nothing is pending |

Bounds. Two and three processes, tolerating one fault, or two of three. The searches are compared on
flood-set with n = 2 and 3 at depth 4, where a process decides within the depth. No
fairness is needed: termination is stated of the states in which nothing is left to deliver.

## 12. Mutants and findings

Every property of a passing run has a mutant in `PROJECT.json`: a definition of the model
changed as a likely bug in the code would change it, under which the property fails. A property
that speaks of several protocols has several. The mutated
forms stand next to the originals, each marked "mutant". They are part of no specification.

`PROJECT.json` also lists where the code and its documents disagree. Two of these findings have a run with a counterexample
(`paxos_three_ballots`, `raft_committed_lost`); the others were
found while translating a function and are visible in the model at the definition the finding
names. Where the code does less than it says, the property of the passing run states what it
does (`ProtocolOutcome`, `ProblemsSolved`, `SafetyLeft`), so that a change of the code shows.

## 13. Limits

What is not modelled, and why:

- *GHS fragments and the sensor maximum* (`sy`) read payloads through pointers to locals that
  are dead by then: their results are whatever the stack holds.
- *The log of Multi-Paxos* (`pr`): the acceptors hold one value for all indexes, so appending
  two commands is no run of the synod.
- *Generic guarded machines and their composition* (`ss`) run callbacks of the caller; *edge
  removal, the diameter and the topology generators* (`sy`) are used by demonstrations.
- *Walks over a built graph, crashed processes* (`fl`): the walks change nothing; a crashed
  process takes no steps, which every prefix of a schedule shows already.
- *Scripted scenarios of impossibility proofs, the failure detector and CAP verdicts* (`by`): fixed
  data with a verdict attached.
- *The model and invariant checkers of `pr`* are predicates over states given to them; what they
  evaluate is stated of `PaxosSynod` and `RaftRpc`.
- *Probabilities, expected values, bounds on round counts, revenue, availability*: floating-point formulas.
- *Statistics, printing, demonstrations, the Lean files*: nothing in them interleaves or fails.
- *Allocation failures and argument checks*: the models start from successfully initialised
  systems and call functions with valid arguments.

What is checked but not proved:

- liveness under fairness (`Convergence`, `EveryMachineServed`, `RecoveryTerminates`), for which the
  proof system has no rule;
- `ChecksAgree`, `ProblemsSolved`, `ColouringsDeliver`, `StructureAgrees`: what recursive operators, folds and searches compute
  on every input is induction over data, which the provers cannot do. Recursions over an interval of
  numbers, or over a tree by its depth, are within reach by a least counterexample (`UpTo`, `Recursion`, `ReportsAll`);
- the properties of `FlpExplorer`, whose searches are recursive.

## 14. Running

In this directory: `tlc -workers 2 -config <run>.cfg <module>.tla` (the pairs are in
`PROJECT.json`), and `tlapm <module>.tla` for `RingProofs`, `PaxosProofs`, `RaftProofs`,
`SynchronizerProofs`, `LubyProofs`, `CftRaftProofs`, `VariantsProofs` and `AgreementProofs`.
