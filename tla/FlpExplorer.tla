------------------------------ MODULE FlpExplorer ------------------------------
(***************************************************************************)
(* mini-flp-impossibility-proof: configurations of processes and pending   *)
(* messages, the six consensus protocols, the asynchronous schedules that  *)
(* run them, and the searches that classify a configuration by what may    *)
(* still be decided; with flp_impossibility.c of mini-paxos-raft-formal.   *)
(***************************************************************************)
EXTENDS Integers, Sequences, FiniteSets, Bags, SequencesExt

CONSTANTS FlpSizes,       \* the pairs <<n, f>> of a protocol description
          SearchSizes,    \* those at which flood-set runs and is searched
          SearchDepth     \* max_depth of the searches

ASSUME FlpAssumption ==
  /\ FlpSizes \subseteq (Nat \ {0, 1}) \X (Nat \ {0})
  /\ SearchSizes \subseteq FlpSizes
  /\ SearchDepth \in Nat

VARIABLES protocol,      \* protocol_type
          size,          \* <<num_processes, fault_tolerance>>
          processes,     \* states of the processes
          messages,      \* the message buffer, a bag
          can_decide     \* what a search for decisions said when the run started

flpVars == <<protocol, size, processes, messages, can_decide>>

Protocols == {"FLOOD_SET", "PHASE_KING", "ECHO", "ROTATING_LEADER", "MAJORITY_VOTE", "TWO_PHASE"}
Undecided == -1
Null == [type |-> "NONE"]

Pids(n) == 0 .. n - 1

\* flp_process_state_init: step_count matters only while it is 0, the state variables
\* are named for their uses, and a process has decided once its decision is set.
ProcessInit(input) ==
  [input |-> input, started |-> FALSE, known |-> {}, round |-> 0, proposal |-> 0,
   phase |-> 0, votes |-> <<0, 0>>, decision |-> Undecided]

Others(n, p) == SetToSortSeq(Pids(n) \ {p}, <)
Message(p, q, type, value, round) ==
  [sender |-> p, receiver |-> q, type |-> type, value |-> value, round |-> round]
ToOthers(n, p, type, value, round) ==
  [i \in 1 .. n - 1 |-> Message(p, Others(n, p)[i], type, value, round)]

Becomes(state, out) == [state |-> state, outgoing |-> out]

\* The votes for 0 and for 1 are votes[1] and votes[2].
Voted(votes, value) == [votes EXCEPT ![value + 1] = @ + 1]

--------------------------------------------------------------------------------
\* flp_proto_flood_set_step: the first step starts the process and drops the message
\* it was given; a message of the last round decides, again if it has to.
FloodSetStep(n, f, p, s, m) ==
  LET mask == s.known \cup m.value
      round == m.round + 1
  IN  IF ~s.started
      THEN Becomes([s EXCEPT !.known = {s.input}], ToOthers(n, p, "PROPOSE", {s.input}, 0))
      ELSE IF m.type # "PROPOSE" THEN Becomes(s, <<>>)
      ELSE IF m.round < f
      THEN Becomes([s EXCEPT !.known = mask, !.round = round],
                   ToOthers(n, p, "PROPOSE", mask, round))
      ELSE Becomes([s EXCEPT !.known = mask, !.decision = IF mask = {1} THEN 1 ELSE 0], <<>>)

\* flp_proto_phase_king_step: a king speaks when it hears a king.
PhaseKingStep(n, f, p, s, m) ==
  LET votes == Voted(s.votes, m.value)
      strong == \E v \in {1, 2} : s.votes[v] >= n \div 2 + f
      proposal == IF strong THEN s.proposal ELSE m.value
      next == [s EXCEPT !.proposal = proposal, !.phase = @ + 1, !.votes = <<0, 0>>]
  IN  CASE ~s.started ->
             Becomes([s EXCEPT !.proposal = s.input, !.phase = 1], ToOthers(n, p, "VOTE", s.input, 1))
        [] s.started /\ m.type = "VOTE" ->
             Becomes([s EXCEPT !.votes = votes,
                               !.proposal = IF votes[1] > votes[2] THEN 0
                                            ELSE IF votes[2] > votes[1] THEN 1 ELSE @], <<>>)
        [] s.started /\ m.type = "KING" ->
             IF next.phase > f + 1 THEN Becomes([next EXCEPT !.decision = proposal], <<>>)
             ELSE Becomes(next, ToOthers(n, p, "VOTE", proposal, next.phase) \o
                                IF p = next.phase % n
                                THEN ToOthers(n, p, "KING", proposal, next.phase) ELSE <<>>)
        [] OTHER -> Becomes(s, <<>>)

\* flp_proto_echo_step: process 0 proposes, and n - f echoes decide.
EchoStep(n, f, p, s, m) ==
  LET votes == Voted(s.votes, m.value)
      enough == {v \in {0, 1} : votes[v + 1] >= n - f}
  IN  CASE p = 0 /\ ~s.started -> Becomes(s, ToOthers(n, p, "PROPOSE", s.input, 0))
        [] (p # 0 \/ s.started) /\ m.type = "PROPOSE" ->
             Becomes([s EXCEPT !.proposal = m.value], ToOthers(n, p, "ECHO", m.value, 0))
        [] (p # 0 \/ s.started) /\ m.type = "ECHO" ->
             Becomes([s EXCEPT !.votes = votes,
                               !.decision = IF @ # Undecided \/ enough = {} THEN @
                                            ELSE IF 0 \in enough THEN 0 ELSE 1], <<>>)
        [] OTHER -> Becomes(s, <<>>)

\* flp_proto_rotating_leader_step: the round never moves, so process 0 leads; what
\* it proposes is 1 even if its input is 0.
RotatingLeaderStep(n, f, p, s, m) ==
  LET leads == p = s.round % n
      proposal == IF s.proposal # 0 THEN s.proposal ELSE 1
      votes == Voted(s.votes, m.value)
      decision == IF votes[1] >= votes[2] THEN 0 ELSE 1
  IN  CASE leads /\ (~s.started \/ m.type = "KING") ->
             Becomes([s EXCEPT !.proposal = proposal], ToOthers(n, p, "PROPOSE", proposal, s.round))
        [] ~(leads /\ ~s.started) /\ m.type = "PROPOSE" ->
             Becomes([s EXCEPT !.proposal = m.value, !.phase = m.value],
                     <<Message(p, m.sender, "ACK", m.value, m.round)>>)
        [] leads /\ s.started /\ m.type = "ACK" ->
             IF votes[1] + votes[2] >= n \div 2 + 1 /\ s.decision = Undecided
             THEN Becomes([s EXCEPT !.votes = votes, !.decision = decision],
                          ToOthers(n, p, "DECIDE", decision, s.round))
             ELSE Becomes([s EXCEPT !.votes = votes], <<>>)
        [] ~(leads /\ ~s.started) /\ m.type = "DECIDE" ->
             Becomes([s EXCEPT !.decision = m.value], <<>>)
        [] OTHER -> Becomes(s, <<>>)

\* Mutant: every vote after the majority decides again.
MajorityVoteAgain(n, f, p, s, m) ==
  LET votes == Voted(s.votes, m.value)
  IN  IF ~s.started
      THEN Becomes([s EXCEPT !.votes = Voted(@, s.input)], ToOthers(n, p, "VOTE", s.input, 0))
      ELSE IF m.type # "VOTE" THEN Becomes(s, <<>>)
      ELSE Becomes([s EXCEPT !.votes = votes,
                             !.decision = IF votes[1] + votes[2] < n \div 2 + 1 THEN @
                                          ELSE IF votes[1] >= votes[2] THEN 0 ELSE 1], <<>>)

\* flp_proto_majority_vote_step: a majority of votes decides, its own among them.
MajorityVoteStep(n, f, p, s, m) ==
  LET votes == Voted(s.votes, m.value)
      decides == s.decision = Undecided /\ votes[1] + votes[2] >= n \div 2 + 1
  IN  IF ~s.started
      THEN Becomes([s EXCEPT !.votes = Voted(@, s.input)], ToOthers(n, p, "VOTE", s.input, 0))
      ELSE IF m.type # "VOTE" THEN Becomes(s, <<>>)
      ELSE Becomes([s EXCEPT !.votes = votes,
                             !.decision = IF ~decides THEN @
                                          ELSE IF votes[1] >= votes[2] THEN 0 ELSE 1], <<>>)

\* flp_proto_two_phase_step: process 0 decides once it has everyone's vote.
TwoPhaseStep(n, f, p, s, m) ==
  LET votes == Voted(s.votes, m.value)
      decision == IF votes[1] >= votes[2] THEN 0 ELSE 1
  IN  CASE p = 0 /\ ~s.started ->
             Becomes([s EXCEPT !.phase = 1, !.votes = Voted(@, s.input)],
                     ToOthers(n, p, "VOTE", s.input, 1))
        [] p # 0 /\ m.type = "VOTE" -> Becomes(s, <<Message(p, 0, "ACK", s.input, 1)>>)
        [] p = 0 /\ s.started /\ m.type = "ACK" ->
             IF votes[1] + votes[2] >= n
             THEN Becomes([s EXCEPT !.votes = votes, !.phase = 2, !.decision = decision],
                          ToOthers(n, p, "COMMIT", decision, 2))
             ELSE Becomes([s EXCEPT !.votes = votes], <<>>)
        [] p # 0 /\ m.type = "COMMIT" -> Becomes([s EXCEPT !.decision = m.value], <<>>)
        [] OTHER -> Becomes(s, <<>>)

\* flp_protocol_step: process p takes message m, or Null.
ProtocolStep(type, n, f, p, s, m) ==
  LET result == CASE type = "FLOOD_SET" -> FloodSetStep(n, f, p, s, m)
                  [] type = "PHASE_KING" -> PhaseKingStep(n, f, p, s, m)
                  [] type = "ECHO" -> EchoStep(n, f, p, s, m)
                  [] type = "ROTATING_LEADER" -> RotatingLeaderStep(n, f, p, s, m)
                  [] type = "MAJORITY_VOTE" -> MajorityVoteStep(n, f, p, s, m)
                  [] type = "TWO_PHASE" -> TwoPhaseStep(n, f, p, s, m)
  IN  [result EXCEPT !.state.started = TRUE]

--------------------------------------------------------------------------------
\* The searches.  A configuration keeps its buffer in order; a message taken leaves
\* its place to the last one, and is found again by the fields the search compares.
Config(procs) == [procs |-> procs, buffer |-> <<>>, depth |-> 0]

Without(buffer, i) == Front([buffer EXCEPT ![i] = Last(buffer)])

Apply(type, f, config, p, m, buffer) ==
  LET result == ProtocolStep(type, Cardinality(DOMAIN config.procs), f, p, config.procs[p], m)
  IN  [procs |-> [config.procs EXCEPT ![p] = result.state],
       buffer |-> buffer \o result.outgoing,
       depth |-> config.depth + 1]

\* The successors in the order in which flp_config_reachable_count, search_for_decision
\* and flp_graph_build find them.
Successors(type, f, config, fields) ==
  LET n == Cardinality(DOMAIN config.procs)
      pending(p) == SelectSeq(config.buffer, LAMBDA m : m.receiver = p)
      after(p, m) ==
        LET i == SelectInSeq(config.buffer, LAMBDA o : \A k \in fields : o[k] = m[k])
        IN  Apply(type, f, config, p, config.buffer[i], Without(config.buffer, i))
  IN  FlattenSeq([i \in 1 .. n |->
        [j \in DOMAIN pending(i - 1) |-> after(i - 1, pending(i - 1)[j])]])

\* Mutant: buffers are not compared.
LooksOfProcesses(config) ==
  [p \in DOMAIN config.procs |->
     <<config.procs[p].decision, config.procs[p].input, config.procs[p].round>>]

\* flp_config_equal: no state variable is compared, because none is ever counted.
Looks(config) ==
  <<[p \in DOMAIN config.procs |->
       <<config.procs[p].decision, config.procs[p].input, config.procs[p].round>>],
    ToBag(config.buffer)>>

\* The breadth-first search from configuration i on; one that looks like an earlier
\* one is left out.
RECURSIVE Visit(_, _, _, _, _, _)
Visit(type, f, depth, fields, visited, i) ==
  IF i > Len(visited.configs) THEN visited.configs
  ELSE LET config == visited.configs[i]
           found == IF config.depth >= depth THEN <<>> ELSE Successors(type, f, config, fields)
           add(v, c) == IF Looks(c) \in v.seen THEN v
                        ELSE [configs |-> Append(v.configs, c), seen |-> v.seen \cup {Looks(c)}]
       IN  Visit(type, f, depth, fields, FoldLeft(add, visited, found), i + 1)

Visited(type, f, start, depth, fields) ==
  Visit(type, f, depth, fields, [configs |-> <<start>>, seen |-> {Looks(start)}], 1)

\* search_for_decision: only process 0's decisions count, and every protocol is taken
\* for flood-set.  flp_config_can_decide_0, flp_config_can_decide_1.
CanDecide(start) ==
  LET visited == Visited("FLOOD_SET", 1, start, SearchDepth,
                         {"sender", "receiver", "type", "value"})
  IN  {visited[i].procs[0].decision : i \in DOMAIN visited} \ {Undecided}

\* flp_graph_build: the nodes of the graph of the protocol of the description
GraphNodes(type, f, start) == Visited(type, f, start, SearchDepth, {"sender", "receiver", "type"})

--------------------------------------------------------------------------------
\* What is asked of the searches.
Inputs(n) == [Pids(n) -> {0, 1}]
Initial(inputs) == Config([p \in DOMAIN inputs |-> ProcessInit(inputs[p])])
Bivalent(config) == CanDecide(config) = {0, 1}

\* flp_find_bivalent_initial, flp_consensus_count_bivalent_initial
BivalentInitials(n) == {inputs \in Inputs(n) : Bivalent(Initial(inputs))}

\* flp_analyze_protocol: no run is built without a bivalent initial configuration.
AnalysisFindsImpossible(n) == BivalentInitials(n) # {}

\* flp_protocol_check_validity, flp_protocol_check_termination
CheckValidity(n) == \A v \in {0, 1} : v \in CanDecide(Initial([p \in Pids(n) |-> v]))
CheckTermination(n) == CanDecide(Initial([p \in Pids(n) |-> p % 2])) # {}

\* flp_is_bivalent_initial of mini-paxos-raft-formal
IsBivalentInitial(inputs, f) == f >= 1 /\ {inputs[p] : p \in DOMAIN inputs} = {0, 1}

\* The callers' configuration, in which every process has taken its first step
Started(type, f, inputs) ==
  [FoldLeft(LAMBDA c, i : Apply(type, f, c, i - 1, Null, c.buffer),
            Initial(inputs), [i \in 1 .. Cardinality(DOMAIN inputs) |-> i])
   EXCEPT !.depth = 0]

\* flp_find_preserving_schedule, from a buffer that is in the order of sending: the
\* other process that has to step first, the process itself if none has to, and no
\* process if there is no schedule.  The event that follows is not the one that was
\* asked about, but the oldest message of its process.
Preserving(config, p, i) ==
  LET n == Cardinality(DOMAIN config.procs)
      event(c, q, m) ==
        Apply("FLOOD_SET", 1, c, q, m, Without(c.buffer, SelectInSeq(c.buffer, LAMBDA o : o = m)))
      pending(q) == SelectSeq(config.buffer, LAMBDA m : m.receiver = q)
      first == {q \in Pids(n) \ {p} :
                  /\ pending(q) # <<>> /\ pending(p) # <<>>
                  /\ Bivalent(event(event(config, q, Head(pending(q))), p, Head(pending(p))))}
  IN  IF Bivalent(event(config, p, config.buffer[i])) THEN {p}
      ELSE {q \in first : \A r \in first : q <= r}

--------------------------------------------------------------------------------
\* Schedules.  flp_config_init_with_inputs; any pending message of a process may be
\* the next it takes, whatever strategy selects it, and a process that has not
\* started may step on no message (apply_schedule, flp_construct_infinite_run).
Searched == protocol = "FLOOD_SET"

FlpInit ==
  /\ protocol \in Protocols
  /\ size \in IF Searched THEN SearchSizes ELSE FlpSizes
  /\ \E inputs \in Inputs(size[1]) :
       /\ processes = Initial(inputs).procs
       /\ can_decide = IF Searched THEN CanDecide(Started(protocol, size[2], inputs)) ELSE {}
  /\ messages = EmptyBag

StepOn(p, m, rest) ==
  LET result == ProtocolStep(protocol, size[1], size[2], p, processes[p], m)
  IN  /\ processes' = [processes EXCEPT ![p] = result.state]
      /\ messages' = rest (+) ToBag(result.outgoing)
      /\ UNCHANGED <<protocol, size, can_decide>>

\* flp_msg_buffer_deliver_index, then the step
Deliver(p) ==
  \E m \in BagToSet(messages) : m.receiver = p /\ StepOn(p, m, messages (-) SetToBag({m}))

NullStep(p) == ~processes[p].started /\ StepOn(p, Null, messages)

FlpNext == \E p \in DOMAIN processes : Deliver(p) \/ NullStep(p)

FlpSpec == FlpInit /\ [][FlpNext]_flpVars

--------------------------------------------------------------------------------
\* The sizes: two processes, three, and three of which two may fail
Descriptions == {<<2, 1>>, <<3, 1>>, <<3, 2>>}
Explored == {<<2, 1>>, <<3, 1>>}

Decided == {p \in DOMAIN processes : processes[p].decision # Undecided}
Decisions == {processes[p].decision : p \in Decided}

\* flp_consensus_agreement_holds, flp_consensus_validity_holds and
\* flp_consensus_config_is_consistent, which is both of every decision
AgreementHolds == Cardinality(Decisions) <= 1
ValidityHolds == \A v \in Decisions : \E p \in DOMAIN processes : processes[p].input = v
ConfigIsConsistent == AgreementHolds /\ ValidityHolds

Finished == BagToSet(messages) = {} /\ \A p \in DOMAIN processes : processes[p].started

\* What asynchrony leaves of the protocols, whatever is delivered when.  Two-phase and
\* the echoes of one proposer agree on an input, rotating leaders always on 1;
\* flooding and majority votes keep validity alone, and without a first king the
\* phase king decides nothing.
SafetyLeft ==
  /\ protocol \in {"TWO_PHASE", "ECHO"} => ConfigIsConsistent
  /\ protocol = "ROTATING_LEADER" => Decisions \subseteq {1}
  /\ protocol \in {"FLOOD_SET", "MAJORITY_VOTE"} => ValidityHolds
  /\ protocol = "PHASE_KING" => Decisions = {}
  \* nobody but the proposer hears n - 1 echoes
  /\ protocol = "ECHO" /\ size[2] = 1 => Decided \subseteq {0}

\* Once everything is delivered, who has decided: all that follow a coordinator, the
\* proposer of the echoes, and all the voters.  Of two, a leader has no majority of
\* acks, which its own is not among, and a voter may lose the other's vote with its
\* first step.
LivenessLeft ==
  Finished =>
    /\ protocol = "TWO_PHASE" => Decided = DOMAIN processes
    /\ protocol = "ROTATING_LEADER" /\ size[1] > 2 => Decided = DOMAIN processes
    /\ protocol = "ECHO" => 0 \in Decided
    /\ protocol = "MAJORITY_VOTE" /\ size[1] > 2 => Decided = DOMAIN processes

\* A decision stays, but flooding may take back a 1.
DecisionsStay ==
  \A p \in Decided :
    \/ processes'[p].decision = processes[p].decision
    \/ protocol = "FLOOD_SET" /\ processes'[p].decision = 0

\* The search leaves configurations out that only look like others, and yet foresees
\* whatever process 0 decides in any run.
SearchForesees ==
  Searched /\ 0 \in Decided => processes[0].decision \in can_decide

\* What it calls bivalent has both inputs, what a preserving schedule keeps bivalent
\* was so before, and the graph decides what the search finds.
SearchesAgree(inputs) ==
  LET start == Started("FLOOD_SET", 1, inputs)
      nodes == GraphNodes("FLOOD_SET", 1, start)
  IN  /\ Bivalent(start) => IsBivalentInitial(inputs, 1)
      /\ {nodes[i].procs[0].decision : i \in DOMAIN nodes} \ {Undecided} = CanDecide(start)
      /\ \A i \in DOMAIN start.buffer :
           Preserving(start, start.buffer[i].receiver, i) # {} => Bivalent(start)

\* Before the first steps nothing is pending and the searches see nothing: by their
\* account no initial configuration is bivalent, so that no protocol fails, and none is
\* valid or terminates either.
NothingPendingNothingFound(n) ==
  ~AnalysisFindsImpossible(n) /\ ~CheckValidity(n) /\ ~CheckTermination(n)

SearchAnswers ==
  Searched /\ messages = EmptyBag /\ (\A p \in DOMAIN processes : ~processes[p].started) =>
    /\ SearchesAgree([p \in DOMAIN processes |-> processes[p].input])
    /\ NothingPendingNothingFound(size[1])

\* Everything above, in every schedule of every protocol
FlpOutcome ==
  [](SafetyLeft /\ LivenessLeft /\ SearchForesees /\ SearchAnswers) /\ [][DecisionsStay]_flpVars
================================================================================
