------------------------------ MODULE PhaseProtocols ---------------------------
(***************************************************************************)
(* Phase King, Ben-Or's randomized consensus and Dolev and Strong's        *)
(* authenticated algorithm (phase_protocols.c), the message automata       *)
(* (msg_automaton.c), and Paxos and PBFT by phases (consensus_types.c):    *)
(* one step a phase or round of all processes, in the system they all run  *)
(* in: n processes of which max_faulty may be faulty, their values and     *)
(* decisions (byzantine_agreement_core.c).                                 *)
(***************************************************************************)
EXTENDS Integers, Sequences, FiniteSets

CONSTANTS Sizes,     \* the pairs <<N, f>> to consider
          Value,     \* initial values
          MaxRounds  \* bound: rounds of the protocols that do not end by themselves

ASSUME SystemAssumption ==
  /\ Sizes \subseteq (Nat \ {0}) \X Nat
  /\ Value \subseteq Nat
  /\ MaxRounds \in Nat

VARIABLES num_processes, max_faulty,
          fault_type, initial_value,
          estimate, decided_value, round,
          previous     \* history: the estimates one round earlier

systemVars == <<num_processes, max_faulty, fault_type, initial_value>>
runVars == <<estimate, decided_value, round, previous>>

Undecided == -1

Process == 0 .. num_processes - 1
Of(type) == {i \in Process : fault_type[i] = type}
Correct == Of("CORRECT")
Relaying == Process \ Of("CRASH")       \* those that still send

CountOf(S, f, v) == Cardinality({i \in S : f[i] = v})

\* ba_system_init and ba_configure_processes, with at most max_faulty faulty
\* processes of the given types.
SystemInit(sizes, types) ==
  /\ \E size \in sizes : num_processes = size[1] /\ max_faulty = size[2]
  /\ fault_type \in [Process -> types \cup {"CORRECT"}]
  /\ Cardinality(Process \ Correct) <= max_faulty
  /\ initial_value \in [Process -> Value]
  /\ estimate = initial_value /\ previous = initial_value
  /\ decided_value = [i \in Process |-> Undecided]
  /\ round = 0

Synchrony == {"SYNC", "PARTIAL_SYNC", "ASYNC"}
MessageModel == {"ORAL", "SIGNED", "HYBRID"}

\* ba_is_achievable
IsAchievable(n, f, msg, sync) ==
  CASE sync = "ASYNC" -> FALSE
    [] sync = "SYNC" /\ msg = "SIGNED" -> 2 * f < n
    [] OTHER -> 3 * f < n

\* ba_max_tolerable_faults; consensus_get_threshold gives the same for its
\* families of synchronous oral and signed messages.
MaxTolerableFaults(n, msg, sync) ==
  CASE sync = "ASYNC" -> 0
    [] sync = "SYNC" /\ msg = "SIGNED" -> (n - 1) \div 2
    [] OTHER -> (n - 1) \div 3

\* impossibility_check: signed messages are allowed any number of faults here.
ImpossibilityCheck(n, f, msg, sync) ==
  CASE sync = "ASYNC" -> FALSE
    [] sync = "SYNC" /\ msg = "SIGNED" -> f < n
    [] OTHER -> 3 * f < n

Unanimous(S, f) == Cardinality({f[i] : i \in S}) <= 1

\* ba_verify_properties, as phase_king_run, benor_run and ds_run use it or repeat
\* it: agreement among the correct processes that decided, and their validity.
VerifyAgreement == Unanimous({i \in Correct : decided_value[i] # Undecided}, decided_value)
VerifyValidity ==
  Unanimous(Correct, initial_value) =>
    \A i \in Correct : decided_value[i] \in {Undecided, initial_value[i]}

--------------------------------------------------------------------------------

VARIABLE entries    \* Dolev-Strong: process i's extracted [value, signers]

Decide(est) == decided_value' = [i \in Process |-> IF i \in Correct THEN est[i] ELSE Undecided]

\* phase_king_init refuses 4f >= N and takes no notice of faults.
PhaseKingInit ==
  SystemInit({s \in Sizes : 4 * s[2] < s[1]}, {})

\* Mutant: without an overwhelming majority a process keeps its estimate.
KingForgotten(est, king) ==
  LET overwhelming == {v \in Value : CountOf(Process, est, v) > num_processes \div 2 + max_faulty}
  IN  [i \in Process |-> IF overwhelming = {} THEN est[i] ELSE CHOOSE v \in overwhelming : TRUE]

\* The estimates after a phase: an overwhelming majority, or the king's.  Every
\* process counts the same estimates.
KingPhase(est, king) ==
  LET overwhelming == {v \in Value : CountOf(Process, est, v) > num_processes \div 2 + max_faulty}
  IN  [i \in Process |-> IF overwhelming = {} THEN est[king] ELSE CHOOSE v \in overwhelming : TRUE]

\* phase_king_step: the king of phase k is process k.
PhaseKingStep ==
  /\ round <= max_faulty
  /\ round' = round + 1
  /\ estimate' = KingPhase(estimate, round)
  /\ previous' = estimate
  /\ IF round' > max_faulty THEN decided_value' = estimate' ELSE UNCHANGED decided_value
  /\ UNCHANGED systemVars

BenOrInit == SystemInit(Sizes, {"CRASH", "BYZANTINE"})

\* Phase 1: the value more than half of all processes sent.
Adopt(recv) ==
  LET count(v) == CountOf(Relaying, recv, v)
  IN  IF count(0) > num_processes \div 2 THEN 0
      ELSE IF count(1) > num_processes \div 2 THEN 1 ELSE Undecided

\* What the faulty processes send does not depend on the receiver.
BenOrSent(est) ==
  [i \in Process |-> IF i \in Of("BYZANTINE") THEN i % 2 ELSE est[i]]
BenOrAdoptions(adopted) ==
  [i \in Process |-> IF i \in Of("BYZANTINE") THEN IF i % 3 = 0 THEN Undecided ELSE i % 2
                     ELSE adopted]

\* Mutant: as many adoptions as there may be faulty processes decide.
BenOrDecidesEarly(adoptions) ==
  {v \in {0, 1} : CountOf(Relaying, adoptions, v) >= max_faulty}

\* Phase 2: the values adopted often enough to decide.
BenOrDecides(adoptions) ==
  {v \in {0, 1} : CountOf(Relaying, adoptions, v) >= max_faulty + 1}

\* benor_step, both phases.  fair_coin, the one choice, is tossed by each correct
\* process in turn.
BenOrStep ==
  LET adoptions == BenOrAdoptions(Adopt(BenOrSent(estimate)))
      count(v) == CountOf(Relaying, adoptions, v)
      decides == BenOrDecides(adoptions)
      value == IF 0 \in decides THEN 0 ELSE 1
  IN  /\ round < MaxRounds
      /\ ~(Correct # {} /\ \A i \in Correct : decided_value[i] # Undecided)  \* agreement_reached
      /\ round' = round + 1
      /\ previous' = estimate
      /\ IF decides # {}
         THEN /\ Decide([i \in Process |-> value])
              /\ estimate' = [i \in Process |-> IF i \in Correct THEN value ELSE estimate[i]]
         ELSE /\ UNCHANGED decided_value
              /\ \E coin \in [Correct -> {0, 1}] :
                   estimate' = [i \in Process |->
                     IF i \notin Correct THEN estimate[i]
                     ELSE IF count(0) > 0 /\ count(1) = 0 THEN 0
                     ELSE IF count(1) > 0 /\ count(0) = 0 THEN 1 ELSE coin[i]]
      /\ UNCHANGED systemVars

\* ds_init: every process has signed its own value.
DolevStrongInit ==
  /\ SystemInit(Sizes, {"CRASH", "BYZANTINE"})
  /\ entries = [i \in Process |-> {[value |-> initial_value[i], signers |-> <<i>>]}]

\* Mutant: a receiver signs again.
SignAgain(entry, i) == [entry EXCEPT !.signers = Append(@, i)]

\* ds_sign_chain, by a receiver that has not signed yet.
Sign(entry, i) ==
  IF \E k \in DOMAIN entry.signers : entry.signers[k] = i THEN entry
  ELSE [entry EXCEPT !.signers = Append(@, i)]

\* ds_verify_chain: distinct signers, the first of which started with the value
\* (the hash covers both).
VerifyChain(entry) ==
  /\ \A j, k \in DOMAIN entry.signers : entry.signers[j] = entry.signers[k] => j = k
  /\ entry.value = initial_value[entry.signers[1]]

\* The relays of a round: receivers in turn copy and sign all that the others
\* hold by then, what earlier receivers gained in this round included.  (A list
\* holds 256 entries, some more than once; the first sender that is not crashed
\* brings every value, so a full list lacks none.)
Relay(ext) ==
  LET receive(held, i) ==
        IF i \notin Relaying THEN held
        ELSE [held EXCEPT ![i] = @ \cup UNION {{Sign(e, i) : e \in held[s]} : s \in Relaying}]
      after[k \in 0 .. num_processes] ==
        IF k = 0 THEN ext ELSE receive(after[k - 1], k - 1)
  IN  after[num_processes]

\* ds_step; after its last round ds_run decides the only value held, or 0.
DolevStrongStep ==
  /\ round <= max_faulty
  /\ round' = round + 1
  /\ entries' = Relay(entries)
  /\ IF round' > max_faulty
     THEN Decide([i \in Process |->
            LET values == {e.value : e \in entries'[i]}
            IN  IF Cardinality(values) = 1 THEN CHOOSE v \in values : TRUE ELSE 0])
     ELSE UNCHANGED decided_value
  /\ UNCHANGED <<systemVars, estimate, previous>>

--------------------------------------------------------------------------------
\* The message automata of msg_automaton.c under the default rules for oral
\* messages: in every round a process takes the majority of what the others'
\* estimates were.  A process in the fault mask keeps its estimate and sends it;
\* nothing in the rules decides.

\* automaton_init, for each process, and the configuration automaton_execute
\* starts from.
AutomatonInit == SystemInit(Sizes, {"BYZANTINE"})

\* Mutant: as many votes as there may be faulty processes are enough.
DeltaFaulty(q, incoming, est) ==
  LET enough == {v \in Value : CountOf(incoming, est, v) >= max_faulty}
  IN  IF enough = {} THEN q ELSE CHOOSE v \in enough : \A w \in enough : v <= w

\* default_delta_oral: the estimate after the votes of incoming.
DeltaOral(q, incoming, est) ==
  LET most == {v \in Value : CountOf(incoming, est, v) > Cardinality(incoming) \div 2}
  IN  IF most = {} THEN q ELSE CHOOSE v \in most : TRUE

\* automaton_step for every process outside the mask, on the same configuration.
ExecuteRound(est) ==
  [i \in Process |-> IF i \in Correct THEN DeltaOral(est[i], Process \ {i}, est) ELSE est[i]]

\* One round of automaton_execute.
AutomatonStep ==
  /\ round < MaxRounds
  /\ round' = round + 1
  /\ previous' = estimate
  /\ estimate' = ExecuteRound(estimate)
  /\ UNCHANGED <<systemVars, decided_value>>

--------------------------------------------------------------------------------
\* Paxos and PBFT of consensus_types.c: the phases of all processes in one state,
\* driven by calls in any order.  The last max_faulty processes do not take part.

VARIABLE central    \* paxos_state_t or pbft_state_t

TakesPart == 0 .. num_processes - max_faulty - 1

\* paxos_init
PaxosInit ==
  /\ SystemInit({s \in Sizes : 2 * s[2] < s[1]}, {})
  /\ central = [number |-> 0, proposed |-> Undecided, decided |-> Undecided,
                accepted |-> [i \in Process |-> [value |-> Undecided, proposal |-> -1]]]

\* What was accepted under the highest number.
HighestAccepted(accepted) ==
  {accepted[i] : i \in {j \in Process : accepted[j].proposal > -1 /\
                          \A k \in Process : accepted[j].proposal >= accepted[k].proposal}}

\* paxos_phase1_prepare.  All processes accepted together: there is one at most.
PaxosPrepare(proposal) ==
  /\ proposal > central.number
  /\ LET highest == {a.value : a \in HighestAccepted(central.accepted)}
     IN  central' = [central EXCEPT
           !.number = proposal,
           !.proposed = IF highest = {} THEN @ ELSE CHOOSE v \in highest : TRUE]

\* Mutant: what is decided is the value proposed before the call.
DecidesProposed(value) ==
  central' = [central EXCEPT
    !.proposed = value,
    !.accepted = [i \in Process |->
      IF i \in TakesPart THEN [value |-> value, proposal |-> central.number] ELSE @[i]],
    !.decided = IF Cardinality(TakesPart) >= num_processes \div 2 + 1
                THEN central.proposed ELSE @]

\* paxos_phase2_accept, which takes its caller's value and not the one proposed.
PaxosAccept(value) ==
  central' = [central EXCEPT
    !.proposed = value,
    !.accepted = [i \in Process |->
      IF i \in TakesPart THEN [value |-> value, proposal |-> central.number] ELSE @[i]],
    !.decided = IF Cardinality(TakesPart) >= num_processes \div 2 + 1 THEN value ELSE @]

\* pbft_init
PbftInit ==
  /\ SystemInit({s \in Sizes : 3 * s[2] < s[1]}, {})
  /\ central = [values |-> [i \in Process |-> Undecided], prepare_count |-> 0,
                prepared |-> FALSE, committed |-> FALSE]

\* Mutant: the primary sends its value and does not note it.
PrePrepareToOthers(value) ==
  central' = [central EXCEPT !.values =
    [i \in Process |-> IF i \in TakesPart \ {0} THEN value ELSE @[i]]]

\* pbft_pre_prepare by the primary, process 0.
PbftPrePrepare(value) ==
  central' = [central EXCEPT !.values =
    [i \in Process |-> IF i \in TakesPart \cup {0} THEN value ELSE @[i]]]

\* pbft_prepare
PbftPrepare ==
  LET matching == CountOf(TakesPart, central.values, central.values[0])
  IN  central' = [central EXCEPT
        !.prepare_count = matching, !.prepared = @ \/ matching >= 2 * max_faulty + 1]

\* pbft_commit
PbftCommit ==
  /\ central.prepared
  /\ central' = [central EXCEPT !.committed = @ \/ central.prepare_count >= 2 * max_faulty + 1]

CentralStep ==
  /\ \/ /\ "number" \in DOMAIN central
        /\ \/ \E proposal \in 1 .. MaxRounds : PaxosPrepare(proposal)
           \/ \E value \in Value : PaxosAccept(value)
     \/ /\ "values" \in DOMAIN central
        /\ (\E value \in Value : PbftPrePrepare(value)) \/ PbftPrepare \/ PbftCommit
  /\ UNCHANGED <<systemVars, runVars>>
--------------------------------------------------------------------------------
\* Exponential information gathering (eig_implementation.c): every process keeps a
\* tree of what it heard over each path of relays and resolves it by majorities
\* from the leaves up; two rounds, one relay deep, as the demonstration runs it.
VARIABLE tree    \* tree[p][path]: p's stored_value

Depth == max_faulty + 1

\* eig_build_children: a child's process is new to the path, or the tree's owner.
Extends(path, i, owner) == i = owner \/ \A k \in DOMAIN path : path[k] # i

\* The paths of the nodes of owner's tree.
Paths(owner) ==
  LET level[d \in 0 .. Depth] ==
        IF d = 0 THEN {<<>>}
        ELSE UNION {{Append(path, i) : i \in {j \in Process : Extends(path, j, owner)}} :
                      path \in level[d - 1]}
  IN  UNION {level[d] : d \in 0 .. Depth}

\* eig_tree_init: the root holds the owner's value.
EigInit ==
  /\ SystemInit({s \in Sizes : s[2] = 1 /\ s[1] <= 4}, {"BYZANTINE"})
  /\ Correct \cup {num_processes - 1} = Process     \* as in eig_canonical_n4_f1_demo
  /\ tree = [p \in Process |->
               [path \in Paths(p) |-> IF path = <<>> THEN initial_value[p] ELSE Undecided]]

\* eig_tree_insert, which refuses a path the tree does not have.
Insert(t, values) ==
  [path \in DOMAIN t |-> IF path \in DOMAIN values THEN values[path] ELSE t[path]]

\* Mutant: half of the values are a majority.
HalfIsMajority(slots, value) ==
  LET n == Cardinality(slots)
      most == {v \in Value : 2 * CountOf(slots, value, v) >= n}
  IN  IF n = 0 \/ most = {} THEN Undecided ELSE CHOOSE v \in most : \A w \in most : v <= w

\* eig_majority over all slots, those without a child or a value included.
Majority(slots, value) ==
  LET n == Cardinality(slots)
      most == {v \in Value : CountOf(slots, value, v) > n \div 2}
  IN  IF most = {} THEN Undecided ELSE CHOOSE v \in most : TRUE

\* eig_resolve_node at the root of t: up from the leaves, level by level.
Resolve(t) ==
  LET resolved[d \in 0 .. Depth] ==
        IF d = 0 THEN [path \in {q \in DOMAIN t : Len(q) = Depth} |-> t[path]]
        ELSE [path \in {q \in DOMAIN t : Len(q) = Depth - d} |->
                Majority(Process, [i \in Process |->
                  IF Append(path, i) \in DOMAIN t THEN resolved[d - 1][Append(path, i)] ELSE Undecided])]
  IN  resolved[Depth][<<>>]

\* The first round of the demonstration: everyone hears every process's value, of
\* a faulty one whatever it says.
EigHear ==
  /\ round = 0
  /\ \E says \in [Correct -> [Of("BYZANTINE") -> Value]] :
       tree' = [p \in Process |-> IF p \notin Correct THEN tree[p] ELSE
         Insert(tree[p], [path \in {<<s>> : s \in Process} |->
           IF path[1] \in Correct THEN initial_value[path[1]] ELSE says[p][path[1]]])]
  /\ UNCHANGED decided_value

\* The second: everyone hears from every other process what it heard of a third,
\* and eig_tree_resolve decides.
EigRelay ==
  /\ round = 1
  /\ \E says \in [Correct -> [Correct \X Of("BYZANTINE") -> Value]] :
       tree' = [p \in Process |-> IF p \notin Correct THEN tree[p] ELSE
         Insert(tree[p], [path \in {q \in Process \X (Process \ {p}) : q[1] # q[2]} |->
           IF path[2] \in Correct THEN tree[path[2]][<<path[1]>>] ELSE says[p][path]])]
  /\ decided_value' = [p \in Process |-> IF p \in Correct THEN Resolve(tree'[p]) ELSE Undecided]

EigStep ==
  /\ EigHear \/ EigRelay
  /\ round' = round + 1
  /\ UNCHANGED <<systemVars, estimate, previous>>
================================================================================
