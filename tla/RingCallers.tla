------------------------------- MODULE RingCallers -----------------------------
(***************************************************************************)
(* The callers of the token ring, each on its own: the convergence loop    *)
(* between faults, the scheduler and its experiment, the checks and the    *)
(* search for attractors, and the applications.                            *)
(***************************************************************************)
EXTENDS RingRecovery, RingChecks, RingScheduler, RingApplications

CONSTANT Graphs    \* transition systems to search, besides the ring's own

\* A value for Graphs: every transition system of four configurations.
FourNodeGraphs ==
  {g \in [0 .. 3 -> SUBSET (0 .. 3)] : \A v \in 0 .. 3 : v \notin g[v]}

VARIABLE caller

Uniform == [i \in Machine |-> 0]

RecoveryIdle == state = Uniform /\ pc = "converged" /\ step = 0 /\ faults = 0 /\ recoveries = 1
SchedulerIdle == SchedulerInit /\ experiment = FALSE /\ config = Uniform
                 /\ daemon = [type |-> "CENTRAL", fairness |-> "NONE"]
ChecksIdle == ring = Uniform
SearchIdle == SearchInit({[v \in {0} |-> {}]})
AppIdle == /\ application = "NONE" /\ app_round = 0 /\ ended = TRUE
           /\ distance = <<>> /\ via = <<>> /\ clock = <<>>

CallersInit ==
  /\ caller \in {"RECOVERY", "SCHEDULER", "CHECKS", "SEARCH", "APPLICATION"}
  /\ \/ caller = "RECOVERY" /\ Init
     \/ caller # "RECOVERY" /\ RecoveryIdle
  /\ \/ caller = "SCHEDULER" /\ (ExperimentInit \/ AnyCallerInit)
     \/ caller # "SCHEDULER" /\ SchedulerIdle
  /\ \/ caller = "CHECKS" /\ ring \in Config
     \/ caller # "CHECKS" /\ ChecksIdle
  /\ \/ caller = "SEARCH" /\ SearchInit(Graphs \cup {Transitions})
     \/ caller # "SEARCH" /\ SearchIdle
  /\ \/ caller = "APPLICATION" /\ AppInit
     \/ caller # "APPLICATION" /\ AppIdle

callersVars == <<caller, vars, schedulerVars, experimentVars, ring, searchVars, appVars>>

CallersNext ==
  /\ \/ caller = "RECOVERY" /\ Next
        /\ UNCHANGED <<schedulerVars, experimentVars, searchVars, appVars>>
     \/ caller = "SCHEDULER" /\ SchedulerStep /\ UNCHANGED <<vars, searchVars, appVars>>
     \/ caller = "SEARCH" /\ SearchStep
        /\ UNCHANGED <<vars, schedulerVars, experimentVars, appVars>>
     \/ caller = "APPLICATION" /\ AppStep
        /\ UNCHANGED <<vars, schedulerVars, experimentVars, searchVars>>
  /\ UNCHANGED <<caller, ring>>

CallersSpec ==
  CallersInit /\ [][CallersNext]_callersVars /\ WF_callersVars(caller = "RECOVERY" /\ Loop /\ CallersNext)

--------------------------------------------------------------------------------
\* Round robin bounds the wait: a machine that stays privileged is passed over at
\* most once for each other machine, however the other privileges change.  (The
\* policy called weakly fair takes the least index and bounds nothing.)
BoundedWait ==
  caller = "SCHEDULER" /\ daemon.fairness = "ROUND_ROBIN" =>
    \A i \in Machine : waited[i] <= N - 1

\* The experiment reports convergence, of a legitimate ring, before its rounds are
\* spent: after at most N-1 moves of the central daemon and, in a K-state ring or one
\* of at most four machines, N*(N-1) rounds of the others.  (Their round sweeps the
\* ring in place, and a 3-state ring of eight may never settle.)  num_moves_bottom
\* counts the bottom's moves exactly, as it is selected first; the others' counter
\* also counts moves that did nothing.
ExperimentConverges ==
  caller = "SCHEDULER" /\ experiment =>
    /\ daemon.type = "CENTRAL" \/ Variant = "KSTATE" \/ N <= 4 =>
         /\ phase = "done" => converged /\ Legitimate(config)
         /\ round <= IF daemon.type = "CENTRAL" THEN N - 1 ELSE N * (N-1)
    /\ moves.bottom = moved.bottom /\ moves.others >= moved.others

\* The verdicts on a ring belong together: the closure check holds exactly in
\* legitimate configurations; the loop that moves the first privileged machine
\* needs at least as many steps as the best execution and at most what the
\* adaptive bound grants, one sweep in fact; a single fault leaves at most three
\* privileges, and its cascade becomes legitimate.  Only uniform rings have no
\* misplaced token, and the loop leaves one leader.
VerdictsAgree ==
  caller = "CHECKS" =>
    LET steps == ConvergenceSteps(ring)
        c == StatesToIndex(ring)
    IN  /\ IndexToStates(c) = ring
        /\ CheckClosure(ring) <=> Legitimate(ring)
        /\ ClosureExhaustive
        /\ Distance(c) <= steps /\ steps <= N - 1
        /\ steps <= AdaptiveBound(FaultDistance(ring))
        /\ SnapClass(ring) = "IMMEDIATE" <=> Distance(c) = 0
        /\ TokenMisplacement(ring) = 0 <=> Energy(ring) = 0
        /\ Privileges(Path(ring)[steps]) = {Leader(Path(ring)[steps])}
        /\ Energy(ring) = 0 =>
             /\ SymmetryBroken(ring)
             /\ \A s \in SingleFaults(ring) :
                  Cardinality(Privileges(s)) <= 3 /\ ConvergenceSteps(s) <= N - 1
        /\ Legitimate(ring) => \A i \in Machine : \E s \in Cascade(ring, i) : Legitimate(s)

\* What can be reached from a node of the graph.
Reaches(v) ==
  LET grow[k \in 0 .. Cardinality(Nodes)] ==
        IF k = 0 THEN {v} ELSE LET S == grow[k - 1] IN S \cup UNION {graph[w] : w \in S}
  IN  grow[Cardinality(Nodes)]

\* The search ends with the attractors of any transition system: the sets of
\* configurations that reach each other and nothing else.  Until then, what is on
\* the stack is what was visited and not yet assigned to a component.
AttractorsFound ==
  caller = "SEARCH" =>
    /\ frames = <<>> => stack = <<>>
    /\ frames = <<>> /\ Visited = Nodes =>
         attractors = {Reaches(v) : v \in {u \in Nodes : \A w \in Reaches(u) : u \in Reaches(w)}}

\* Routing repairs every table within N rounds, hops included, and never trusts a
\* distance that is too short; the tree is right within N rounds although stale
\* distances may first attract their neighbours; clocks come as close as the integer
\* half allows: neighbours end one apart at most, when every round that leaves some
\* further apart has brought a clock at least one nearer to the largest.
ApplicationsRecover ==
  /\ application = "ROUTING" =>
       /\ \A i, j \in Machine : distance[i][j] >= Apart(i, j)
       /\ ended \/ app_round >= N =>
            \A i, j \in Machine : distance[i][j] = Apart(i, j) /\ via[i][j] = Toward(i, j)
  /\ application = "TREE" /\ (ended \/ app_round >= N) =>
       \A i \in Machine \ {0} : distance[i] = i /\ via[i] = i - 1
  /\ application = "SYNC" /\ (ended \/ app_round >= (N-1) * MaxClock) =>
       \A i \in Machine : Apart(clock[i], clock[NextTo(i)]) <= 1

\* The scheduler serves whom it should and the experiment built on it converges.
ExperimentsServe == BoundedWait /\ ExperimentConverges

\* The checks of the ring agree with each other, and so does the search with reach.
ChecksAgree == VerdictsAgree /\ AttractorsFound
================================================================================
