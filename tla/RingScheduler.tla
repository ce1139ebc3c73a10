------------------------------ MODULE RingScheduler ----------------------------
(***************************************************************************)
(* The daemon of scheduler.c, which a caller drives in a loop: hand over   *)
(* the privileges, let it select, execute and record each machine that was *)
(* selected.  The caller is convergence_run_experiment (convergence.c),    *)
(* whose privileges are the ring's, or any other.  last_executed is only   *)
(* compared with itself: later[i] holds the machines that executed later   *)
(* than i, or at all when i never did.  The array of selected machines is  *)
(* in ascending order, so the set of those left to execute stands for it.  *)
(***************************************************************************)
EXTENDS DijkstraRing, FiniteSetsExt

VARIABLES daemon,      \* daemon_type and fairness
          experiment,  \* is the caller convergence_run_experiment?
          privilege_mask, later, selected, phase,
          waited,      \* history: selections in a row that passed i over, up to N
          config, round, moves, converged,
          moved        \* history: the ring_steps that changed the ring

daemonVars == <<daemon, experiment>>
schedulerVars == <<daemonVars, privilege_mask, later, selected, phase, waited>>
experimentVars == <<config, round, moves, converged, moved>>

MaxRounds == N * N        \* bound: max_steps of the experiment

\* scheduler_init; ring_randomize_states
SchedulerInit ==
  /\ privilege_mask = {} /\ selected = {} /\ phase = "update"
  /\ later = [i \in Machine |-> {}]
  /\ waited = [i \in Machine |-> 0]
  /\ round = 0 /\ moves = [bottom |-> 0, others |-> 0] /\ converged = FALSE
  /\ moved = [bottom |-> 0, others |-> 0]

ExperimentInit ==
  /\ SchedulerInit
  /\ experiment = TRUE
  /\ daemon \in [type : {"CENTRAL", "DISTRIBUTED", "SYNCHRONOUS"}, fairness : {"WEAK"}]
  /\ config \in Config

AnyCallerInit ==
  /\ SchedulerInit
  /\ experiment = FALSE
  /\ daemon \in [type : {"CENTRAL"}, fairness : {"WEAK", "ROUND_ROBIN"}]
  /\ config = [i \in Machine |-> 0]

\* Mutant: the privileged machine that executed last goes first.
MostRecent(mask) ==
  CHOOSE i \in mask : \A j \in mask : j \notin later[i] /\ (i \notin later[j] => i <= j)

\* The privileged machine with the smallest last_executed, the first of several.
LeastRecent(mask) ==
  CHOOSE i \in mask : \A j \in mask : i \notin later[j] /\ (j \notin later[i] => i <= j)

\* scheduler_select, with room for every machine.
Selection(mask) ==
  IF mask = {} \/ daemon.type \in {"DISTRIBUTED", "SYNCHRONOUS"} THEN mask
  ELSE IF daemon.type = "CENTRAL" /\ daemon.fairness = "ROUND_ROBIN" THEN {LeastRecent(mask)}
  ELSE {Min(mask)}

\* The experiment's loop ends.
Finish ==
  /\ experiment /\ phase = "update"
  /\ round = MaxRounds \/ Cardinality(Privileges(config)) <= 1
  /\ phase' = "done"
  /\ converged' = (round < MaxRounds /\ Legitimate(config))
  /\ UNCHANGED <<daemonVars, privilege_mask, later, selected, waited, config, round, moves, moved>>

\* scheduler_update_privileges
UpdatePrivileges(mask) ==
  /\ phase = "update"
  /\ experiment =>
       round < MaxRounds /\ Cardinality(Privileges(config)) > 1 /\ mask = Privileges(config)
  /\ privilege_mask' = mask
  /\ phase' = "select"
  /\ UNCHANGED <<daemonVars, later, selected, waited, experimentVars>>

Select ==
  /\ phase = "select"
  /\ selected' = Selection(privilege_mask)
  /\ phase' = IF privilege_mask = {} THEN "update" ELSE "record"
  /\ waited' = [i \in Machine |->
        IF i \notin privilege_mask \/ i \in selected' THEN 0
        ELSE IF waited[i] = N THEN N ELSE waited[i] + 1]
  /\ UNCHANGED <<daemonVars, privilege_mask, later, experimentVars>>

\* ring_step and scheduler_record_execution of the next machine selected.  The
\* step evaluates the guard again, on the ring as its predecessors left it; the
\* experiment counts it either way.
Count(counts, i) ==
  IF i = 0 THEN [counts EXCEPT !.bottom = @ + 1] ELSE [counts EXCEPT !.others = @ + 1]

Execute ==
  /\ phase = "record"
  /\ LET i == Min(selected)
     IN  /\ selected' = selected \ {i}
         /\ later' = [j \in Machine |-> IF j = i THEN {} ELSE later[j] \cup {i}]
         /\ IF experiment
            THEN /\ config' = Step(config, i)
                 /\ moves' = Count(moves, i)
                 /\ moved' = IF Privileged(config, i) THEN Count(moved, i) ELSE moved
            ELSE UNCHANGED <<config, moves, moved>>
  /\ phase' = IF selected' = {} THEN "update" ELSE "record"
  /\ round' = IF experiment /\ selected' = {} THEN round + 1 ELSE round
  /\ UNCHANGED <<daemonVars, privilege_mask, waited, converged>>

SchedulerStep ==
  \/ Finish \/ Select \/ Execute
  \/ \E mask \in SUBSET Machine : UpdatePrivileges(mask)
================================================================================
