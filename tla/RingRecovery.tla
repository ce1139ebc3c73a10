---------------------------- MODULE RingRecovery ----------------------------
(***************************************************************************)
(* ring_converge_to_legitimate run again after each transient fault, as    *)
(* fault_verify_recovery and ss_app_mutual_exclusion_cloud do.  Its daemon *)
(* is deterministic: the privileged machine with the least index moves.    *)
(***************************************************************************)
EXTENDS RingDaemon

CONSTANTS MaxSteps,    \* max_steps of one convergence
          FaultRounds  \* bound: how many faults the caller injects
ASSUME CallerBounds == MaxSteps \in Nat /\ FaultRounds \in Nat

VARIABLES pc,          \* "loop", or the way the last convergence returned
          step,        \* steps of the current convergence
          faults,      \* faults injected so far
          recoveries   \* convergences that returned >= 0
vars == <<state, pc, step, faults, recoveries>>

TypeOK ==
  /\ state \in Config
  /\ pc \in {"loop", "converged", "deadlock", "timeout"}
  /\ step \in Nat /\ faults \in Nat /\ recoveries \in Nat

Init ==
  /\ state \in Config          \* ring_randomize_states
  /\ pc = "loop" /\ step = 0 /\ faults = 0 /\ recoveries = 0

\* ring_count_privileges finds one privilege, or none (which only the 4-state
\* ring of two can show), or the budget is spent.
Return ==
  /\ pc = "loop"
  /\ step >= MaxSteps \/ Legitimate(state) \/ Privileges(state) = {}
  /\ pc' = CASE step >= MaxSteps -> "timeout"
              [] step < MaxSteps /\ Legitimate(state) -> "converged"
              [] OTHER -> "deadlock"
  /\ recoveries' = IF pc' = "converged" THEN recoveries + 1 ELSE recoveries
  /\ UNCHANGED <<state, step, faults>>

\* mutant: the scan keeps the last hit
LastPrivileged(s) == CHOOSE i \in Privileges(s) : \A j \in Privileges(s) : i >= j
FirstPrivileged(s) == CHOOSE i \in Privileges(s) : \A j \in Privileges(s) : i <= j

MoveFirst ==
  /\ pc = "loop" /\ step < MaxSteps
  /\ Privileges(state) # {} /\ ~Legitimate(state)
  /\ state' = Step(state, FirstPrivileged(state))
  /\ step' = step + 1
  /\ UNCHANGED <<pc, faults, recoveries>>

\* mutant: the next convergence inherits the steps of the last
FaultKeepsSteps(s) ==
  /\ pc # "loop" /\ recoveries > 0 /\ faults < FaultRounds
  /\ state' = s
  /\ pc' = "loop" /\ faults' = faults + 1
  /\ UNCHANGED <<step, recoveries>>

\* The caller goes on after the first convergence succeeded: a fault, then
\* the next convergence from the state it left.
Fault(s) ==
  /\ pc # "loop" /\ recoveries > 0 /\ faults < FaultRounds
  /\ state' = s
  /\ pc' = "loop" /\ step' = 0 /\ faults' = faults + 1
  /\ UNCHANGED recoveries

\* fault_inject_single and fault_inject_byzantine: one machine, any state.
InjectSingle == \E i \in Machine, v \in LocalState : Fault([state EXCEPT ![i] = v])

\* fault_inject_burst with num_faults = n/2: the random targets may repeat, so
\* at least one and at most n/2 machines get a new state.
InjectBurst ==
  \E s \in Config :
    /\ Cardinality({i \in Machine : s[i] # state[i]}) <= N \div 2
    /\ Fault(s)

Loop == Return \/ MoveFirst
Inject == InjectSingle \/ InjectBurst
Next == Loop \/ Inject

Spec == Init /\ [][Next]_vars /\ WF_vars(Loop)
-----------------------------------------------------------------------------
\* A convergence moves at most N-1 machines, whatever configuration a fault
\* left: the order in which ring_converge_to_legitimate picks machines copies
\* the bottom's state around the ring once.  The documents promise O(N^2).
AtMostRingMoves == pc = "loop" => step <= N-1

\* With a step budget of at least N every convergence succeeds: none times
\* out or finds the ring deadlocked, so recoveries counts every fault.
EveryFaultRecovered ==
  MaxSteps >= N => /\ pc \in {"loop", "converged"}
                   /\ pc = "converged" => Legitimate(state) /\ recoveries = faults + 1
                   /\ pc = "loop" => recoveries = faults

\* After each fault the loop ends with a legitimate ring.
RecoveryTerminates == pc = "loop" ~> (pc = "converged" /\ Legitimate(state))
=============================================================================
