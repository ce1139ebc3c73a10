----------------------------- MODULE RingDaemon -----------------------------
(***************************************************************************)
(* A ring from an arbitrary configuration, driven by a caller that picks   *)
(* the moves as an adversary would: ring_step on one privileged machine    *)
(* (the central daemon, whose transition system ss_build_transition_system *)
(* enumerates) or ring_synchronous_round, in any mixture.                  *)
(***************************************************************************)
EXTENDS DijkstraRing

VARIABLE state    \* machines[i].state
ringVars == <<state>>

DaemonTypeOK == state \in Config

\* ring_randomize_states, or any sequence of ring_set_state.
DaemonInit == state \in Config

CentralMove(i) ==
  /\ Privileged(state, i)
  /\ state' = Step(state, i)

SynchronousMove == state' = SynchronousRound(state)

CentralNext == \E i \in Machine : CentralMove(i)
DaemonNext == CentralNext \/ SynchronousMove

\* The loops that drive the ring always take another step while max_steps
\* allows; which machine moves is the daemon's choice.
DaemonSpec == DaemonInit /\ [][DaemonNext]_ringVars /\ WF_ringVars(DaemonNext)

\* The central daemon alone.
CentralSpec ==
  DaemonInit /\ [][CentralNext]_ringVars /\ WF_ringVars(CentralNext)
-----------------------------------------------------------------------------
\* At every moment some machine holds a privilege, so the ring never
\* deadlocks ("should never happen with Dijkstra", ring_converge_to_legitimate).
NeverDeadlocked == Privileges(state) # {}

\* No move creates a privilege: the number of tokens in the ring never grows,
\* whichever machine (or all of them together) the daemon lets move.
TokensNeverIncrease ==
  [][Cardinality(Privileges(state')) <= Cardinality(Privileges(state))]_ringVars

\* Closure (ring_verify_closure, ss_verify_closure_exhaustive): a legitimate
\* configuration is only followed by legitimate ones.
Closure == [][Legitimate(state) => Legitimate(state')]_ringVars

\* Mutual exclusion is handed around: the single token of a legitimate ring
\* moves to the neighbour and nowhere else.
TokenMovesToNeighbour ==
  [][\A i \in Machine :
       Privileges(state) = {i} => Privileges(state') = {NextTo(i)}]_ringVars

\* Convergence (ss_verify_convergence_exhaustive): every execution reaches a
\* legitimate configuration.
Convergence == <>Legitimate(state)

\* In the stabilised ring every machine is served for ever.
EveryMachineServed == \A i \in Machine : []<>(i \in Privileges(state))
=============================================================================
