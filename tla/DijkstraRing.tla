---------------------------- MODULE DijkstraRing ----------------------------
(***************************************************************************)
(* The three token-ring algorithms of dijkstra_ring.c as operators on a    *)
(* configuration: the function from machines to local states that          *)
(* ring_configuration_t holds.  Machine 0 is the bottom, N-1 the top.      *)
(***************************************************************************)
EXTENDS Integers, FiniteSets

CONSTANTS N,        \* num_machines
          K,        \* num_states
          Variant   \* algorithm_variant_t

\* What ring_init accepts (its sanity limits 1024 and 65536 are not needed).
ASSUME RingInitAccepts ==
  /\ N \in Nat /\ N >= 2
  /\ K \in Nat /\ K >= 2
  /\ Variant \in {"3STATE", "4STATE", "KSTATE"}
  /\ Variant = "3STATE" => K = 3
  /\ Variant = "4STATE" => K = 4
  /\ Variant = "KSTATE" => K > N

Machine == 0 .. N-1
LocalState == 0 .. K-1
Config == [Machine -> LocalState]

Prev(i) == IF i = 0 THEN N-1 ELSE i-1
NextTo(i) == IF i = N-1 THEN 0 ELSE i+1

IncUnwrapped(x) == x + 1      \* mutant: no modulus
Inc(x) == (x + 1) % K

\* The guards of ring_compute_privilege.
BottomGuardAhead(s) == Inc(s[0]) = s[N-1]     \* mutant: another variant's guard
BottomGuard(s) == IF Variant = "4STATE" THEN Inc(s[0]) = s[1] ELSE s[0] = s[N-1]
TopGuard(s) == Inc(s[N-2]) = s[N-1] /\ Inc(s[0]) # s[N-1]
MiddleGuard(s, i) ==
  IF Variant = "4STATE" THEN Inc(s[i-1]) # s[i] ELSE s[i] # s[i-1]

Privileged(s, i) ==
  CASE i = 0 -> BottomGuard(s)
    [] i = N-1 /\ Variant = "4STATE" -> TopGuard(s)
    [] OTHER -> MiddleGuard(s, i)

Privileges(s) == {i \in Machine : Privileged(s, i)}
Legitimate(s) == Cardinality(Privileges(s)) = 1

\* The state a privileged machine writes; the mutants: a middle machine counts
\* on as the bottom does, and a bottom that copies as the others do.
CommandIncrements(s, i) == Inc(s[Prev(i)])
CommandCopies(s, i) == s[Prev(i)]
Command(s, i) ==
  CASE i = 0 -> IF Variant = "4STATE" THEN s[1] ELSE Inc(s[N-1])
    [] i = N-1 /\ Variant = "4STATE" -> Inc(s[i])
    [] OTHER -> IF Variant = "4STATE" THEN Inc(s[i-1]) ELSE s[i-1]

\* The machines in M evaluate their guards on s and move together:
\* ring_step is M = {i}, ring_synchronous_round is M = Machine.
Move(s, M) ==
  [i \in Machine |-> IF i \in M /\ Privileged(s, i) THEN Command(s, i) ELSE s[i]]

Step(s, i) == Move(s, {i})
SynchronousRound(s) == Move(s, Machine)

\* convergence_energy_difference_count: unequal neighbours around the ring.
Energy(s) == Cardinality({i \in Machine : s[i] # s[Prev(i)]})
=============================================================================
