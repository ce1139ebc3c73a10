----------------------------- MODULE RingProofs -----------------------------
(***************************************************************************)
(* Theorems about the token rings and their callers, for every N and K     *)
(* that ring_init accepts: what the moves of any set of machines do to a   *)
(* configuration, and what follows for the 3-state and K-state rings under *)
(* any daemon; that ring_converge_to_legitimate needs at most N-1 moves    *)
(* and, with a budget of N steps, recovers from every fault; that the      *)
(* scheduler bounds the wait and the convergence experiment the rounds;    *)
(* and that the demonstrations of applications.c repair what they start    *)
(* from.                                                                   *)
(***************************************************************************)
EXTENDS RingCallers, FiniteSetTheorems, WellFoundedInduction, TLAPS

\* A local state and its successor differ (K >= 2).
LEMMA IncProperties ==
  ASSUME NEW x \in LocalState
  PROVE  Inc(x) \in LocalState /\ Inc(x) # x
<1>1. K \in Nat /\ K >= 2
  BY RingInitAccepts
<1>2. x \in Nat /\ x < K
  BY <1>1 DEF LocalState
<1>3. CASE x + 1 < K
  BY <1>1, <1>2, <1>3 DEF LocalState, Inc
<1>4. CASE x + 1 = K
  BY <1>1, <1>2, <1>4 DEF LocalState, Inc
<1>5. QED
  BY <1>1, <1>2, <1>3, <1>4

\* In these variants the guards and commands read the predecessor only.
LEMMA GuardsAndCommands ==
  ASSUME Variant # "4STATE", NEW s \in Config, NEW i \in Machine
  PROVE  /\ Privileged(s, i) <=> IF i = 0 THEN s[0] = s[N-1] ELSE s[i] # s[i-1]
         /\ Command(s, i) = IF i = 0 THEN Inc(s[N-1]) ELSE s[i-1]
  BY DEF Privileged, Command, BottomGuard, MiddleGuard

\* A move leads from configurations to configurations.
LEMMA MoveType ==
  ASSUME Variant # "4STATE", NEW s \in Config, NEW M \in SUBSET Machine
  PROVE  Move(s, M) \in Config
<1>1. \A i \in Machine : Command(s, i) \in LocalState
  <2>1. TAKE i \in Machine
  <2>2. N \in Nat /\ N >= 2
    BY RingInitAccepts
  <2>3. s[N-1] \in LocalState /\ (i # 0 => s[i-1] \in LocalState)
    BY <2>2 DEF Config, Machine
  <2>4. QED
    BY <2>3, GuardsAndCommands, IncProperties
<1>2. QED
  BY <1>1 DEF Move, Config

\* A non-empty set of naturals has a least element.
LEMMA LeastElement ==
  ASSUME NEW T \in SUBSET Nat, T # {}
  PROVE  \E x \in T : \A y \in T : x <= y
<1>1. PICK x \in T : \A y \in T : ~(<<y, x>> \in OpToRel(<, Nat))
  BY NatLessThanWellFounded, WFMin
<1>2. \A y \in T : ~(y < x)
  BY <1>1 DEF OpToRel
<1>3. QED
  BY <1>2

\* If each of the machines 1..m agrees with its predecessor, they all agree
\* with machine 0.
LEMMA PrefixEqual ==
  ASSUME NEW s \in Config, NEW m \in Machine,
         \A i \in 1..m : s[i] = s[i-1]
  PROVE  \A i \in 0..m : s[i] = s[0]
<1> DEFINE Bad == {i \in 0..m : s[i] # s[0]}
<1>0. m \in Nat
  BY RingInitAccepts DEF Machine
<1>1. SUFFICES ASSUME Bad # {} PROVE FALSE
  BY <1>0
<1>2. PICK x \in Bad : \A y \in Bad : x <= y
  <2>1. Bad \in SUBSET Nat
    BY <1>0
  <2>2. QED
    BY <1>1, <2>1, LeastElement
<1>3. x \in 1..m
  BY <1>0, <1>2
<1>4. x-1 \in 0..m /\ x-1 \notin Bad
  BY <1>0, <1>2, <1>3
<1>5. QED
  BY <1>2, <1>3, <1>4

\* After the machines in M moved, a privileged machine was privileged and did
\* not move, or its predecessor moved.
LEMMA PrivilegesAfterMove ==
  ASSUME Variant # "4STATE", NEW s \in Config, NEW M \in SUBSET Machine,
         NEW j \in Privileges(Move(s, M))
  PROVE  j \in Privileges(s) \ M \/ Prev(j) \in Privileges(s) \cap M
<1> DEFINE t == Move(s, M)
<1>0. N \in Nat /\ N >= 2 /\ j \in Machine /\ Prev(j) \in Machine /\ 0 \in Machine
  BY RingInitAccepts DEF Machine, Privileges, Prev
<1>1. t \in Config
  BY MoveType
<1>2. Privileged(t, j)
  BY DEF Privileges
<1>3. SUFFICES ASSUME Prev(j) \notin Privileges(s) \cap M PROVE j \in Privileges(s) \ M
  OBVIOUS
<1>4. t[Prev(j)] = s[Prev(j)]
  BY <1>0, <1>3 DEF Move, Privileges
<1>5. s[Prev(j)] \in LocalState
  BY <1>0 DEF Config
<1>6. CASE j \in M /\ Privileged(s, j)
  <2>1. t[j] = Command(s, j)
    BY <1>0, <1>6 DEF Move
  <2>2. ~Privileged(t, j)
    <3>1. CASE j = 0
      BY <1>0, <1>1, <1>4, <1>5, <2>1, <3>1, GuardsAndCommands, IncProperties DEF Prev
    <3>2. CASE j # 0
      BY <1>0, <1>1, <1>4, <2>1, <3>2, GuardsAndCommands DEF Prev
    <3>3. QED
      BY <3>1, <3>2
  <2>3. QED
    BY <1>2, <2>2
<1>7. CASE ~(j \in M /\ Privileged(s, j))
  <2>1. t[j] = s[j]
    BY <1>0, <1>7 DEF Move
  <2>2. Privileged(s, j)
    <3>1. CASE j = 0
      BY <1>0, <1>1, <1>2, <1>4, <2>1, <3>1, GuardsAndCommands DEF Prev
    <3>2. CASE j # 0
      BY <1>0, <1>1, <1>2, <1>4, <2>1, <3>2, GuardsAndCommands DEF Prev
    <3>3. QED
      BY <3>1, <3>2
  <2>3. QED
    BY <1>0, <1>7, <2>2 DEF Privileges
<1>8. QED
  BY <1>6, <1>7

\* Privileges are finite in number.
LEMMA PrivilegesFinite ==
  ASSUME NEW s
  PROVE  IsFiniteSet(Privileges(s)) /\ Cardinality(Privileges(s)) \in Nat
<1>1. IsFiniteSet(Machine)
  BY RingInitAccepts, FS_Interval DEF Machine
<1>2. Privileges(s) \in SUBSET Machine
  BY DEF Privileges
<1>3. QED
  BY <1>1, <1>2, FS_Subset, FS_CardinalityType

\* No move, of any set of machines, increases the number of privileges.
LEMMA MoveKeepsOrLosesTokens ==
  ASSUME Variant # "4STATE", NEW s \in Config, NEW M \in SUBSET Machine
  PROVE  Cardinality(Privileges(Move(s, M))) <= Cardinality(Privileges(s))
<1> DEFINE P == Privileges(s)
           Q == Privileges(Move(s, M))
           f == [j \in Q |-> IF j \in P \ M THEN j ELSE Prev(j)]
<1>1. \A j \in Q : f[j] \in P /\ (f[j] \in M <=> j \notin P \ M)
  BY PrivilegesAfterMove
<1>2. \A i, j \in Machine : Prev(i) = Prev(j) => i = j
  BY RingInitAccepts DEF Machine, Prev
<1>3. Q \subseteq Machine
  BY DEF Privileges
<1>4. \A i, j \in Q : f[i] = f[j] => i = j
  BY <1>1, <1>2, <1>3
<1>5. f \in Injection(Q, P)
  BY <1>1, <1>4 DEF Injection, IsInjective
<1>6. QED
  BY <1>5, PrivilegesFinite, FS_Injection

\* Some machine is always privileged: if machines 1..N-1 are not, they all
\* agree with the bottom, which then is.
LEMMA SomePrivilege ==
  ASSUME Variant # "4STATE", NEW s \in Config
  PROVE  Privileges(s) # {}
<1>0. N-1 \in Machine /\ 0 \in Machine /\ 1..(N-1) \subseteq Machine
  BY RingInitAccepts DEF Machine
<1>1. SUFFICES ASSUME Privileges(s) = {} PROVE FALSE
  OBVIOUS
<1>2. \A i \in Machine : ~Privileged(s, i)
  BY <1>1 DEF Privileges
<1>3. \A i \in 1..(N-1) : s[i] = s[i-1]
  BY <1>0, <1>2, GuardsAndCommands
<1>4. s[N-1] = s[0]
  BY <1>0, <1>3, PrefixEqual, RingInitAccepts
<1>5. QED
  BY <1>0, <1>2, <1>4, GuardsAndCommands

\* The token leaves machine i for its successor.
LEMMA SingleTokenMoves ==
  ASSUME Variant # "4STATE", NEW s \in Config, NEW i \in Machine,
         NEW M \in SUBSET Machine, i \in M, Privileges(s) = {i}
  PROVE  Privileges(Move(s, M)) = {NextTo(i)}
<1>1. \A j \in Privileges(Move(s, M)) : j \in Machine /\ Prev(j) = i
  BY PrivilegesAfterMove DEF Privileges
<1>2. \A j \in Machine : Prev(j) = i => j = NextTo(i)
  BY RingInitAccepts DEF Machine, Prev, NextTo
<1>3. Privileges(Move(s, M)) # {}
  BY MoveType, SomePrivilege
<1>4. QED
  BY <1>1, <1>2, <1>3

\* Exactly one privilege is left after a move from exactly one.
LEMMA LegitimateIsClosed ==
  ASSUME Variant # "4STATE", NEW s \in Config, NEW M \in SUBSET Machine,
         Legitimate(s)
  PROVE  Legitimate(Move(s, M))
<1>1. Cardinality(Privileges(Move(s, M))) <= 1
  BY MoveKeepsOrLosesTokens DEF Legitimate
<1>2. Cardinality(Privileges(Move(s, M))) # 0
  BY MoveType, SomePrivilege, PrivilegesFinite, FS_EmptySet
<1>3. QED
  BY <1>1, <1>2, PrivilegesFinite DEF Legitimate

\* The machine ring_converge_to_legitimate picks.
LEMMA FirstPrivilegedExists ==
  ASSUME Variant # "4STATE", NEW s \in Config
  PROVE  \E i \in Privileges(s) : \A j \in Privileges(s) : i <= j
<1>1. Privileges(s) \in SUBSET Nat
  BY RingInitAccepts DEF Privileges, Machine
<1>2. QED
  BY <1>1, SomePrivilege, LeastElement
-----------------------------------------------------------------------------
\* Every step of DaemonNext is a move of some set of machines; a central step moves
\* a privileged machine.
LEMMA NextIsMove ==
  ASSUME DaemonNext
  PROVE  \E M \in SUBSET Machine :
            /\ state' = Move(state, M)
            /\ M = Machine \/ \E i \in Privileges(state) : M = {i}
<1>1. CASE SynchronousMove
  BY <1>1 DEF SynchronousMove, SynchronousRound
<1>2. ASSUME NEW i \in Machine, CentralMove(i)
      PROVE  /\ {i} \in SUBSET Machine
             /\ state' = Move(state, {i})
             /\ i \in Privileges(state)
  BY <1>2 DEF CentralMove, Step, Privileges
<1>3. QED
  BY <1>1, <1>2 DEF DaemonNext, CentralNext

\* The configuration stays one.
THEOREM TypeCorrect == ASSUME Variant # "4STATE" PROVE DaemonSpec => []DaemonTypeOK
<1>1. DaemonInit => DaemonTypeOK
  BY DEF DaemonInit, DaemonTypeOK
<1>2. DaemonTypeOK /\ [DaemonNext]_ringVars => DaemonTypeOK'
  BY NextIsMove, MoveType DEF DaemonTypeOK, ringVars
<1>3. QED
  BY <1>1, <1>2, PTL DEF DaemonSpec

\* The 3-state and K-state rings never deadlock, for every N and K, from every
\* configuration and under both daemons.
THEOREM DeadlockFreedom == ASSUME Variant # "4STATE" PROVE DaemonSpec => []NeverDeadlocked
<1>1. DaemonTypeOK => NeverDeadlocked
  BY SomePrivilege DEF DaemonTypeOK, NeverDeadlocked
<1>2. QED
  BY <1>1, TypeCorrect, PTL

\* The number of tokens never grows.
THEOREM TokensBounded == ASSUME Variant # "4STATE" PROVE DaemonSpec => TokensNeverIncrease
<1>1. DaemonTypeOK /\ [DaemonNext]_ringVars
        => [Cardinality(Privileges(state')) <= Cardinality(Privileges(state))]_ringVars
  BY NextIsMove, MoveKeepsOrLosesTokens DEF DaemonTypeOK
<1>2. QED
  BY <1>1, TypeCorrect, PTL DEF DaemonSpec, TokensNeverIncrease

\* Closure, the first half of self-stabilization.
THEOREM ClosureHolds == ASSUME Variant # "4STATE" PROVE DaemonSpec => Closure
<1>1. DaemonTypeOK /\ [DaemonNext]_ringVars => [Legitimate(state) => Legitimate(state')]_ringVars
  BY NextIsMove, LegitimateIsClosed DEF DaemonTypeOK
<1>2. QED
  BY <1>1, TypeCorrect, PTL DEF DaemonSpec, Closure

\* In a legitimate ring each step passes the token to the next machine.
THEOREM TokenCirculates == ASSUME Variant # "4STATE" PROVE DaemonSpec => TokenMovesToNeighbour
<1>1. ASSUME DaemonTypeOK, DaemonNext, NEW i \in Machine, Privileges(state) = {i}
      PROVE  Privileges(state') = {NextTo(i)}
  <2>1. PICK M \in SUBSET Machine :
          state' = Move(state, M) /\ (M = Machine \/ \E j \in Privileges(state) : M = {j})
    BY <1>1, NextIsMove
  <2>2. i \in M
    BY <1>1, <2>1
  <2>3. QED
    BY <1>1, <2>1, <2>2, SingleTokenMoves DEF DaemonTypeOK
<1>2. DaemonTypeOK /\ [DaemonNext]_ringVars
        => [\A i \in Machine : Privileges(state) = {i}
              => Privileges(state') = {NextTo(i)}]_ringVars
  BY <1>1
<1>3. QED
  BY <1>2, TypeCorrect, PTL DEF DaemonSpec, TokenMovesToNeighbour
-----------------------------------------------------------------------------
\* Why N-1 moves are enough: once m machines have moved, machines 0..m-1 agree, and
\* the bottom differs from the top unless the whole ring agrees.
AgreeUpTo(s, m) == \A i \in Machine : i <= m => s[i] = s[0]
Copied(s, m) ==
  m > 0 => AgreeUpTo(s, m-1) /\ (s[0] = s[N-1] => AgreeUpTo(s, N-1))

IInv == TypeOK /\ AtMostRingMoves /\ EveryFaultRecovered /\ (pc = "loop" => Copied(state, step))

\* A ring whose machines all agree is legitimate: only the bottom may move.
LEMMA AgreementIsLegitimate ==
  ASSUME Variant # "4STATE", NEW s \in Config, AgreeUpTo(s, N-1)
  PROVE  Legitimate(s)
<1>1. N \in Nat /\ N >= 2 /\ Machine = 0..(N-1)
  BY RingInitAccepts DEF Machine
<1>2. \A i \in Machine : i # 0 => ~Privileged(s, i)
  BY <1>1, GuardsAndCommands DEF AgreeUpTo
<1>3. Privileges(s) = {0}
  BY <1>2, SomePrivilege DEF Privileges
<1>4. QED
  BY <1>3, FS_Singleton DEF Legitimate

\* The first privileged machine lies at or beyond the copied prefix, which leaves
\* room in the ring; when it is the bottom, nothing has moved yet.
LEMMA FirstBeyondPrefix ==
  ASSUME Variant # "4STATE", NEW s \in Config, NEW m \in Nat, m <= N-1, Copied(s, m),
         NEW f \in Privileges(s), \A j \in Privileges(s) : f <= j, ~Legitimate(s)
  PROVE  f \in Machine /\ f >= m /\ (f = 0 => m = 0) /\ m <= N-2
<1>0. N \in Nat /\ N >= 2 /\ Machine = 0..(N-1)
  BY RingInitAccepts DEF Machine
<1>1. f \in Machine /\ Privileged(s, f)
  BY DEF Privileges
<1>2. CASE m = 0
  BY <1>0, <1>1, <1>2
<1>3. CASE m > 0
  <2>1. AgreeUpTo(s, m-1) /\ (s[0] = s[N-1] => AgreeUpTo(s, N-1))
    BY <1>3 DEF Copied
  <2>2. f # 0
    BY <1>0, <1>1, <2>1, GuardsAndCommands, AgreementIsLegitimate
  <2>3. f >= m
    <3>1. SUFFICES ASSUME f <= m-1 PROVE FALSE
      BY <1>0, <1>1
    <3>2. f-1 \in Machine /\ s[f] = s[0] /\ s[f-1] = s[0]
      BY <1>0, <1>1, <2>1, <2>2, <3>1 DEF AgreeUpTo
    <3>3. QED
      BY <1>0, <1>1, <2>2, <3>2, GuardsAndCommands
  <2>4. m # N-1
    <3>1. SUFFICES ASSUME m = N-1 PROVE FALSE
      OBVIOUS
    <3>2. f = N-1 /\ Privileges(s) \subseteq {N-1}
      BY <1>0, <1>1, <2>3, <3>1 DEF Privileges
    <3>3. Privileges(s) = {N-1}
      BY <3>2
    <3>4. QED
      BY <3>3, FS_Singleton DEF Legitimate
  <2>5. QED
    BY <1>0, <1>1, <1>3, <2>2, <2>3, <2>4
<1>4. QED
  BY <1>2, <1>3

\* One move extends the copied prefix by at least one machine.
LEMMA MoveExtendsPrefix ==
  ASSUME Variant # "4STATE", NEW s \in Config, NEW m \in Nat, m <= N-1, Copied(s, m),
         NEW f \in Privileges(s), \A j \in Privileges(s) : f <= j, ~Legitimate(s)
  PROVE  Step(s, f) \in Config /\ Copied(Step(s, f), m+1) /\ m+1 <= N-1
<1> DEFINE t == Step(s, f)
<1>0. N \in Nat /\ N >= 2 /\ Machine = 0..(N-1)
  BY RingInitAccepts DEF Machine
<1>1. f \in Machine /\ f >= m /\ (f = 0 => m = 0) /\ m <= N-2
  BY FirstBeyondPrefix
<1>2. /\ t[f] = Command(s, f) /\ t \in Config
      /\ \A i \in Machine \ {f} : t[i] = s[i]
  BY <1>0, <1>1, MoveType DEF Step, Move, Privileges
<1>3. Privileged(s, f)
  BY <1>1 DEF Privileges
<1>4. CASE f = 0
  <2>1. t[0] = Inc(s[N-1]) /\ t[N-1] = s[N-1] /\ m = 0
    BY <1>0, <1>1, <1>2, <1>4, GuardsAndCommands
  <2>2. t[0] # t[N-1]
    BY <1>0, <2>1, IncProperties DEF Config
  <2>3. AgreeUpTo(t, 0)
    BY <1>0 DEF AgreeUpTo
  <2> HIDE DEF t
  <2>4. Copied(t, m+1)
    BY <1>0, <2>1, <2>2, <2>3 DEF Copied
  <2>5. QED
    BY <1>0, <1>1, <1>2, <2>4 DEF t
<1>5. CASE f # 0
  <2>1. f-1 \in Machine /\ f \in 1..(N-1)
    BY <1>0, <1>1, <1>5
  <2>2. \A i \in 1..(f-1) : s[i] = s[i-1]
    <3>1. TAKE i \in 1..(f-1)
    <3>2. i \in Machine /\ i # 0 /\ i < f
      BY <1>0, <2>1
    <3>3. ~Privileged(s, i)
      BY <1>0, <1>1, <2>1, <3>2 DEF Privileges
    <3>4. QED
      BY <1>0, <3>2, <3>3, GuardsAndCommands
  <2>3. \A i \in 0..(f-1) : s[i] = s[0]
    BY <1>0, <2>1, <2>2, PrefixEqual
  <2>4. t[f] = s[0] /\ t[0] = s[0]
    BY <1>0, <1>1, <1>2, <1>5, <2>1, <2>3, GuardsAndCommands
  <2> HIDE DEF t
  <2>5. \A i \in Machine : i <= f => t[i] = t[0]
    BY <1>0, <1>2, <2>1, <2>3, <2>4
  <2>6. ASSUME t[0] = t[N-1] PROVE f = N-1
    <3>1. SUFFICES ASSUME f # N-1 PROVE FALSE
      OBVIOUS
    <3>2. s[0] = s[N-1]
      BY <1>0, <1>2, <2>4, <2>6, <3>1
    <3>3. 0 \in Privileges(s)
      BY <1>0, <3>2, GuardsAndCommands DEF Privileges
    <3>4. QED
      BY <1>0, <1>1, <2>1, <3>3
  <2>7. t[0] = t[N-1] => AgreeUpTo(t, N-1)
    BY <2>5, <2>6 DEF AgreeUpTo
  <2>8. AgreeUpTo(t, m)
    BY <1>0, <1>1, <2>5 DEF AgreeUpTo
  <2>9. Copied(t, m+1)
    BY <2>7, <2>8 DEF Copied
  <2>10. QED
    BY <1>0, <1>1, <1>2, <2>9 DEF t
<1>6. QED
  BY <1>4, <1>5

\* The loop's move, of the first privileged machine.
LEMMA LoopMoves ==
  ASSUME Variant # "4STATE", IInv, MoveFirst
  PROVE  /\ FirstPrivileged(state) \in Privileges(state)
         /\ state' \in Config /\ Copied(state, step)' /\ step' <= N-1
<1> DEFINE f == FirstPrivileged(state)
<1>0. state \in Config /\ step \in Nat /\ step <= N-1 /\ Copied(state, step) /\ ~Legitimate(state)
  BY DEF IInv, TypeOK, AtMostRingMoves, MoveFirst
<1>1. f \in Privileges(state) /\ \A j \in Privileges(state) : f <= j
  BY <1>0, FirstPrivilegedExists DEF FirstPrivileged
<1>2. state' = Step(state, f) /\ step' = step + 1
  BY DEF MoveFirst
<1> HIDE DEF f
<1>3. QED
  BY <1>0, <1>1, <1>2, MoveExtendsPrefix DEF f

\* A fault leaves a configuration, and the next convergence starts afresh.
LEMMA FaultKeepsInv ==
  ASSUME IInv, NEW s \in Config, Fault(s)
  PROVE  IInv'
  BY RingInitAccepts
  DEF IInv, Fault, TypeOK, AtMostRingMoves, EveryFaultRecovered, Copied

\* Every step, the loop's and the faults', preserves the invariant.
LEMMA NextKeepsInv ==
  ASSUME Variant # "4STATE", IInv, [Next]_vars
  PROVE  IInv'
<1>0. N \in Nat /\ N >= 2 /\ MaxSteps \in Nat /\ state \in Config /\ step \in Nat
  BY RingInitAccepts, CallerBounds DEF IInv, TypeOK
<1>1. CASE Return
  <2>1. Privileges(state) # {}
    BY <1>0, SomePrivilege
  <2>2. MaxSteps >= N => step < MaxSteps
    BY <1>0, <1>1, RingInitAccepts DEF IInv, AtMostRingMoves, Return
  <2>3. pc' \in {"converged", "timeout"} /\ (MaxSteps >= N => pc' = "converged")
    BY <1>0, <1>1, <2>1, <2>2, RingInitAccepts DEF Return
  <2>4. TypeOK'
    BY <1>0, <1>1, <2>3 DEF IInv, Return, TypeOK
  <2>5. MaxSteps >= N => recoveries' = faults' + 1 /\ Legitimate(state')
    BY <1>0, <1>1, <2>2, <2>3 DEF IInv, TypeOK, Return, EveryFaultRecovered
  <2>6. EveryFaultRecovered'
    BY <2>3, <2>5 DEF EveryFaultRecovered
  <2>7. QED
    BY <2>3, <2>4, <2>6 DEF IInv, AtMostRingMoves
<1>2. CASE MoveFirst
  <2>1. TypeOK' /\ AtMostRingMoves' /\ Copied(state, step)'
    BY <1>0, <1>2, LoopMoves DEF IInv, TypeOK, MoveFirst, AtMostRingMoves
  <2>2. EveryFaultRecovered'
    BY <1>2 DEF IInv, EveryFaultRecovered, MoveFirst
  <2>3. QED
    BY <2>1, <2>2 DEF IInv
<1>3. CASE InjectSingle
  <2>1. PICK i \in Machine, v \in LocalState : Fault([state EXCEPT ![i] = v])
    BY <1>3 DEF InjectSingle
  <2>2. [state EXCEPT ![i] = v] \in Config
    BY <1>0 DEF Config
  <2>3. QED
    BY <2>1, <2>2, FaultKeepsInv
<1>4. CASE InjectBurst
  BY <1>4, FaultKeepsInv DEF InjectBurst
<1>5. CASE UNCHANGED vars
  BY <1>5 DEF vars, IInv, TypeOK, AtMostRingMoves, EveryFaultRecovered, Copied, AgreeUpTo
<1>6. QED
  BY <1>1, <1>2, <1>3, <1>4, <1>5 DEF Next, Loop, Inject

\* The inductive invariant holds in every reachable state.
LEMMA InvHolds == ASSUME Variant # "4STATE" PROVE Spec => []IInv
<1>1. Init => IInv
  BY RingInitAccepts
  DEF Init, IInv, TypeOK, AtMostRingMoves, EveryFaultRecovered, Copied
<1>2. IInv /\ [Next]_vars => IInv'
  BY NextKeepsInv
<1>3. QED
  BY <1>1, <1>2, PTL DEF Spec

\* ring_converge_to_legitimate makes at most N-1 moves from any configuration.
THEOREM MovesBounded == ASSUME Variant # "4STATE" PROVE Spec => []AtMostRingMoves
<1>1. IInv => AtMostRingMoves
  BY DEF IInv
<1>2. QED
  BY <1>1, InvHolds, PTL

\* With max_steps >= N no convergence fails, whatever the faults.
THEOREM FaultsRecovered == ASSUME Variant # "4STATE" PROVE Spec => []EveryFaultRecovered
<1>1. IInv => EveryFaultRecovered
  BY DEF IInv
<1>2. QED
  BY <1>1, InvHolds, PTL

\* The loop is one of the callers RingDaemon leaves open: between faults it makes
\* only moves of the central daemon, so what holds of those moves holds here too.
THEOREM LoopIsCentralDaemon ==
  ASSUME Variant # "4STATE" PROVE Spec => [][Inject \/ CentralNext]_ringVars
<1>1. ASSUME IInv, MoveFirst PROVE CentralNext
  <2>1. FirstPrivileged(state) \in Privileges(state)
    BY <1>1, LoopMoves
  <2> QED
    BY <1>1, <2>1 DEF MoveFirst, Privileges, CentralNext, CentralMove
<1>2. ASSUME IInv, [Next]_vars PROVE [Inject \/ CentralNext]_ringVars
  BY <1>1, <1>2 DEF Next, Loop, Return, vars, ringVars
<1>3. QED
  BY <1>2, InvHolds, PTL DEF Spec
-----------------------------------------------------------------------------
\* The scheduler and its experiment.  First the order in which machines executed,
\* by which round robin chooses, then what a round does to the ring.
SchedulerTypeOK ==
  /\ daemon.type \in {"CENTRAL", "DISTRIBUTED", "SYNCHRONOUS"}
  /\ daemon.fairness = "ROUND_ROBIN" => daemon.type = "CENTRAL"
  /\ experiment \in BOOLEAN
  /\ privilege_mask \in SUBSET Machine /\ selected \in SUBSET Machine
  /\ later \in [Machine -> SUBSET Machine]
  /\ waited \in [Machine -> Nat]
  /\ phase \in {"update", "select", "record", "done"}
  /\ phase = "record" <=> selected # {}
  /\ config \in Config /\ round \in Nat
  /\ moves \in [bottom : Nat, others : Nat] /\ moved \in [bottom : Nat, others : Nat]

\* later is a weak order: what executed later than j executed later than whatever j
\* executed later than, and than whatever did not execute later than j.
LaterOrders(l) ==
  /\ \A i \in Machine : i \notin l[i]
  /\ \A i, j \in Machine : IF j \in l[i] THEN l[j] \subseteq l[i] ELSE l[i] \subseteq l[j]

\* Round robin: each selection that passed i over executed another machine, and all
\* of them executed later than i or are about to.
WaitInv ==
  /\ daemon.type = "CENTRAL" => \A i, j \in selected : i = j
  /\ \A i \in selected : waited[i] = 0
  /\ LaterOrders(later)
  /\ daemon.fairness = "ROUND_ROBIN" =>
       \A i \in Machine : waited[i] <= Cardinality(later[i] \cup (selected \ {i}))

\* Sets of machines are finite.
LEMMA MachinesFinite ==
  ASSUME NEW T \in SUBSET Machine
  PROVE  IsFiniteSet(T) /\ Cardinality(T) \in Nat /\ Cardinality(T) <= N
<1>1. IsFiniteSet(Machine) /\ Cardinality(Machine) = N
  BY RingInitAccepts, FS_Interval DEF Machine
<1>2. QED
  BY <1>1, FS_Subset, FS_CardinalityType

\* A machine that executed least recently exists: the one with the most machines
\* later than itself.
LEMMA LeastRecentExists ==
  ASSUME SchedulerTypeOK, LaterOrders(later), NEW mask \in SUBSET Machine, mask # {}
  PROVE  LET m == LeastRecent(mask) IN m \in mask /\ \A i \in mask : m \notin later[i]
<1> DEFINE Size(i) == Cardinality(later[i])
           Behind == {N - Size(i) : i \in mask}
           Least == {i \in mask : \A j \in mask : Size(j) <= Size(i)}
<1>0. N \in Nat /\ mask \subseteq Machine /\ Machine \subseteq Nat
  BY RingInitAccepts DEF Machine
<1>1. \A i \in mask : later[i] \in SUBSET Machine /\ Size(i) \in Nat /\ Size(i) <= N
  BY <1>0, MachinesFinite DEF SchedulerTypeOK
<1> HIDE DEF Size
<1>2. Least # {}
  <2>0. \A i \in mask : N - Size(i) \in Nat
    BY <1>0, <1>1
  <2>1. Behind \in SUBSET Nat /\ Behind # {}
    BY <2>0
  <2>2. PICK b \in Behind : \A c \in Behind : b <= c
    BY <2>1, LeastElement
  <2>3. PICK i \in mask : b = N - Size(i)
    OBVIOUS
  <2>4. \A j \in mask : Size(j) <= Size(i)
    BY <1>0, <1>1, <2>2, <2>3
  <2>5. QED
    BY <2>4
<1>3. PICK m \in Least : \A i \in Least : m <= i
  <2>1. Least \in SUBSET Nat
    BY <1>0
  <2>2. QED
    BY <1>2, <2>1, LeastElement
<1>4. ASSUME NEW i \in mask PROVE m \notin later[i] /\ (i \notin later[m] => m <= i)
  <2>0. m \in Machine /\ i \in Machine /\ m \in mask /\ Size(i) <= Size(m)
    BY <1>0
  <2>1. IsFiniteSet(later[i]) /\ IsFiniteSet(later[m])
    BY <1>1, MachinesFinite
  <2>2. m \notin later[i]
    <3>1. SUFFICES ASSUME m \in later[i] PROVE FALSE
      OBVIOUS
    <3>2. later[m] \subseteq later[i] /\ m \notin later[m]
      BY <2>0, <3>1 DEF LaterOrders
    <3>3. later[m] # later[i]
      BY <3>1, <3>2
    <3>4. Cardinality(later[m]) <= Cardinality(later[i])
          /\ (Cardinality(later[m]) = Cardinality(later[i]) => later[m] = later[i])
      BY <2>1, <3>2, FS_Subset
    <3>5. QED
      BY <1>1, <2>0, <3>3, <3>4 DEF Size
  <2>3. ASSUME i \notin later[m] PROVE m <= i
    <3>1. later[m] \subseteq later[i] /\ later[i] \subseteq later[m]
      BY <2>0, <2>2, <2>3 DEF LaterOrders
    <3>2. Size(m) = Size(i)
      BY <3>1 DEF Size
    <3>3. i \in Least
      BY <2>0, <3>2
    <3>4. QED
      BY <1>3, <3>3
  <2>4. QED
    BY <2>2, <2>3
<1>5. m \in mask
  OBVIOUS
<1> HIDE DEF Least, Behind
<1>6. QED
  BY <1>4, <1>5 DEF LeastRecent

\* The least machine of a set.
LEMMA LeastMachine ==
  ASSUME NEW T \in SUBSET Machine, T # {}
  PROVE  Min(T) \in T /\ \A i \in T : Min(T) <= i
<1>1. T \in SUBSET Nat
  BY RingInitAccepts DEF Machine
<1>2. \E x \in T : \A y \in T : x <= y
  BY <1>1, LeastElement
<1>3. QED
  BY <1>2 DEF Min

\* The daemons select privileged machines; the central one selects a single one.
LEMMA SelectionIsPrivileged ==
  ASSUME SchedulerTypeOK, LaterOrders(later), NEW mask \in SUBSET Machine
  PROVE  /\ Selection(mask) \subseteq mask
         /\ mask # {} => Selection(mask) # {}
         /\ daemon.type = "CENTRAL" => \A i, j \in Selection(mask) : i = j
         /\ daemon.type = "CENTRAL" /\ daemon.fairness # "ROUND_ROBIN" =>
              \A i \in Selection(mask), j \in mask : i <= j
         /\ daemon.type # "CENTRAL" => Selection(mask) = mask
<1>1. CASE mask = {} \/ daemon.type # "CENTRAL"
  BY <1>1 DEF Selection, SchedulerTypeOK
<1>2. CASE mask # {} /\ daemon.type = "CENTRAL" /\ daemon.fairness = "ROUND_ROBIN"
  BY <1>2, LeastRecentExists DEF Selection
<1>3. CASE mask # {} /\ daemon.type = "CENTRAL" /\ daemon.fairness # "ROUND_ROBIN"
  BY <1>3, LeastMachine DEF Selection
<1>4. QED
  BY <1>1, <1>2, <1>3

\* The types hold in every step of the scheduler.
LEMMA SchedulerTypeStep ==
  ASSUME Variant # "4STATE", SchedulerTypeOK, LaterOrders(later), SchedulerStep
  PROVE  SchedulerTypeOK'
<1>1. CASE Finish
  BY <1>1 DEF Finish, SchedulerTypeOK, daemonVars
<1>2. ASSUME NEW mask \in SUBSET Machine, UpdatePrivileges(mask) PROVE SchedulerTypeOK'
  BY <1>2 DEF UpdatePrivileges, SchedulerTypeOK, daemonVars, experimentVars
<1>3. CASE Select
  <2>1. /\ selected' \in SUBSET Machine /\ selected' = Selection(privilege_mask)
        /\ selected' # {} <=> privilege_mask # {}
    BY <1>3, SelectionIsPrivileged DEF Select, SchedulerTypeOK
  <2>2. waited' \in [Machine -> Nat] /\ phase' = IF privilege_mask = {} THEN "update" ELSE "record"
    BY <1>3, RingInitAccepts DEF Select, SchedulerTypeOK
  <2>3. QED
    BY <1>3, <2>1, <2>2 DEF Select, SchedulerTypeOK, daemonVars, experimentVars
<1>4. CASE Execute
  <2> DEFINE k == Min(selected)
  <2>1. k \in Machine
    BY <1>4, LeastMachine DEF Execute, SchedulerTypeOK
  <2>2. selected' = selected \ {k} /\ later' = [j \in Machine |-> IF j = k THEN {} ELSE later[j] \cup {k}]
    BY <1>4 DEF Execute
  <2>3. selected' \in SUBSET Machine /\ later' \in [Machine -> SUBSET Machine]
    BY <2>1, <2>2 DEF SchedulerTypeOK
  <2>4. Step(config, k) \in Config
    BY <2>1, MoveType DEF Step, SchedulerTypeOK
  <2>5. config' \in Config
    BY <1>4, <2>4 DEF Execute, SchedulerTypeOK
  <2>6. \A c \in [bottom : Nat, others : Nat] : Count(c, k) \in [bottom : Nat, others : Nat]
    BY DEF Count
  <2>7. moves' \in [bottom : Nat, others : Nat] /\ moved' \in [bottom : Nat, others : Nat]
    BY <1>4, <2>6 DEF Execute, SchedulerTypeOK
  <2>8. QED
    BY <1>4, <2>3, <2>5, <2>7 DEF Execute, SchedulerTypeOK, daemonVars
<1>5. QED
  BY <1>1, <1>2, <1>3, <1>4 DEF SchedulerStep

\* An execution puts the machine in front of all others.
LEMMA LaterStep ==
  ASSUME NEW l \in [Machine -> SUBSET Machine], LaterOrders(l), NEW k \in Machine
  PROVE  LaterOrders([j \in Machine |-> IF j = k THEN {} ELSE l[j] \cup {k}])
<1> DEFINE t == [j \in Machine |-> IF j = k THEN {} ELSE l[j] \cup {k}]
<1>1. \A i \in Machine : i \notin t[i]
  BY DEF LaterOrders
<1>2. ASSUME NEW i \in Machine, NEW j \in Machine
      PROVE  IF j \in t[i] THEN t[j] \subseteq t[i] ELSE t[i] \subseteq t[j]
  <2>1. IF j \in l[i] THEN l[j] \subseteq l[i] ELSE l[i] \subseteq l[j]
    BY DEF LaterOrders
  <2>2. CASE i = k \/ j = k
    BY <2>2
  <2>3. CASE i # k /\ j # k
    BY <2>1, <2>3
  <2>4. QED
    BY <2>2, <2>3
<1> HIDE DEF t
<1>3. LaterOrders(t)
  BY <1>1, <1>2 DEF LaterOrders
<1>4. QED
  BY <1>3 DEF t

\* Who is passed over gains a machine that executes later: round robin's wait.
LEMMA WaitStep ==
  ASSUME SchedulerTypeOK, WaitInv, SchedulerStep
  PROVE  WaitInv'
<1>1. CASE Finish
  BY <1>1 DEF Finish, WaitInv, daemonVars
<1>2. ASSUME NEW mask \in SUBSET Machine, UpdatePrivileges(mask) PROVE WaitInv'
  BY <1>2 DEF UpdatePrivileges, WaitInv, daemonVars
<1>3. CASE Select
  <2>0. N \in Nat /\ privilege_mask \in SUBSET Machine /\ selected = {}
        /\ later' = later /\ daemon' = daemon /\ selected' = Selection(privilege_mask)
    BY <1>3, RingInitAccepts DEF Select, SchedulerTypeOK, daemonVars
  <2>1. /\ selected' \subseteq privilege_mask
        /\ daemon.type = "CENTRAL" => \A i, j \in selected' : i = j
    BY <2>0, SelectionIsPrivileged DEF WaitInv
  <2>2. \A i \in Machine : waited'[i] = IF i \notin privilege_mask \/ i \in selected' THEN 0
                                        ELSE IF waited[i] = N THEN N ELSE waited[i] + 1
    BY <1>3 DEF Select
  <2>3. ASSUME daemon.fairness = "ROUND_ROBIN", NEW i \in Machine
        PROVE  waited'[i] <= Cardinality(later[i] \cup (selected' \ {i}))
    <3>0. /\ waited[i] \in Nat /\ waited[i] <= Cardinality(later[i])
          /\ later[i] \in SUBSET Machine
      <4>1. later[i] \cup (selected \ {i}) = later[i]
        BY <2>0
      <4>2. QED
        BY <2>3, <4>1 DEF WaitInv, SchedulerTypeOK
    <3>1. /\ IsFiniteSet(later[i]) /\ Cardinality(later[i]) \in Nat
          /\ Cardinality(later[i] \cup (selected' \ {i})) \in Nat
      <4>1. later[i] \cup (selected' \ {i}) \in SUBSET Machine
        BY <2>0, <2>1, <3>0
      <4>2. QED
        BY <3>0, <4>1, MachinesFinite
    <3>2. CASE i \notin privilege_mask \/ i \in selected'
      BY <2>2, <3>1, <3>2
    <3>3. CASE i \in privilege_mask /\ i \notin selected'
      <4> DEFINE m == LeastRecent(privilege_mask)
      <4>1. selected' = {m}
        BY <2>0, <2>3, <3>3 DEF Selection, SchedulerTypeOK
      <4>2. m \notin later[i] /\ m # i
        BY <2>0, <3>3, <4>1, LeastRecentExists DEF WaitInv
      <4> HIDE DEF m
      <4>3. later[i] \cup (selected' \ {i}) = later[i] \cup {m}
        BY <4>1, <4>2
      <4>4. Cardinality(later[i] \cup {m}) = Cardinality(later[i]) + 1
        BY <3>1, <4>2, FS_AddElement
      <4>5. waited'[i] <= waited[i] + 1
        BY <2>0, <2>2, <3>0, <3>3
      <4>6. waited'[i] \in Nat
        BY <2>0, <2>2, <3>0
      <4>7. Cardinality(later[i] \cup (selected' \ {i})) = Cardinality(later[i]) + 1
        BY <4>3, <4>4
      <4> DEFINE passed == waited[i]
                 behind == Cardinality(later[i])
      <4>8. passed \in Nat /\ behind \in Nat /\ passed <= behind /\ waited'[i] <= passed + 1
        BY <3>0, <3>1, <4>5
      <4> HIDE DEF passed, behind
      <4>9. waited'[i] <= behind + 1
        BY <4>6, <4>8
      <4>10. QED
        BY <4>7, <4>9 DEF behind
    <3>4. QED
      BY <3>2, <3>3
  <2>4. \A i \in selected' : waited'[i] = 0
    BY <2>0, <2>1, <2>2
  <2>5. QED
    BY <2>0, <2>1, <2>3, <2>4 DEF WaitInv
<1>4. CASE Execute
  <2> DEFINE k == Min(selected)
  <2>0. k \in selected /\ k \in Machine
    BY <1>4, LeastMachine DEF Execute, SchedulerTypeOK
  <2>1. /\ selected' = selected \ {k} /\ daemon' = daemon /\ waited' = waited
        /\ later' = [j \in Machine |-> IF j = k THEN {} ELSE later[j] \cup {k}]
    BY <1>4 DEF Execute, daemonVars
  <2>2. LaterOrders(later')
    BY <2>0, <2>1, LaterStep DEF SchedulerTypeOK, WaitInv
  <2>3. ASSUME daemon.fairness = "ROUND_ROBIN", NEW i \in Machine
        PROVE  waited[i] <= Cardinality(later'[i] \cup (selected' \ {i}))
    <3>1. selected = {k} /\ selected' = {}
      BY <2>0, <2>1, <2>3 DEF WaitInv, SchedulerTypeOK
    <3>2. waited[i] <= Cardinality(later[i] \cup (selected \ {i}))
      BY <2>3 DEF WaitInv
    <3>3. CASE i = k
      <4>1. later'[i] \cup (selected' \ {i}) = {} /\ waited[i] = 0
        BY <2>0, <2>1, <3>1, <3>3 DEF WaitInv
      <4>2. QED
        BY <4>1, FS_EmptySet
    <3>4. CASE i # k
      <4>1. later'[i] \cup (selected' \ {i}) = later[i] \cup (selected \ {i})
        BY <2>0, <2>1, <3>1, <3>4
      <4>2. QED
        BY <3>2, <4>1
    <3>5. QED
      BY <3>3, <3>4
  <2> HIDE DEF k
  <2>4. QED
    BY <2>0, <2>1, <2>2, <2>3 DEF WaitInv
<1>5. QED
  BY <1>1, <1>2, <1>3, <1>4 DEF SchedulerStep

\* The wait of round robin is bounded by the other machines.
LEMMA WaitIsBounded ==
  ASSUME SchedulerTypeOK, WaitInv
  PROVE  BoundedWait
<1>1. ASSUME daemon.fairness = "ROUND_ROBIN", NEW i \in Machine PROVE waited[i] <= N - 1
  <2> DEFINE T == later[i] \cup (selected \ {i})
  <2>1. T \in SUBSET Machine /\ i \notin T /\ waited[i] <= Cardinality(T)
    BY <1>1 DEF SchedulerTypeOK, WaitInv, LaterOrders
  <2> HIDE DEF T
  <2>2. T \cup {i} \in SUBSET Machine
    BY <2>1
  <2>3. Cardinality(T \cup {i}) = Cardinality(T) + 1
    BY <2>1, MachinesFinite, FS_AddElement
  <2>4. Cardinality(T \cup {i}) <= N /\ Cardinality(T) \in Nat
    BY <2>1, <2>2, MachinesFinite
  <2>5. waited[i] \in Nat /\ N \in Nat
    BY RingInitAccepts DEF SchedulerTypeOK
  <2>6. QED
    BY <2>1, <2>3, <2>4, <2>5
<1>2. QED
  BY <1>1 DEF BoundedWait
-----------------------------------------------------------------------------
\* A round of the distributed or the synchronous daemon executes the privileged
\* machines in place, in order.  It makes progress, in a ring with enough states:
\* some state d ahead of the bottom's is held by no machine beyond the p which agree
\* with the bottom, and a round raises p or lowers d.
Ahead(x, d) == IF x + d < K THEN x + d ELSE x + d - K
Fresh(s, p, d) ==
  AgreeUpTo(s, p) /\ \A i \in Machine : i > p => s[i] # Ahead(s[0], d)

\* The rounds that led here at most; the last is p = N-1, d = 0.
Budget(p, d) == (N-1-d) * (N-1) + p

\* Between rounds (S = {}) the rounds r are within the budget; in a round the current
\* one is, too, or the machine that brings it there is still to execute.
Settling(s, S, r) ==
  \E p \in Machine, d \in 0 .. N-1 :
    /\ Fresh(s, p, d)
    /\ \/ r < Budget(p, d)
       \/ r = Budget(p, d) /\ (S = {} \/ p+1 \in S)

\* The ring of four with three states may have no state to spare until the first
\* machine that differs from the bottom has executed.
Crowded(s, S, r) ==
  /\ N = 4 /\ K = 3 /\ r = 0
  /\ s[0] # s[1] /\ s[1] # s[2] /\ s[2] # s[3] /\ s[1] # s[3]
  /\ S # {} => 1..3 \subseteq S /\ (0 \in S <=> s[0] = s[3])

\* A step of machine 0 or of another one.
LEMMA StepAt ==
  ASSUME Variant # "4STATE", NEW s \in Config, NEW k \in Machine
  PROVE  /\ Step(s, k) \in Config
         /\ \A i \in Machine \ {k} : Step(s, k)[i] = s[i]
         /\ k # 0 => Step(s, k)[k] = s[k-1]
         /\ k = 0 /\ s[0] = s[N-1] => Step(s, k)[0] = Inc(s[0])
<1>1. N \in Nat /\ N >= 2 /\ 0 \in Machine
  BY RingInitAccepts DEF Machine
<1>2. \A i \in Machine : Step(s, k)[i] = IF i = k /\ Privileged(s, k) THEN Command(s, k) ELSE s[i]
  BY DEF Step, Move
<1>3. Step(s, k) \in Config
  BY MoveType DEF Step
<1>4. QED
  BY <1>1, <1>2, <1>3, GuardsAndCommands

\* What lies ahead of a state.
LEMMA AheadProperties ==
  ASSUME NEW x \in LocalState
  PROVE  /\ \A d \in 0 .. K-1 : Ahead(x, d) \in LocalState
         /\ \A d, e \in 0 .. K-1 : Ahead(x, d) = Ahead(x, e) => d = e
         /\ Ahead(x, 0) = x
         /\ \A d \in 1 .. K : Ahead(Inc(x), d-1) = Ahead(x, d)
<1>1. K \in Nat /\ K >= 2 /\ x \in Nat /\ x < K
  BY RingInitAccepts DEF LocalState
<1>2. Inc(x) = IF x + 1 = K THEN 0 ELSE x + 1
  BY <1>1 DEF Inc
<1>3. QED
  BY <1>1, <1>2 DEF Ahead, LocalState

\* The bottom's step takes it one state closer to the fresh one.
LEMMA BottomPays ==
  ASSUME Variant # "4STATE", NEW s \in Config, NEW p \in Machine, NEW d \in 0 .. N-1, K >= N-1,
         Fresh(s, p, d), s[0] = s[N-1], ~AgreeUpTo(s, N-1)
  PROVE  d > 0 /\ Fresh(Step(s, 0), 0, d-1) /\ Budget(0, d-1) > Budget(p, d)
<1> DEFINE t == Step(s, 0)
<1>0. N \in Nat /\ N >= 2 /\ K \in Nat /\ K >= 2 /\ Machine = 0 .. N-1 /\ s[0] \in LocalState
  BY RingInitAccepts DEF Machine, Config
<1>1. /\ t \in Config /\ t[0] = Inc(s[0])
      /\ \A i \in Machine \ {0} : t[i] = s[i]
  BY <1>0, StepAt
<1> HIDE DEF t
<1>2. p < N-1
  BY <1>0 DEF Fresh
<1>3. Ahead(s[0], d) # s[0]
  BY <1>0, <1>2 DEF Fresh
<1>4. d # 0
  BY <1>0, <1>3, AheadProperties
<1>5. d \in 1 .. K /\ Ahead(t[0], d-1) = Ahead(s[0], d)
  BY <1>0, <1>1, <1>4, AheadProperties
<1>6. \A i \in Machine : i > 0 => t[i] # Ahead(t[0], d-1)
  BY <1>0, <1>1, <1>3, <1>5 DEF Fresh, AgreeUpTo
<1>7. Fresh(t, 0, d-1)
  BY <1>0, <1>6 DEF Fresh, AgreeUpTo
<1>8. Budget(0, d-1) > Budget(p, d)
  <2> DEFINE n == N-1
             m == N-1-d
  <2>1. n \in Nat /\ m \in Nat /\ p \in Nat /\ p < n /\ N-1-(d-1) = m + 1
    BY <1>0, <1>2
  <2> HIDE DEF n, m
  <2>2. (m + 1) * n = m * n + n
    BY <2>1
  <2>3. m * n \in Nat
    BY <2>1
  <2>4. m * n + n + 0 > m * n + p
    BY <2>1, <2>3
  <2>5. Budget(p, d) = m * n + p /\ Budget(0, d-1) = (m + 1) * n + 0
    BY <2>1 DEF Budget, n, m
  <2>6. QED
    BY <2>2, <2>4, <2>5
<1>9. QED
  BY <1>0, <1>4, <1>7, <1>8 DEF t

\* The first machine beyond those that agree joins them; the others do no harm.
LEMMA OthersKeepFresh ==
  ASSUME Variant # "4STATE", NEW s \in Config, NEW p \in Machine, NEW d \in 0 .. N-1,
         Fresh(s, p, d), NEW k \in Machine, k # 0
  PROVE  Fresh(Step(s, k), IF k = p+1 THEN p+1 ELSE p, d)
<1> DEFINE t == Step(s, k)
<1>0. N \in Nat /\ N >= 2 /\ Machine = 0 .. N-1 /\ k-1 \in Machine /\ 0 \in Machine
  BY RingInitAccepts DEF Machine
<1>1a. t[k] = s[k-1] /\ \A i \in Machine \ {k} : t[i] = s[i]
  BY <1>0, StepAt
<1> HIDE DEF t
<1>1. t[k] = s[k-1] /\ t[0] = s[0] /\ \A i \in Machine \ {k} : t[i] = s[i]
  BY <1>0, <1>1a
<1>2. CASE k = p+1
  <2>1. t[k] = s[0]
    BY <1>0, <1>1, <1>2 DEF Fresh, AgreeUpTo
  <2>2. Fresh(t, p+1, d)
    BY <1>0, <1>1, <1>2, <2>1 DEF Fresh, AgreeUpTo
  <2>3. QED
    BY <1>2, <2>2 DEF t
<1>3. CASE k # p+1
  <2>1. k <= p => t[k] = s[0]
    BY <1>0, <1>1 DEF Fresh, AgreeUpTo
  <2>2. k > p => t[k] # Ahead(s[0], d)
    BY <1>0, <1>1, <1>3 DEF Fresh
  <2>3. Fresh(t, p, d)
    BY <1>0, <1>1, <2>1, <2>2 DEF Fresh, AgreeUpTo
  <2>4. QED
    BY <1>3, <2>3 DEF t
<1>4. QED
  BY <1>2, <1>3

\* Where machine 1 holds the last state of a crowded ring, a single step is enough.
LEMMA CrowdedStep ==
  ASSUME Variant # "4STATE", NEW s \in Config, NEW S \in SUBSET Machine, Crowded(s, S, 0),
         NEW k \in S, \A i \in S : k <= i
  PROVE  \/ \E p \in Machine, d \in 0 .. N-1 : Fresh(Step(s, k), p, d) /\ 0 < Budget(p, d)
         \/ S \ {k} # {} /\ Crowded(Step(s, k), S \ {k}, 0)
<1> DEFINE t == Step(s, k)
<1>0. /\ N = 4 /\ K = 3 /\ Machine = 0 .. 3 /\ LocalState = 0 .. 2
      /\ 1..3 \subseteq S /\ (0 \in S <=> s[0] = s[3])
      /\ s[0] \in 0..2 /\ s[1] \in 0..2 /\ s[2] \in 0..2 /\ s[3] \in 0..2
      /\ s[0] # s[1] /\ s[1] # s[2] /\ s[2] # s[3] /\ s[1] # s[3]
  BY DEF Crowded, Machine, LocalState, Config
<1>1. k = IF s[0] = s[3] THEN 0 ELSE 1
  BY <1>0
<1>2. CASE s[0] # s[3]
  <2>1. t[1] = s[0] /\ t[0] = s[0] /\ t[2] = s[2] /\ t[3] = s[3] /\ s[2] = s[0]
    BY <1>0, <1>1, <1>2, StepAt
  <2> HIDE DEF t
  <2>2. Fresh(t, 2, 0)
    BY <1>0, <1>2, <2>1 DEF Fresh, AgreeUpTo, Ahead
  <2>3. 0 < Budget(2, 0) /\ 2 \in Machine /\ 0 \in 0 .. N-1
    BY <1>0 DEF Budget
  <2>4. QED
    BY <2>2, <2>3 DEF t
<1>3. CASE s[0] = s[3]
  <2>1. t[0] = Inc(s[0]) /\ t[1] = s[1] /\ t[2] = s[2] /\ t[3] = s[3]
    BY <1>0, <1>1, <1>3, StepAt
  <2>2. t[0] # s[3] /\ t[0] \in 0..2
    BY <1>0, <1>3, <2>1, IncProperties
  <2> HIDE DEF t
  <2>3. CASE t[0] = t[1]
    <3>1. Fresh(t, 1, 0)
      BY <1>0, <2>1, <2>2, <2>3 DEF Fresh, AgreeUpTo, Ahead
    <3>2. 0 < Budget(1, 0) /\ 1 \in Machine /\ 0 \in 0 .. N-1
      BY <1>0 DEF Budget
    <3>3. QED
      BY <3>1, <3>2 DEF t
  <2>4. CASE t[0] # t[1]
    <3>1. Crowded(t, S \ {k}, 0) /\ 1 \in S \ {k}
      BY <1>0, <1>1, <1>3, <2>1, <2>2, <2>4 DEF Crowded
    <3>2. QED
      BY <3>1 DEF t
  <2>5. QED
    BY <2>3, <2>4
<1>4. QED
  BY <1>2, <1>3

\* Every configuration is within the budget before the first round: N states lie ahead
\* of the bottom's within N-1 steps, and the N-1 other machines hold at most N-1.
LEMMA FirstSweep ==
  ASSUME Variant = "KSTATE" \/ (Variant = "3STATE" /\ N <= 4), NEW s \in Config
  PROVE  Settling(s, {}, 0) \/ Crowded(s, {}, 0)
<1>0. N \in Nat /\ N >= 2 /\ K \in Nat /\ K >= 2 /\ Machine = 0 .. N-1 /\ s[0] \in LocalState
      /\ 0 \in Machine
  BY RingInitAccepts DEF Machine, Config
<1>1. ASSUME NEW p \in Machine, NEW d \in 0 .. N-1, Fresh(s, p, d) PROVE Settling(s, {}, 0)
  <2>1. N-1-d \in Nat /\ N-1 \in Nat /\ p \in Nat
    BY <1>0
  <2>2. (N-1-d) * (N-1) \in Nat
    BY <2>1
  <2>3. Budget(p, d) \in Nat
    BY <2>1, <2>2 DEF Budget
  <2>4. 0 < Budget(p, d) \/ 0 = Budget(p, d)
    BY <2>3
  <2>5. QED
    BY <1>1, <2>4 DEF Settling
<1>2. ASSUME NEW d \in 0 .. N-1, \A i \in 1 .. N-1 : s[i] # Ahead(s[0], d)
      PROVE  Settling(s, {}, 0)
  <2>1. Fresh(s, 0, d)
    BY <1>0, <1>2 DEF Fresh, AgreeUpTo
  <2>2. QED
    BY <1>0, <1>1, <2>1
<1>3. CASE K >= N
  <2>1. SUFFICES ASSUME \A d \in 0 .. N-1 : \E i \in 1 .. N-1 : s[i] = Ahead(s[0], d) PROVE FALSE
    BY <1>2
  <2> DEFINE f == [d \in 0 .. N-1 |-> CHOOSE i \in 1 .. N-1 : s[i] = Ahead(s[0], d)]
  <2>2. \A d \in 0 .. N-1 : f[d] \in 1 .. N-1 /\ s[f[d]] = Ahead(s[0], d)
    BY <2>1
  <2> HIDE DEF f
  <2>3. \A d, e \in 0 .. N-1 : f[d] = f[e] => d = e
    <3>1. SUFFICES ASSUME NEW d \in 0 .. N-1, NEW e \in 0 .. N-1, f[d] = f[e] PROVE d = e
      OBVIOUS
    <3>2. Ahead(s[0], d) = Ahead(s[0], e)
      BY <2>2, <3>1
    <3>3. d \in 0 .. K-1 /\ e \in 0 .. K-1
      BY <1>0, <1>3
    <3>4. QED
      BY <1>0, <3>2, <3>3, AheadProperties
  <2>4. f \in Injection(0 .. N-1, 1 .. N-1)
    BY <2>2, <2>3 DEF f, Injection, IsInjective
  <2>5. /\ IsFiniteSet(0 .. N-1) /\ IsFiniteSet(1 .. N-1)
        /\ Cardinality(0 .. N-1) = N /\ Cardinality(1 .. N-1) = N-1
    BY <1>0, FS_Interval
  <2>6. Cardinality(0 .. N-1) <= Cardinality(1 .. N-1)
    BY <2>4, <2>5, FS_Injection
  <2>7. QED
    BY <1>0, <2>5, <2>6
<1>4. CASE K < N
  <2>0. /\ N = 4 /\ K = 3 /\ Machine = 0 .. 3 /\ LocalState = 0 .. 2
        /\ s[0] \in 0..2 /\ s[1] \in 0..2 /\ s[2] \in 0..2 /\ s[3] \in 0..2
    <3>1. N = 4 /\ K = 3
      BY <1>0, <1>4, RingInitAccepts
    <3>2. QED
      BY <3>1 DEF Machine, LocalState, Config
  <2>1. CASE s[1] = s[2] \/ s[2] = s[3] \/ s[1] = s[3]
    <3>1. \E v \in 0..2 : v # s[1] /\ v # s[2] /\ v # s[3]
      BY <2>0, <2>1
    <3>2. PICK v \in 0..2 : v # s[1] /\ v # s[2] /\ v # s[3]
      BY <3>1
    <3>3. \E d \in 0..2 : v = Ahead(s[0], d)
      BY <2>0 DEF Ahead
    <3>4. PICK d \in 0..2 : v = Ahead(s[0], d)
      BY <3>3
    <3>5. d \in 0 .. N-1 /\ \A i \in 1 .. N-1 : s[i] # Ahead(s[0], d)
      BY <2>0, <3>2, <3>4
    <3>6. QED
      BY <1>2, <3>5
  <2>2. CASE s[1] # s[2] /\ s[2] # s[3] /\ s[1] # s[3] /\ s[0] = s[1]
    <3>1. Fresh(s, 1, 0)
      BY <2>0, <2>2 DEF Fresh, AgreeUpTo, Ahead
    <3>2. 1 \in Machine /\ 0 \in 0 .. N-1
      BY <2>0
    <3>3. QED
      BY <1>1, <3>1, <3>2
  <2>3. CASE s[1] # s[2] /\ s[2] # s[3] /\ s[1] # s[3] /\ s[0] # s[1]
    BY <2>0, <2>3 DEF Crowded
  <2>4. QED
    BY <2>1, <2>2, <2>3
<1>5. QED
  BY <1>0, <1>3, <1>4

\* A round begins with all privileges, among them that of the first machine which
\* differs from the bottom.
LEMMA SweepBegins ==
  ASSUME Variant # "4STATE", NEW s \in Config, NEW r \in Nat, ~Legitimate(s),
         Settling(s, {}, r) \/ Crowded(s, {}, r)
  PROVE  Settling(s, Privileges(s), r) \/ Crowded(s, Privileges(s), r)
<1>0. N \in Nat /\ N >= 2 /\ Machine = 0 .. N-1
  BY RingInitAccepts DEF Machine
<1>1. CASE Settling(s, {}, r)
  <2>1. PICK p \in Machine, d \in 0 .. N-1 : Fresh(s, p, d) /\ r <= Budget(p, d)
    <3>1. \A p \in Machine, d \in 0 .. N-1 : Budget(p, d) \in Int
      BY <1>0 DEF Budget
    <3>2. QED
      BY <1>1, <3>1 DEF Settling
  <2>2. PICK k \in Machine : s[k] # s[0] /\ \A i \in Machine : s[i] # s[0] => k <= i
    <3> DEFINE T == {i \in Machine : s[i] # s[0]}
    <3>1. T # {}
      BY AgreementIsLegitimate DEF AgreeUpTo
    <3>2. T \in SUBSET Nat
      BY <1>0
    <3>3. \E x \in T : \A y \in T : x <= y
      BY <3>1, <3>2, LeastElement
    <3>4. QED
      BY <3>3
  <2> DEFINE q == k - 1
  <2>3. q \in Machine /\ q >= p /\ q + 1 = k /\ k # 0
    BY <1>0, <2>1, <2>2 DEF Fresh, AgreeUpTo
  <2>4. Fresh(s, q, d)
    BY <1>0, <2>1, <2>2, <2>3 DEF Fresh, AgreeUpTo
  <2>5. k \in Privileges(s)
    BY <1>0, <2>2, <2>3, GuardsAndCommands DEF Privileges
  <2>6. r < Budget(q, d) \/ r = Budget(q, d)
    <3> DEFINE c == (N-1-d) * (N-1)
    <3>1. c \in Int /\ Budget(p, d) = c + p /\ Budget(q, d) = c + q
      BY <1>0 DEF Budget
    <3> HIDE DEF c, q
    <3>2. p \in Int /\ q \in Int
      BY <1>0, <2>3
    <3>3. QED
      BY <2>1, <2>3, <3>1, <3>2
  <2> HIDE DEF q
  <2>7. q + 1 \in Privileges(s)
    BY <2>3, <2>5
  <2>8. QED
    BY <2>3, <2>4, <2>6, <2>7 DEF Settling
<1>2. CASE Crowded(s, {}, r)
  <2>1. N = 4 /\ \A i \in 1..3 : i \in Machine /\ i-1 \in Machine
    BY <1>0, <1>2 DEF Crowded
  <2>2. 1..3 \subseteq Privileges(s) /\ (0 \in Privileges(s) <=> s[0] = s[3])
    BY <1>0, <1>2, <2>1, GuardsAndCommands DEF Crowded, Privileges
  <2>3. QED
    BY <1>2, <2>2 DEF Crowded
<1>3. QED
  BY <1>1, <1>2

\* A step of the round, and its end.
LEMMA SweepContinues ==
  ASSUME Variant # "4STATE", NEW s \in Config, NEW S \in SUBSET Machine, NEW r \in Nat, K >= N-1,
         NEW k \in S, \A i \in S : k <= i,
         k = 0 => Privileged(s, 0) /\ ~Legitimate(s),
         Settling(s, S, r) \/ Crowded(s, S, r)
  PROVE  LET T == S \ {k}
             m == IF T = {} THEN r + 1 ELSE r
         IN  Settling(Step(s, k), T, m) \/ Crowded(Step(s, k), T, m)
<1> DEFINE T == S \ {k}
           t == Step(s, k)
           m == IF T = {} THEN r + 1 ELSE r
<1>0. N \in Nat /\ N >= 2 /\ Machine = 0 .. N-1 /\ k \in Machine
  BY RingInitAccepts DEF Machine
<1>1. \A p \in Machine, d \in 0 .. N-1 : Budget(p, d) \in Int
  BY <1>0 DEF Budget
<1> HIDE DEF t
<1>2. ASSUME NEW p \in Machine, NEW d \in 0 .. N-1, Fresh(t, p, d), r < Budget(p, d)
      PROVE  Settling(t, T, m)
  <2>1. Budget(p, d) \in Int
    BY <1>1
  <2>2. T # {} => r < Budget(p, d)
    BY <1>2
  <2>3. T = {} => r + 1 < Budget(p, d) \/ r + 1 = Budget(p, d)
    BY <1>2, <2>1
  <2>4. QED
    BY <1>2, <2>2, <2>3 DEF Settling
<1>3. CASE Settling(s, S, r)
  <2>1. PICK p \in Machine, d \in 0 .. N-1 :
          Fresh(s, p, d) /\ (r < Budget(p, d) \/ (r = Budget(p, d) /\ p+1 \in S))
    BY <1>3 DEF Settling
  <2>2. CASE k = 0
    <3>1. s[0] = s[N-1] /\ ~AgreeUpTo(s, N-1)
      BY <1>0, <2>2, GuardsAndCommands, AgreementIsLegitimate
    <3>2. d > 0 /\ Fresh(t, 0, d-1) /\ Budget(0, d-1) > Budget(p, d)
      BY <2>1, <2>2, <3>1, BottomPays DEF t
    <3>3. 0 \in Machine /\ d-1 \in 0 .. N-1
      BY <1>0, <3>2
    <3>4. r < Budget(0, d-1)
      BY <1>1, <2>1, <3>2, <3>3
    <3>5. QED
      BY <1>2, <3>2, <3>3, <3>4 DEF t
  <2>3. CASE k # 0 /\ k = p+1
    <3>1. Fresh(t, p+1, d) /\ p+1 \in Machine
      BY <1>0, <2>1, <2>3, OthersKeepFresh DEF t
    <3>2. r < Budget(p+1, d)
      <4> DEFINE c == (N-1-d) * (N-1)
      <4>1. c \in Int /\ Budget(p, d) = c + p /\ Budget(p+1, d) = c + (p+1)
        BY <1>0 DEF Budget
      <4> HIDE DEF c
      <4>2. QED
        BY <1>0, <2>1, <4>1
    <3>3. QED
      BY <1>2, <3>1, <3>2 DEF t
  <2>4. CASE k # 0 /\ k # p+1
    <3>1. Fresh(t, p, d)
      BY <1>0, <2>1, <2>4, OthersKeepFresh DEF t
    <3>2. CASE r < Budget(p, d)
      BY <1>2, <3>1, <3>2 DEF t
    <3>3. CASE r = Budget(p, d) /\ p+1 \in S
      <4>1. p+1 \in T /\ m = r
        BY <2>4, <3>3
      <4>2. QED
        BY <3>1, <3>3, <4>1 DEF Settling, t
    <3>4. QED
      BY <2>1, <3>2, <3>3
  <2>5. QED
    BY <2>2, <2>3, <2>4
<1>4. CASE Crowded(s, S, r)
  <2>1. r = 0
    BY <1>4 DEF Crowded
  <2>2. \/ \E p \in Machine, d \in 0 .. N-1 : Fresh(t, p, d) /\ 0 < Budget(p, d)
        \/ T # {} /\ Crowded(t, T, 0)
    BY <1>4, <2>1, CrowdedStep DEF t
  <2>3. QED
    BY <1>2, <2>1, <2>2 DEF t
<1>5. QED
  BY <1>3, <1>4

\* The rounds of a sweep end before the experiment's do.
LEMMA RoundsBounded ==
  ASSUME NEW s, NEW S, NEW r \in Nat, Settling(s, S, r) \/ Crowded(s, S, r)
  PROVE  r <= N * (N-1)
<1>0. N \in Nat /\ N >= 2 /\ Machine = 0 .. N-1
  BY RingInitAccepts DEF Machine
<1>1. CASE Settling(s, S, r)
  <2>1. PICK p \in Machine, d \in 0 .. N-1 : r < Budget(p, d) \/ r = Budget(p, d)
    BY <1>1 DEF Settling
  <2> DEFINE n == N-1
  <2>2. n \in Nat /\ d \in 0 .. n /\ p \in Nat /\ p <= n /\ N = n + 1
    BY <1>0
  <2>3. Budget(p, d) = (n - d) * n + p
    BY DEF Budget
  <2> HIDE DEF n
  <2>4. (n - d) * n <= n * n /\ (n + 1) * n = n * n + n /\ n * n \in Nat /\ (n - d) * n \in Nat
    BY <2>2
  <2>5. r <= (n + 1) * n
    BY <2>1, <2>2, <2>3, <2>4
  <2>6. QED
    BY <2>2, <2>5 DEF n
<1>2. CASE Crowded(s, S, r)
  BY <1>2 DEF Crowded
<1>3. QED
  BY <1>1, <1>2

\* The experiment with one machine a round, and with several.
CentralInv ==
  /\ Copied(config, round) /\ round <= N-1
  /\ \A i \in selected : i \in Privileges(config) /\ \A j \in Privileges(config) : i <= j
  /\ selected # {} => ~Legitimate(config)
SweepInv == Settling(config, selected, round) \/ Crowded(config, selected, round)

Outcome == converged /\ Legitimate(config)

ExperimentInv ==
  experiment =>
    /\ daemon.fairness # "ROUND_ROBIN"
    /\ phase = "select" => privilege_mask = Privileges(config) /\ ~Legitimate(config)
    /\ 0 \in selected => Privileged(config, 0) /\ ~Legitimate(config)
    /\ daemon.type = "CENTRAL" => CentralInv /\ (phase = "done" => Outcome)
    /\ daemon.type # "CENTRAL" /\ (Variant = "KSTATE" \/ N <= 4) =>
         SweepInv /\ (phase = "done" => Outcome)
    /\ moves.bottom = moved.bottom /\ moves.others >= moved.others

\* The experiment finishes before its rounds are spent, so with one privilege.
LEMMA FinishStep ==
  ASSUME Variant # "4STATE", SchedulerTypeOK, ExperimentInv, Finish
  PROVE  ExperimentInv'
<1>0. /\ N \in Nat /\ N >= 2 /\ config \in Config /\ round \in Nat /\ experiment
      /\ UNCHANGED <<daemon, experiment, privilege_mask, selected, config, round, moves, moved>>
      /\ phase' = "done" /\ converged' = (round < MaxRounds /\ Legitimate(config))
      /\ round = MaxRounds \/ Cardinality(Privileges(config)) <= 1
  BY RingInitAccepts DEF Finish, SchedulerTypeOK, daemonVars
<1>1. ASSUME round < MaxRounds PROVE Outcome'
  <2>1. Cardinality(Privileges(config)) <= 1
    BY <1>0, <1>1 DEF MaxRounds
  <2>2. Cardinality(Privileges(config)) \in Nat /\ Cardinality(Privileges(config)) # 0
    BY <1>0, SomePrivilege, PrivilegesFinite, FS_EmptySet
  <2>3. Legitimate(config)
    BY <2>1, <2>2 DEF Legitimate
  <2>4. QED
    BY <1>0, <1>1, <2>3 DEF Outcome
<1>2. N * (N-1) < N * N /\ N-1 < N * N
  BY <1>0
<1>3. ASSUME daemon.type = "CENTRAL" PROVE CentralInv' /\ Outcome'
  <2>1. round < MaxRounds
    <3>1. round <= N-1
      BY <1>0, <1>3 DEF ExperimentInv, CentralInv
    <3>2. MaxRounds \in Int
      BY <1>0 DEF MaxRounds
    <3>3. QED
      BY <1>0, <1>2, <3>1, <3>2 DEF MaxRounds
  <2>2. QED
    BY <1>0, <1>1, <1>3, <2>1 DEF ExperimentInv, CentralInv
<1>4. ASSUME daemon.type # "CENTRAL", Variant = "KSTATE" \/ N <= 4 PROVE SweepInv' /\ Outcome'
  <2>1. SweepInv
    BY <1>0, <1>4 DEF ExperimentInv
  <2>2. round < MaxRounds
    <3>1. round <= N * (N-1)
      BY <1>0, <2>1, RoundsBounded DEF SweepInv
    <3>2. MaxRounds \in Int /\ N * (N-1) \in Int
      BY <1>0 DEF MaxRounds
    <3>3. QED
      BY <1>0, <1>2, <3>1, <3>2 DEF MaxRounds
  <2>3. QED
    BY <1>0, <1>1, <2>1, <2>2 DEF SweepInv
<1>5. QED
  BY <1>0, <1>3, <1>4 DEF ExperimentInv

\* A round starts from the privileges of the ring.
LEMMA UpdateStep ==
  ASSUME SchedulerTypeOK, ExperimentInv, NEW mask \in SUBSET Machine, UpdatePrivileges(mask)
  PROVE  ExperimentInv'
<1>1. UNCHANGED <<daemon, experiment, selected, config, round, moves, moved, converged>>
      /\ phase' = "select" /\ privilege_mask' = mask
  BY DEF UpdatePrivileges, daemonVars, experimentVars
<1>2. experiment => mask = Privileges(config) /\ ~Legitimate(config)
  BY PrivilegesFinite DEF UpdatePrivileges, Legitimate
<1>3. CentralInv' <=> CentralInv
  BY <1>1 DEF CentralInv
<1>4. SweepInv' <=> SweepInv
  BY <1>1 DEF SweepInv
<1>5. QED
  BY <1>1, <1>2, <1>3, <1>4 DEF ExperimentInv

\* The selection is the first privilege, or all of them.
LEMMA SelectStep ==
  ASSUME Variant # "4STATE", SchedulerTypeOK, LaterOrders(later), ExperimentInv, Select
  PROVE  ExperimentInv'
<1>0. SUFFICES ASSUME experiment PROVE ExperimentInv'
  BY DEF ExperimentInv, Select, daemonVars
<1>1. /\ UNCHANGED <<daemon, experiment, privilege_mask, config, round, moves, moved, converged>>
      /\ phase = "select" /\ selected = {} /\ selected' = Selection(privilege_mask)
      /\ phase' # "select" /\ phase' # "done"
  BY DEF Select, SchedulerTypeOK, daemonVars, experimentVars
<1>2. /\ privilege_mask = Privileges(config) /\ ~Legitimate(config) /\ config \in Config
      /\ round \in Nat /\ privilege_mask \in SUBSET Machine /\ daemon.fairness # "ROUND_ROBIN"
  BY <1>0, <1>1 DEF ExperimentInv, SchedulerTypeOK
<1>3. /\ selected' \subseteq Privileges(config)
      /\ daemon.type = "CENTRAL" => \A i \in selected', j \in Privileges(config) : i <= j
      /\ daemon.type # "CENTRAL" => selected' = Privileges(config)
  BY <1>1, <1>2, SelectionIsPrivileged
<1>4. 0 \in selected' => Privileged(config, 0)
  BY <1>3 DEF Privileges
<1>5. ASSUME daemon.type = "CENTRAL" PROVE CentralInv'
  BY <1>0, <1>1, <1>2, <1>3, <1>5 DEF ExperimentInv, CentralInv
<1>6. ASSUME daemon.type # "CENTRAL", Variant = "KSTATE" \/ N <= 4 PROVE SweepInv'
  <2>1. Settling(config, {}, round) \/ Crowded(config, {}, round)
    BY <1>0, <1>1, <1>6 DEF ExperimentInv, SweepInv
  <2>2. Settling(config, selected', round) \/ Crowded(config, selected', round)
    BY <1>2, <1>3, <1>6, <2>1, SweepBegins
  <2>3. QED
    BY <1>1, <2>2 DEF SweepInv
<1>7. QED
  BY <1>0, <1>1, <1>2, <1>4, <1>5, <1>6 DEF ExperimentInv

\* An execution continues the round or ends it.
LEMMA ExecuteStep ==
  ASSUME Variant # "4STATE", SchedulerTypeOK, WaitInv, ExperimentInv, Execute
  PROVE  ExperimentInv'
<1> DEFINE k == Min(selected)
<1>0. SUFFICES ASSUME experiment PROVE ExperimentInv'
  BY DEF ExperimentInv, Execute, daemonVars
<1>1. /\ UNCHANGED <<daemon, experiment, privilege_mask, converged>>
      /\ selected # {} /\ selected' = selected \ {k}
      /\ config' = Step(config, k) /\ moves' = Count(moves, k)
      /\ moved' = IF Privileged(config, k) THEN Count(moved, k) ELSE moved
      /\ round' = IF selected' = {} THEN round + 1 ELSE round
      /\ phase' # "select" /\ phase' # "done"
  BY <1>0 DEF Execute, SchedulerTypeOK, daemonVars
<1>2. k \in selected /\ \A i \in selected : k <= i
  BY <1>1, LeastMachine DEF SchedulerTypeOK
<1> HIDE DEF k
<1>3. k \in Machine /\ config \in Config /\ round \in Nat /\ selected \in SUBSET Machine
  BY <1>2 DEF SchedulerTypeOK
<1>4. 0 \notin selected'
  BY <1>1, <1>2, <1>3, RingInitAccepts DEF Machine
<1>5. moves'.bottom = moved'.bottom /\ moves'.others >= moved'.others
  <2>1. /\ moves \in [bottom : Nat, others : Nat] /\ moved \in [bottom : Nat, others : Nat]
        /\ moves.bottom = moved.bottom /\ moves.others >= moved.others
        /\ k = 0 => Privileged(config, k)
    BY <1>0, <1>2 DEF SchedulerTypeOK, ExperimentInv
  <2>2. CASE k = 0
    BY <1>1, <2>1, <2>2 DEF Count
  <2>3. CASE k # 0
    BY <1>1, <2>1, <2>3 DEF Count
  <2>4. QED
    BY <2>2, <2>3
<1>6. ASSUME daemon.type = "CENTRAL" PROVE CentralInv'
  <2>1. selected' = {} /\ round' = round + 1
    BY <1>1, <1>2, <1>6 DEF WaitInv
  <2>2. /\ Copied(config, round) /\ round <= N-1 /\ ~Legitimate(config)
        /\ k \in Privileges(config) /\ \A j \in Privileges(config) : k <= j
    BY <1>0, <1>2, <1>6 DEF ExperimentInv, CentralInv
  <2>3. Copied(config', round') /\ round' <= N-1
    BY <1>1, <1>3, <2>1, <2>2, MoveExtendsPrefix
  <2>4. QED
    BY <2>1, <2>3 DEF CentralInv
<1>7. ASSUME daemon.type # "CENTRAL", Variant = "KSTATE" \/ N <= 4 PROVE SweepInv'
  <2>1. Settling(config, selected, round) \/ Crowded(config, selected, round)
    BY <1>0, <1>7 DEF ExperimentInv, SweepInv
  <2>2. k = 0 => Privileged(config, 0) /\ ~Legitimate(config)
    BY <1>0, <1>2 DEF ExperimentInv
  <2>3. K >= N-1
    BY <1>7, RingInitAccepts
  <2>4. Settling(config', selected', round') \/ Crowded(config', selected', round')
    BY <1>1, <1>2, <1>3, <2>1, <2>2, <2>3, SweepContinues
  <2>5. QED
    BY <2>4 DEF SweepInv
<1>8. QED
  BY <1>0, <1>1, <1>4, <1>5, <1>6, <1>7 DEF ExperimentInv

SchedulerInv == SchedulerTypeOK /\ WaitInv /\ ExperimentInv

\* The experiment and any other caller of the scheduler start in the invariant.
LEMMA SchedulerStarts ==
  ASSUME Variant # "4STATE", ExperimentInit \/ AnyCallerInit
  PROVE  SchedulerInv
<1>0. N \in Nat /\ N >= 2 /\ 0 \in Machine /\ 0 \in LocalState
  BY RingInitAccepts DEF Machine, LocalState
<1>1. /\ selected = {} /\ phase = "update" /\ round = 0
      /\ later = [i \in Machine |-> {}] /\ waited = [i \in Machine |-> 0]
      /\ moves = [bottom |-> 0, others |-> 0] /\ moved = [bottom |-> 0, others |-> 0]
      /\ privilege_mask = {}
  BY DEF ExperimentInit, AnyCallerInit, SchedulerInit
<1>2. SchedulerTypeOK
  <2>1. config \in Config
    BY <1>0 DEF ExperimentInit, AnyCallerInit, Config
  <2>2. /\ daemon.type \in {"CENTRAL", "DISTRIBUTED", "SYNCHRONOUS"} /\ experiment \in BOOLEAN
        /\ daemon.fairness = "ROUND_ROBIN" => daemon.type = "CENTRAL"
        /\ experiment => daemon.fairness # "ROUND_ROBIN"
    BY DEF ExperimentInit, AnyCallerInit
  <2>3. later \in [Machine -> SUBSET Machine] /\ waited \in [Machine -> Nat]
    BY <1>1
  <2>4. QED
    BY <1>1, <2>1, <2>2, <2>3 DEF SchedulerTypeOK
<1>3. LaterOrders(later)
  BY <1>1 DEF LaterOrders
<1>4. \A i \in Machine : waited[i] <= Cardinality(later[i] \cup (selected \ {i}))
  <2>1. TAKE i \in Machine
  <2>2. later[i] \cup (selected \ {i}) = {} /\ waited[i] = 0
    BY <1>1
  <2>3. QED
    BY <2>2, FS_EmptySet
<1>5. WaitInv
  BY <1>1, <1>3, <1>4 DEF WaitInv
<1>6. ASSUME experiment PROVE ExperimentInv
  <2>1. config \in Config /\ daemon.fairness # "ROUND_ROBIN"
    BY <1>2, <1>6 DEF SchedulerTypeOK, ExperimentInit, AnyCallerInit
  <2>2. CentralInv
    BY <1>0, <1>1 DEF CentralInv, Copied
  <2>3. Variant = "KSTATE" \/ N <= 4 => SweepInv
    BY <1>1, <2>1, FirstSweep, RingInitAccepts DEF SweepInv
  <2>4. QED
    BY <1>1, <2>1, <2>2, <2>3 DEF ExperimentInv
<1>7. QED
  BY <1>2, <1>5, <1>6 DEF SchedulerInv, ExperimentInv

\* It serves whom it should, and converges.
LEMMA SchedulerInvServes ==
  ASSUME Variant # "4STATE", SchedulerInv
  PROVE  ExperimentsServe
<1>1. BoundedWait
  BY WaitIsBounded DEF SchedulerInv
<1>2. ASSUME experiment PROVE ExperimentConverges
  <2>1. round \in Nat /\ N \in Nat /\ N >= 2
    BY RingInitAccepts DEF SchedulerInv, SchedulerTypeOK
  <2>2. moves.bottom = moved.bottom /\ moves.others >= moved.others
    BY <1>2 DEF SchedulerInv, ExperimentInv
  <2>3. CASE daemon.type = "CENTRAL"
    BY <1>2, <2>2, <2>3 DEF SchedulerInv, ExperimentInv, CentralInv, Outcome, ExperimentConverges
  <2>4. CASE daemon.type # "CENTRAL" /\ (Variant = "KSTATE" \/ N <= 4)
    <3>1. SweepInv /\ (phase = "done" => Outcome)
      BY <1>2, <2>4 DEF SchedulerInv, ExperimentInv
    <3>2. round <= N * (N-1)
      BY <2>1, <3>1, RoundsBounded DEF SweepInv
    <3>3. QED
      BY <2>2, <2>4, <3>1, <3>2 DEF Outcome, ExperimentConverges
  <2>5. CASE daemon.type # "CENTRAL" /\ ~(Variant = "KSTATE" \/ N <= 4)
    BY <2>2, <2>5 DEF ExperimentConverges
  <2>6. QED
    BY <2>3, <2>4, <2>5
<1>3. QED
  BY <1>1, <1>2 DEF ExperimentsServe, ExperimentConverges

\* Round robin serves every machine that stays privileged within N-1 selections, and
\* the convergence experiment succeeds: under the central daemon after at most N-1
\* rounds, under the others after N*(N-1) in K-state rings, whatever the N and K.
THEOREM ExperimentsAlwaysServe ==
  ASSUME Variant # "4STATE" PROVE CallersSpec => []ExperimentsServe
<1> DEFINE Inv == caller = "SCHEDULER" => SchedulerInv
<1>1. CallersInit => Inv
  BY SchedulerStarts DEF CallersInit
<1>2. ASSUME Inv, [CallersNext]_callersVars PROVE Inv'
  <2>1. SUFFICES ASSUME caller' = "SCHEDULER" PROVE SchedulerInv'
    OBVIOUS
  <2>2. CASE UNCHANGED callersVars
    <3>1. SchedulerInv
      BY <1>2, <2>1, <2>2 DEF callersVars
    <3>2. QED
      BY <2>2, <3>1
      DEF callersVars, schedulerVars, daemonVars, experimentVars, SchedulerInv, SchedulerTypeOK,
          WaitInv, ExperimentInv, CentralInv, SweepInv, Outcome
  <2>3. CASE CallersNext
    <3>1. SchedulerInv /\ SchedulerStep
      BY <1>2, <2>1, <2>3 DEF CallersNext
    <3>2. SchedulerTypeOK' /\ WaitInv'
      BY <3>1, SchedulerTypeStep, WaitStep DEF SchedulerInv, WaitInv
    <3>3. ExperimentInv'
      BY <3>1, FinishStep, UpdateStep, SelectStep, ExecuteStep
      DEF SchedulerInv, SchedulerStep, WaitInv
    <3>4. QED
      BY <3>2, <3>3 DEF SchedulerInv
  <2>4. QED
    BY <1>2, <2>2, <2>3
<1>3. Inv => ExperimentsServe
  <2>1. caller # "SCHEDULER" => ExperimentsServe
    BY DEF ExperimentsServe, BoundedWait, ExperimentConverges
  <2>2. QED
    BY <2>1, SchedulerInvServes
<1>4. QED
  BY <1>1, <1>2, <1>3, PTL DEF CallersSpec
-----------------------------------------------------------------------------
\* The applications.  Their rounds let the nodes take turns, each on what the earlier
\* ones left: functions defined by recursion on the turn.

\* What holds at 0 and passes from each number to the next holds up to n.
LEMMA UpTo ==
  ASSUME NEW n \in Nat, NEW Good, 0 \in Good,
         \A k \in 1 .. n : k - 1 \in Good => k \in Good
  PROVE  \A k \in 0 .. n : k \in Good
<1> DEFINE Bad == {k \in 0 .. n : k \notin Good}
<1>1. SUFFICES ASSUME Bad # {} PROVE FALSE
  OBVIOUS
<1>2. PICK k \in Bad : \A y \in Bad : k <= y
  <2>1. Bad \in SUBSET Nat
    OBVIOUS
  <2> HIDE DEF Bad
  <2>2. QED
    BY <1>1, <2>1, LeastElement
<1>3. k \in 1 .. n /\ k \notin Good
  OBVIOUS
<1>4. k - 1 \in Bad
  BY <1>3
<1>5. QED
  BY <1>2, <1>3, <1>4

\* n steps from a, each by a function on S.
Unfolds(f, S, a, n, G) ==
  f \in [0 .. n -> S] /\ f[0] = a /\ \A k \in 1 .. n : f[k] = G[k][f[k - 1]]

\* A recursion on 0 .. n whose steps stay in S defines a function into S.
LEMMA Recursion ==
  ASSUME NEW S, NEW a \in S, NEW n \in Nat, NEW G \in [1 .. n -> [S -> S]]
  PROVE  \E f : Unfolds(f, S, a, n, G)
<1> DEFINE Good == {m \in 0 .. n : \E f : Unfolds(f, S, a, m, G)}
<1>1. 0 \in Good
  <2> DEFINE c == [k \in 0 .. 0 |-> a]
  <2>1. c \in [0 .. 0 -> S] /\ c[0] = a /\ 0 \in 0 .. n /\ 1 .. 0 = {}
    OBVIOUS
  <2> HIDE DEF c
  <2>2. Unfolds(c, S, a, 0, G)
    BY <2>1 DEF Unfolds
  <2>3. QED
    BY <2>1, <2>2
<1>2. ASSUME NEW m \in 1 .. n, m - 1 \in Good PROVE m \in Good
  <2>1. PICK f : Unfolds(f, S, a, m - 1, G)
    BY <1>2
  <2> DEFINE h == [k \in 0 .. m |-> IF k = m THEN G[m][f[m - 1]] ELSE f[k]]
  <2>2. f[m - 1] \in S /\ G[m][f[m - 1]] \in S
    BY <2>1 DEF Unfolds
  <2>3. h \in [0 .. m -> S] /\ h[0] = a
    BY <2>1, <2>2 DEF Unfolds
  <2>4. ASSUME NEW k \in 1 .. m PROVE h[k] = G[k][h[k - 1]]
    <3>1. k \in 0 .. m /\ k - 1 \in 0 .. m /\ k - 1 # m
      OBVIOUS
    <3>2. CASE k = m
      BY <3>1, <3>2
    <3>3. CASE k # m
      <4>1. k \in 1 .. m - 1 /\ k - 1 \in 0 .. m - 1
        BY <3>3
      <4>2. h[k] = f[k] /\ h[k - 1] = f[k - 1]
        BY <3>1, <3>3
      <4>3. QED
        BY <2>1, <4>1, <4>2 DEF Unfolds
    <3>4. QED
      BY <3>2, <3>3
  <2> HIDE DEF h
  <2>5. Unfolds(h, S, a, m, G) /\ m \in 0 .. n
    BY <2>3, <2>4 DEF Unfolds
  <2>6. QED
    BY <2>5
<1>2a. \A m \in 1 .. n : m - 1 \in Good => m \in Good
  BY <1>2
<1> HIDE DEF Good
<1>3. n \in Good
  <2>1. \A m \in 0 .. n : m \in Good
    BY <1>1, <1>2a, UpTo
  <2>2. QED
    BY <2>1
<1>4. QED
  BY <1>3 DEF Good

\* The tables of all nodes.
Tables == [dist : [Machine -> [Machine -> Nat]], hop : [Machine -> [Machine -> Machine]]]

\* No distance is too short, and a right one comes with the right hop.
SoundTables(t) ==
  \A i, j \in Machine :
    /\ Apart(i, j) <= t.dist[i][j] /\ t.dist[i][j] <= 10 * N
    /\ t.dist[i][j] = Apart(i, j) => t.hop[i][j] = Toward(i, j)
    /\ i = j => t.dist[i][j] = 0

\* The tables are right for destinations r away and nearer.
RightWithin(t, r) == \A i, j \in Machine : Apart(i, j) <= r => t.dist[i][j] = Apart(i, j)

\* Distances on the line.
LEMMA LineDistances ==
  ASSUME NEW i \in Machine, NEW j \in Machine
  PROVE  /\ Apart(i, j) \in Nat /\ Apart(i, j) < N
         /\ Apart(i, j) = 0 <=> i = j
         /\ \A n \in Line(i) : n \in Machine /\ n # i /\ Apart(i, j) <= 1 + Apart(n, j)
         /\ i # j => /\ Toward(i, j) \in Line(i)
                     /\ Apart(i, j) = 1 + Apart(Toward(i, j), j)
                     /\ \A n \in Line(i) : Apart(i, j) = 1 + Apart(n, j) => n = Toward(i, j)
<1>1. N \in Nat /\ N >= 2 /\ i \in 0 .. N-1 /\ j \in 0 .. N-1
  BY RingInitAccepts DEF Machine
<1>2. QED
  BY <1>1 DEF Machine, Line, Apart, Toward

\* A node's best neighbour exists and is unique when some value is below the limit.
LEMMA BestOfLine ==
  ASSUME NEW i \in Machine, NEW value, \A m \in Line(i) : value[m] \in Nat, NEW limit \in Nat,
         \E m \in Line(i) : value[m] < limit
  PROVE  \E n \in Line(i) : /\ BestNeighbor(i, value, limit) = {n} /\ value[n] < limit
                            /\ \A m \in Line(i) : value[n] < value[m] \/ (value[n] = value[m] /\ n <= m)
<1>1. N \in Nat /\ N >= 2 /\ i \in 0 .. N-1 /\ Line(i) \subseteq {i-1, i+1}
  BY RingInitAccepts DEF Machine, Line
<1>2. \E n \in Line(i) : \A m \in Line(i) : value[n] < value[m] \/ (value[n] = value[m] /\ n <= m)
  <2>1. CASE i-1 \in Line(i) /\ i+1 \in Line(i)
    <3>1. value[i-1] \in Nat /\ value[i+1] \in Nat
      BY <2>1
    <3>2. CASE value[i-1] <= value[i+1]
      BY <1>1, <2>1, <3>1, <3>2
    <3>3. CASE value[i+1] < value[i-1]
      BY <1>1, <2>1, <3>1, <3>3
    <3>4. QED
      BY <3>1, <3>2, <3>3
  <2>2. CASE Line(i) = {i-1}
    BY <1>1, <2>2
  <2>3. CASE Line(i) = {i+1}
    BY <1>1, <2>3
  <2>4. QED
    BY <1>1, <2>1, <2>2, <2>3
<1>3. PICK n \in Line(i) : \A m \in Line(i) : value[n] < value[m] \/ (value[n] = value[m] /\ n <= m)
  BY <1>2
<1>4. value[n] < limit
  BY <1>3
<1>5. \A m \in BestNeighbor(i, value, limit) : m = n
  BY <1>1, <1>3 DEF BestNeighbor
<1>6. n \in BestNeighbor(i, value, limit)
  BY <1>3, <1>4 DEF BestNeighbor
<1>7. QED
  BY <1>3, <1>4, <1>5, <1>6

\* One entry of the table of the node whose turn it is: as it was, when no neighbour
\* offers better, or the least of the offers.
LEMMA OfferTaken ==
  ASSUME NEW t \in Tables, SoundTables(t), NEW i \in Machine, NEW j \in Machine
  PROVE  \/ /\ Better(t.dist, i, j) = {}
            /\ i # j => \A m \in Line(i) : t.dist[i][j] <= 1 + t.dist[m][j]
         \/ \E n \in Line(i) :
              /\ i # j /\ Better(t.dist, i, j) = {n} /\ 1 + t.dist[n][j] < t.dist[i][j]
              /\ \A m \in Line(i) : t.dist[n][j] <= t.dist[m][j]
<1> DEFINE value == [m \in Machine |-> 1 + t.dist[m][j]]
<1>0. N \in Nat /\ N >= 2 /\ Line(i) \subseteq Machine
  BY RingInitAccepts DEF Line
<1>1. \A m \in Machine : t.dist[m][j] \in Nat /\ t.dist[m][j] <= 10 * N /\ value[m] = 1 + t.dist[m][j]
  BY DEF Tables, SoundTables
<1>2. \A m \in Line(i) : value[m] \in Nat /\ value[m] < 20 * N
  BY <1>0, <1>1
<1>3. \E m \in Line(i) : TRUE
  <2>1. CASE i = 0
    BY <1>0, <2>1 DEF Line, Machine
  <2>2. CASE i # 0
    BY <1>0, <2>2 DEF Line, Machine
  <2>3. QED
    BY <2>1, <2>2
<1>4. 20 * N \in Nat
  BY <1>0
<1> HIDE DEF value
<1>5. PICK n \in Line(i) : /\ BestNeighbor(i, value, 20 * N) = {n}
                           /\ \A m \in Line(i) : value[n] < value[m] \/ (value[n] = value[m] /\ n <= m)
  BY <1>2, <1>3, <1>4, BestOfLine
<1>6. Better(t.dist, i, j) = {m \in {n} : i # j /\ 1 + t.dist[m][j] < t.dist[i][j]}
  BY <1>5 DEF Better, Improves, value
<1>7. \A m \in Line(i) : t.dist[n][j] <= t.dist[m][j]
  BY <1>0, <1>1, <1>5
<1>8. CASE i # j /\ 1 + t.dist[n][j] < t.dist[i][j]
  BY <1>6, <1>7, <1>8
<1>9. CASE i = j
  BY <1>6, <1>9
<1>10. CASE i # j /\ ~(1 + t.dist[n][j] < t.dist[i][j])
  <2>1. Better(t.dist, i, j) = {}
    BY <1>6, <1>10
  <2>2. \A m \in Line(i) : t.dist[i][j] <= 1 + t.dist[m][j]
    BY <1>0, <1>1, <1>7, <1>10
  <2>3. QED
    BY <2>1, <2>2
<1>11. QED
  BY <1>8, <1>9, <1>10

\* A turn keeps the tables sound, the right entries and the other nodes' tables; what
\* the neighbours know to be right becomes right one step further.
LEMMA TurnTaken ==
  ASSUME NEW t \in Tables, SoundTables(t), NEW i \in Machine
  PROVE  LET u == TakeOffers(t, i) IN
         /\ u \in Tables /\ SoundTables(u)
         /\ \A k \in Machine \ {i} : u.dist[k] = t.dist[k]
         /\ \A k, j \in Machine : t.dist[k][j] = Apart(k, j) => u.dist[k][j] = Apart(k, j)
         /\ \A r \in Nat, j \in Machine :
              Apart(i, j) <= r + 1
              /\ (\A n \in Line(i) : Apart(n, j) <= r => t.dist[n][j] = Apart(n, j))
                => u.dist[i][j] = Apart(i, j)
<1> DEFINE u == TakeOffers(t, i)
           from(j) == CHOOSE n \in Better(t.dist, i, j) : TRUE
<1>0. N \in Nat /\ N >= 2 /\ Line(i) \subseteq Machine /\ Machine \subseteq Nat
  BY RingInitAccepts DEF Line, Machine
<1>1. /\ \A k, j \in Machine : t.dist[k][j] \in Nat /\ t.hop[k][j] \in Machine
      /\ t.dist \in [Machine -> [Machine -> Nat]] /\ t.hop \in [Machine -> [Machine -> Machine]]
  BY DEF Tables
<1>2. /\ u.dist = [t.dist EXCEPT ![i] = [j \in Machine |->
             IF Better(t.dist, i, j) = {} THEN t.dist[i][j] ELSE 1 + t.dist[from(j)][j]]]
      /\ u.hop = [t.hop EXCEPT ![i] = [j \in Machine |->
             IF Better(t.dist, i, j) = {} THEN t.hop[i][j] ELSE from(j)]]
      /\ u = [dist |-> u.dist, hop |-> u.hop]
  BY DEF TakeOffers
<1> HIDE DEF u
<1>3. ASSUME NEW j \in Machine
      PROVE  \/ /\ u.dist[i][j] = t.dist[i][j] /\ u.hop[i][j] = t.hop[i][j]
                /\ i # j => \A m \in Line(i) : t.dist[i][j] <= 1 + t.dist[m][j]
             \/ \E n \in Line(i) :
                  /\ u.dist[i][j] = 1 + t.dist[n][j] /\ u.hop[i][j] = n
                  /\ i # j /\ 1 + t.dist[n][j] < t.dist[i][j]
                  /\ \A m \in Line(i) : t.dist[n][j] <= t.dist[m][j]
  <2>0. /\ u.dist[i] = [m \in Machine |->
                IF Better(t.dist, i, m) = {} THEN t.dist[i][m] ELSE 1 + t.dist[from(m)][m]]
        /\ u.hop[i] = [m \in Machine |-> IF Better(t.dist, i, m) = {} THEN t.hop[i][m] ELSE from(m)]
    BY <1>1, <1>2
  <2> HIDE DEF from
  <2>1. /\ u.dist[i][j] = IF Better(t.dist, i, j) = {} THEN t.dist[i][j] ELSE 1 + t.dist[from(j)][j]
        /\ u.hop[i][j] = IF Better(t.dist, i, j) = {} THEN t.hop[i][j] ELSE from(j)
    BY <2>0
  <2>2. CASE Better(t.dist, i, j) = {}
    <3>1. i # j => \A m \in Line(i) : t.dist[i][j] <= 1 + t.dist[m][j]
      BY <2>2, OfferTaken
    <3>2. QED
      BY <2>1, <2>2, <3>1
  <2>3. CASE Better(t.dist, i, j) # {}
    <3>1. PICK n \in Line(i) :
              /\ i # j /\ Better(t.dist, i, j) = {n} /\ 1 + t.dist[n][j] < t.dist[i][j]
              /\ \A m \in Line(i) : t.dist[n][j] <= t.dist[m][j]
      BY <2>3, OfferTaken
    <3>2. from(j) = n
      BY <3>1 DEF from
    <3>3. QED
      BY <2>1, <2>3, <3>1, <3>2
  <2>4. QED
    BY <2>2, <2>3
<1> HIDE DEF from
<1>4. \A k \in Machine \ {i} : u.dist[k] = t.dist[k] /\ u.hop[k] = t.hop[k]
  BY <1>1, <1>2
<1>5. ASSUME NEW j \in Machine
      PROVE  /\ u.dist[i][j] \in Nat /\ u.hop[i][j] \in Machine
             /\ Apart(i, j) <= u.dist[i][j] /\ u.dist[i][j] <= t.dist[i][j]
             /\ u.dist[i][j] = Apart(i, j) => u.hop[i][j] = Toward(i, j)
  <2>1. CASE u.dist[i][j] = t.dist[i][j] /\ u.hop[i][j] = t.hop[i][j]
    <3>1. /\ t.dist[i][j] \in Nat /\ t.hop[i][j] \in Machine /\ Apart(i, j) <= t.dist[i][j]
          /\ t.dist[i][j] = Apart(i, j) => t.hop[i][j] = Toward(i, j)
      BY <1>1 DEF SoundTables
    <3>2. QED
      BY <2>1, <3>1
  <2>2. ASSUME NEW n \in Line(i), u.dist[i][j] = 1 + t.dist[n][j], u.hop[i][j] = n, i # j,
               1 + t.dist[n][j] < t.dist[i][j]
        PROVE  /\ u.dist[i][j] \in Nat /\ u.hop[i][j] \in Machine
               /\ Apart(i, j) <= u.dist[i][j] /\ u.dist[i][j] <= t.dist[i][j]
               /\ u.dist[i][j] = Apart(i, j) => u.hop[i][j] = Toward(i, j)
    <3>1. n \in Machine /\ t.dist[n][j] \in Nat /\ t.dist[i][j] \in Nat /\ Apart(n, j) <= t.dist[n][j]
      BY <1>0, <1>1 DEF SoundTables
    <3>2. /\ Apart(i, j) \in Nat /\ Apart(n, j) \in Nat /\ Apart(i, j) <= 1 + Apart(n, j)
          /\ Apart(i, j) = 1 + Apart(n, j) => n = Toward(i, j)
      BY <2>2, <3>1, LineDistances
    <3>3. Apart(i, j) <= u.dist[i][j] /\ u.dist[i][j] <= t.dist[i][j]
      BY <2>2, <3>1, <3>2
    <3>4. u.dist[i][j] = Apart(i, j) => Apart(i, j) = 1 + Apart(n, j)
      BY <2>2, <3>1, <3>2
    <3>5. QED
      BY <2>2, <3>1, <3>2, <3>3, <3>4
  <2>3. QED
    BY <1>3, <2>1, <2>2
<1>6. u \in Tables
  <2>1. /\ \A k \in Machine \ {i} : u.dist[k] \in [Machine -> Nat] /\ u.hop[k] \in [Machine -> Machine]
        /\ DOMAIN u.dist = Machine /\ DOMAIN u.hop = Machine
    BY <1>1, <1>2, <1>4
  <2>2. u.dist[i] \in [Machine -> Nat] /\ u.hop[i] \in [Machine -> Machine]
    BY <1>1, <1>2, <1>5
  <2>3. u.dist \in [Machine -> [Machine -> Nat]] /\ u.hop \in [Machine -> [Machine -> Machine]]
    BY <1>2, <2>1, <2>2
  <2>4. QED
    BY <1>2, <2>3 DEF Tables
<1>7. SoundTables(u)
  <2>1. SUFFICES ASSUME NEW k \in Machine, NEW j \in Machine
                 PROVE  /\ Apart(k, j) <= u.dist[k][j] /\ u.dist[k][j] <= 10 * N
                        /\ u.dist[k][j] = Apart(k, j) => u.hop[k][j] = Toward(k, j)
                        /\ k = j => u.dist[k][j] = 0
    BY DEF SoundTables
  <2>2. CASE k # i
    BY <1>4, <2>2 DEF SoundTables
  <2>3. CASE k = i
    <3>0. t.dist[i][j] <= 10 * N
      BY DEF SoundTables
    <3>1. t.dist[i][j] <= 10 * N /\ t.dist[i][j] \in Nat /\ 10 * N \in Nat
      BY <1>0, <1>1, <3>0
    <3>2. i = j => u.dist[i][j] = 0
      BY <1>3 DEF SoundTables
    <3>3. QED
      BY <1>5, <2>3, <3>1, <3>2
  <2>4. QED
    BY <2>2, <2>3
<1>8. ASSUME NEW k \in Machine, NEW j \in Machine, t.dist[k][j] = Apart(k, j)
      PROVE  u.dist[k][j] = Apart(k, j)
  <2>1. CASE k # i
    BY <1>4, <1>8, <2>1
  <2>2. CASE k = i
    <3>1. /\ u.dist[i][j] \in Nat /\ Apart(i, j) \in Nat /\ t.dist[i][j] = Apart(i, j)
          /\ Apart(i, j) <= u.dist[i][j] /\ u.dist[i][j] <= t.dist[i][j]
      BY <1>5, <1>8, <2>2, LineDistances
    <3>2. QED
      BY <2>2, <3>1
  <2>3. QED
    BY <2>1, <2>2
<1>9. ASSUME NEW r \in Nat, NEW j \in Machine, Apart(i, j) <= r + 1,
             \A n \in Line(i) : Apart(n, j) <= r => t.dist[n][j] = Apart(n, j)
      PROVE  u.dist[i][j] = Apart(i, j)
  <2>1. CASE i = j
    <3>1. t.dist[i][j] = Apart(i, j)
      BY <2>1, LineDistances DEF SoundTables
    <3>2. QED
      BY <1>8, <3>1
  <2>2. CASE i # j
    <3> DEFINE m == Toward(i, j)
    <3>1. m \in Line(i) /\ m \in Machine /\ Apart(i, j) = 1 + Apart(m, j)
          /\ Apart(m, j) \in Nat /\ Apart(i, j) \in Nat
      BY <1>0, <2>2, LineDistances
    <3> HIDE DEF m
    <3>2. t.dist[m][j] = Apart(m, j)
      BY <1>9, <3>1
    <3>3. u.dist[i][j] <= 1 + t.dist[m][j]
      <4>1. /\ t.dist[m][j] \in Nat /\ t.dist[i][j] \in Nat
            /\ \A n \in Line(i) : t.dist[n][j] \in Nat
        BY <1>0, <1>1, <3>1
      <4>2. QED
        BY <1>3, <2>2, <3>1, <4>1
    <3>4. QED
      BY <1>5, <3>1, <3>2, <3>3
  <2>3. QED
    BY <2>1, <2>2
<1>10. QED
  BY <1>4, <1>6, <1>7, <1>8, <1>9 DEF u

Sound == {t \in Tables : SoundTables(t)}

\* A routing round is the sequence of its turns.
LEMMA RoutingTurns ==
  ASSUME [dist |-> distance, hop |-> via] \in Sound
  PROVE  /\ RoutingTurn[0] = [dist |-> distance, hop |-> via]
         /\ \A k \in 1 .. N : RoutingTurn[k] = TakeOffers(RoutingTurn[k - 1], k - 1)
<1> DEFINE a == [dist |-> distance, hop |-> via]
           G == [k \in 1 .. N |-> [t \in Sound |-> TakeOffers(t, k - 1)]]
           Turn(f) == [k \in 0 .. N |-> IF k = 0 THEN a ELSE TakeOffers(f[k - 1], k - 1)]
<1>0. N \in Nat /\ N >= 2
  BY RingInitAccepts
<1>1. G \in [1 .. N -> [Sound -> Sound]]
  <2>1. \A k \in 1 .. N : k - 1 \in Machine
    BY <1>0 DEF Machine
  <2>2. \A k \in 1 .. N, t \in Sound : TakeOffers(t, k - 1) \in Sound
    BY <2>1, TurnTaken DEF Sound
  <2>3. QED
    BY <2>2
<1>2. \A k \in 1 .. N, t \in Sound : G[k][t] = TakeOffers(t, k - 1)
  OBVIOUS
<1> HIDE DEF G, a
<1>3. PICK f : Unfolds(f, Sound, a, N, G)
  BY <1>0, <1>1, Recursion DEF a
<1>4. f = Turn(f)
  <2>1. f \in [0 .. N -> Sound] /\ f[0] = a
    BY <1>3 DEF Unfolds
  <2>2. \A k \in 1 .. N : f[k - 1] \in Sound /\ f[k] = TakeOffers(f[k - 1], k - 1)
    <3>1. TAKE k \in 1 .. N
    <3>2. k - 1 \in 0 .. N
      BY <1>0
    <3>3. f[k - 1] \in Sound /\ f[k] = G[k][f[k - 1]]
      BY <1>3, <2>1, <3>2 DEF Unfolds
    <3>4. QED
      BY <1>2, <3>3
  <2>3. \A k \in 0 .. N : f[k] = IF k = 0 THEN a ELSE TakeOffers(f[k - 1], k - 1)
    <3>1. TAKE k \in 0 .. N
    <3>2. CASE k = 0
      BY <2>1, <3>2
    <3>3. CASE k # 0
      <4>1. k \in 1 .. N
        BY <1>0, <3>3
      <4>2. QED
        BY <2>2, <3>3, <4>1
    <3>4. QED
      BY <3>2, <3>3
  <2>4. QED
    BY <2>1, <2>3
<1>5. RoutingTurn = CHOOSE g : g = Turn(g)
  BY DEF RoutingTurn, a
<1>6. RoutingTurn = Turn(RoutingTurn)
  BY <1>4, <1>5
<1>7. RoutingTurn[0] = a
  BY <1>0, <1>6
<1>8. \A k \in 1 .. N : RoutingTurn[k] = TakeOffers(RoutingTurn[k - 1], k - 1)
  <2>1. TAKE k \in 1 .. N
  <2>2. k \in 0 .. N /\ k # 0
    BY <1>0
  <2>3. QED
    BY <1>6, <2>2
<1>9. QED
  BY <1>7, <1>8 DEF a

\* A round of sound tables leaves sound tables, right one step further than before.
LEMMA RoutingRoundRepairs ==
  ASSUME [dist |-> distance, hop |-> via] \in Sound
  PROVE  /\ RoutingTurn[N] \in Sound
         /\ \A r \in Nat : RightWithin([dist |-> distance, hop |-> via], r)
                             => RightWithin(RoutingTurn[N], r + 1)
<1> DEFINE F == RoutingTurn
           a == [dist |-> distance, hop |-> via]
           Done(t, k, r) == \A i, j \in Machine : i < k /\ Apart(i, j) <= r + 1 => t.dist[i][j] = Apart(i, j)
<1>0. N \in Nat /\ N >= 2 /\ Machine = 0 .. N-1
  BY RingInitAccepts DEF Machine
<1>1. F[0] = a /\ \A k \in 1 .. N : F[k] = TakeOffers(F[k - 1], k - 1)
  BY RoutingTurns
<1> HIDE DEF F, a
<1>2. a \in Sound
  BY DEF a
<1>3. \A k \in 0 .. N : F[k] \in Sound
  <2> DEFINE Good == {k \in 0 .. N : F[k] \in Sound}
  <2>1. 0 \in Good
    BY <1>0, <1>1, <1>2
  <2>2. \A k \in 1 .. N : k - 1 \in Good => k \in Good
    <3>1. TAKE k \in 1 .. N
    <3>2. k - 1 \in Machine
      BY <1>0
    <3>3. QED
      BY <1>1, <3>2, TurnTaken DEF Sound
  <2> HIDE DEF Good
  <2>3. \A k \in 0 .. N : k \in Good
    BY <1>0, <2>1, <2>2, UpTo
  <2>4. QED
    BY <2>3 DEF Good
<1>4. ASSUME NEW r \in Nat, RightWithin(a, r) PROVE RightWithin(F[N], r + 1)
  <2> DEFINE Good == {k \in 0 .. N : RightWithin(F[k], r) /\ Done(F[k], k, r)}
  <2>1. 0 \in Good
    BY <1>0, <1>1, <1>4
  <2>2. ASSUME NEW k \in 1 .. N, k - 1 \in Good PROVE k \in Good
    <3> DEFINE t == F[k - 1]
               u == F[k]
    <3>1. k - 1 \in Machine /\ t \in Tables /\ SoundTables(t) /\ u = TakeOffers(t, k - 1)
          /\ Line(k - 1) \subseteq Machine
      BY <1>0, <1>1, <1>3 DEF Sound, Line
    <3>2. RightWithin(t, r) /\ Done(t, k - 1, r)
      BY <2>2
    <3> HIDE DEF t, u
    <3>3. /\ \A i \in Machine \ {k - 1} : u.dist[i] = t.dist[i]
          /\ \A i, j \in Machine : t.dist[i][j] = Apart(i, j) => u.dist[i][j] = Apart(i, j)
          /\ \A j \in Machine :
               Apart(k - 1, j) <= r + 1
               /\ (\A n \in Line(k - 1) : Apart(n, j) <= r => t.dist[n][j] = Apart(n, j))
                 => u.dist[k - 1][j] = Apart(k - 1, j)
      BY <3>1, TurnTaken
    <3>4. RightWithin(u, r)
      BY <3>2, <3>3 DEF RightWithin
    <3>5. \A j \in Machine : Apart(k - 1, j) <= r + 1 => u.dist[k - 1][j] = Apart(k - 1, j)
      BY <3>1, <3>2, <3>3 DEF RightWithin
    <3>6. Done(u, k, r)
      <4>1. SUFFICES ASSUME NEW i \in Machine, NEW j \in Machine, i < k, Apart(i, j) <= r + 1
                     PROVE  u.dist[i][j] = Apart(i, j)
        OBVIOUS
      <4>2. CASE i = k - 1
        BY <3>5, <4>1, <4>2
      <4>3. CASE i # k - 1
        <5>1. i < k - 1
          BY <1>0, <4>1, <4>3
        <5>2. QED
          BY <3>2, <3>3, <4>1, <5>1
      <4>4. QED
        BY <4>2, <4>3
    <3>7. QED
      BY <3>4, <3>6 DEF u
  <2>3. \A k \in 1 .. N : k - 1 \in Good => k \in Good
    BY <2>2
  <2> HIDE DEF Good
  <2>4. \A k \in 0 .. N : k \in Good
    BY <1>0, <2>1, <2>3, UpTo
  <2>5. Done(F[N], N, r)
    BY <1>0, <2>4 DEF Good
  <2>6. QED
    BY <1>0, <2>5 DEF RightWithin
<1>5. QED
  BY <1>0, <1>3, <1>4 DEF F, a

RoutingInv ==
  application = "ROUTING" =>
    LET t == [dist |-> distance, hop |-> via]
    IN  t \in Sound /\ RightWithin(t, app_round) /\ (ended => RightWithin(t, N))

\* The set-up of the routing recovery: right distances or much too long ones.
LEMMA RoutingStarts ==
  ASSUME AppInit
  PROVE  RoutingInv
<1> DEFINE t == [dist |-> distance, hop |-> via]
<1>0. N \in Nat /\ N >= 2 /\ app_round = 0 /\ ended = FALSE
  BY RingInitAccepts DEF AppInit
<1>1. SUFFICES ASSUME application = "ROUTING" PROVE t \in Sound /\ RightWithin(t, 0)
  BY <1>0 DEF RoutingInv
<1>2. RoutingInit
  BY <1>1 DEF AppInit, TreeInit, SyncInit
<1>3. PICK bad \in SUBSET {p \in Machine \X Machine : p[1] # p[2]} :
        /\ distance = [i \in Machine |->
                         [j \in Machine |-> IF <<i, j>> \in bad THEN 10 * N ELSE Apart(i, j)]]
        /\ \E hop \in [bad -> Machine] :
             via = [i \in Machine |->
                      [j \in Machine |-> IF <<i, j>> \in bad THEN hop[<<i, j>>] ELSE Toward(i, j)]]
  BY <1>2 DEF RoutingInit
<1>4. PICK hop \in [bad -> Machine] :
        via = [i \in Machine |->
                 [j \in Machine |-> IF <<i, j>> \in bad THEN hop[<<i, j>>] ELSE Toward(i, j)]]
  BY <1>3
<1>5. ASSUME NEW i \in Machine, NEW j \in Machine
      PROVE  /\ distance[i][j] \in Nat /\ via[i][j] \in Machine
             /\ Apart(i, j) <= distance[i][j] /\ distance[i][j] <= 10 * N
             /\ distance[i][j] = Apart(i, j) => via[i][j] = Toward(i, j)
             /\ i = j => distance[i][j] = 0
             /\ Apart(i, j) <= 0 => distance[i][j] = Apart(i, j)
  <2>1. Apart(i, j) \in Nat /\ Apart(i, j) < N /\ (Apart(i, j) = 0 <=> i = j)
    BY LineDistances
  <2>2. Toward(i, j) \in Machine
    BY RingInitAccepts DEF Machine, Toward
  <2>3. distance[i][j] = IF <<i, j>> \in bad THEN 10 * N ELSE Apart(i, j)
    BY <1>3
  <2>4. via[i][j] = IF <<i, j>> \in bad THEN hop[<<i, j>>] ELSE Toward(i, j)
    BY <1>4
  <2>5. CASE <<i, j>> \in bad
    <3>1. i # j /\ hop[<<i, j>>] \in Machine
      BY <1>3, <1>4, <2>5
    <3>2. 10 * N \in Nat /\ Apart(i, j) < 10 * N
      BY <1>0, <2>1
    <3>3. QED
      BY <2>1, <2>3, <2>4, <2>5, <3>1, <3>2
  <2>6. CASE <<i, j>> \notin bad
    BY <1>0, <2>1, <2>2, <2>3, <2>4, <2>6
  <2>7. QED
    BY <2>5, <2>6
<1>6. distance \in [Machine -> [Machine -> Nat]] /\ via \in [Machine -> [Machine -> Machine]]
  <2>1. \A i \in Machine : DOMAIN distance[i] = Machine /\ DOMAIN via[i] = Machine
    BY <1>3, <1>4
  <2>2. /\ \A i \in Machine : distance[i] = [j \in Machine |-> distance[i][j]]
        /\ \A i \in Machine : via[i] = [j \in Machine |-> via[i][j]]
    BY <1>3, <1>4
  <2>3. \A i \in Machine : distance[i] \in [Machine -> Nat] /\ via[i] \in [Machine -> Machine]
    BY <1>5, <2>2
  <2>4. QED
    BY <1>3, <1>4, <2>3
<1>7. t.dist = distance /\ t.hop = via
  OBVIOUS
<1>8. t \in Tables
  BY <1>6 DEF Tables
<1> HIDE DEF t
<1>9. SoundTables(t) /\ RightWithin(t, 0)
  BY <1>5, <1>7 DEF SoundTables, RightWithin
<1>10. QED
  BY <1>8, <1>9 DEF Sound

\* Round by round the tables become right one step further; when a round changes no
\* distance, they are right all over.
LEMMA RoutingStep ==
  ASSUME RoutingInv, app_round \in Nat, AppStep
  PROVE  RoutingInv'
<1> DEFINE t == [dist |-> distance, hop |-> via]
           u == [dist |-> distance', hop |-> via']
<1>0. N \in Nat /\ N >= 2 /\ app_round' = app_round + 1 /\ application' = application
  BY RingInitAccepts DEF AppStep
<1>1. SUFFICES ASSUME application = "ROUTING"
               PROVE  u \in Sound /\ RightWithin(u, app_round') /\ (ended' => RightWithin(u, N))
  BY <1>0 DEF RoutingInv
<1>2. /\ distance' = RoutingTurn[N].dist /\ via' = RoutingTurn[N].hop
      /\ ended' = (distance' = distance)
  BY <1>1 DEF AppStep, RoutingRound, TreeRound, SyncRound
<1>3. t \in Sound /\ RightWithin(t, app_round)
  BY <1>1 DEF RoutingInv
<1>4. /\ RoutingTurn[N] \in Sound
      /\ \A r \in Nat : RightWithin(t, r) => RightWithin(RoutingTurn[N], r + 1)
  BY <1>3, RoutingRoundRepairs
<1>5. u = RoutingTurn[N]
  BY <1>2, <1>4 DEF Sound, Tables
<1>6. ASSUME ended' PROVE RightWithin(u, N)
  <2> DEFINE Good == {r \in 0 .. N : RightWithin(t, r)}
  <2>1. 0 \in Good
    <3>1. \A i, j \in Machine : Apart(i, j) <= 0 => Apart(i, j) <= app_round
      BY <1>0, LineDistances
    <3>2. QED
      BY <1>0, <1>3, <3>1 DEF RightWithin
  <2>2. ASSUME NEW r \in 1 .. N, r - 1 \in Good PROVE r \in Good
    <3>1. r - 1 \in Nat /\ (r - 1) + 1 = r
      BY <1>0
    <3>2. RightWithin(t, r - 1)
      BY <2>2
    <3>3. RightWithin(RoutingTurn[N], r)
      BY <1>4, <3>1, <3>2
    <3>4. u.dist = t.dist
      BY <1>2, <1>6
    <3>5. QED
      BY <1>0, <1>5, <3>3, <3>4 DEF RightWithin
  <2>2a. \A r \in 1 .. N : r - 1 \in Good => r \in Good
    BY <2>2
  <2> HIDE DEF Good
  <2>3. \A r \in 0 .. N : r \in Good
    BY <1>0, <2>1, <2>2a, UpTo
  <2>4. RightWithin(t, N)
    BY <1>0, <2>3 DEF Good
  <2>5. u.dist = t.dist
    BY <1>2, <1>6
  <2>6. QED
    BY <2>4, <2>5 DEF RightWithin
<1>7. QED
  BY <1>0, <1>3, <1>4, <1>5, <1>6

\* The tree of all nodes, its root in place.
RootedTree ==
  {t \in [dist : [Machine -> Nat], hop : [Machine -> Machine]] : t.dist[0] = 0}

\* A turn keeps the root in place.
LEMMA JoinKeepsRoot ==
  ASSUME NEW t \in RootedTree, NEW k \in 1 .. N-1
  PROVE  JoinClosest(t, k) \in RootedTree
<1> DEFINE best == BestNeighbor(k, t.dist, N)
           p == CHOOSE n \in best : TRUE
<1>0. N \in Nat /\ N >= 2 /\ k \in Machine /\ k # 0 /\ 0 \in Machine
  BY RingInitAccepts DEF Machine
<1>1. CASE best = {}
  BY <1>1 DEF JoinClosest
<1>2. CASE best # {}
  <2>1. p \in best /\ best \subseteq Machine
    BY <1>2 DEF BestNeighbor, Line
  <2>2. JoinClosest(t, k) = [dist |-> [t.dist EXCEPT ![k] = 1 + t.dist[p]], hop |-> [t.hop EXCEPT ![k] = p]]
    BY <1>2 DEF JoinClosest
  <2> HIDE DEF p, best
  <2>3. t.dist \in [Machine -> Nat] /\ t.hop \in [Machine -> Machine] /\ t.dist[0] = 0
    BY DEF RootedTree
  <2> DEFINE D == [t.dist EXCEPT ![k] = 1 + t.dist[p]]
             H == [t.hop EXCEPT ![k] = p]
  <2>4. D \in [Machine -> Nat] /\ H \in [Machine -> Machine] /\ D[0] = 0
    BY <1>0, <2>1, <2>3
  <2>5. JoinClosest(t, k) = [dist |-> D, hop |-> H]
    BY <2>2
  <2> HIDE DEF D, H
  <2>6. [dist |-> D, hop |-> H] \in [dist : [Machine -> Nat], hop : [Machine -> Machine]]
    BY <2>4
  <2>7. [dist |-> D, hop |-> H].dist[0] = 0
    BY <2>4
  <2>8. QED
    BY <2>5, <2>6, <2>7 DEF RootedTree
<1>3. QED
  BY <1>1, <1>2

\* A tree round is the sequence of its turns.
LEMMA TreeTurns ==
  ASSUME [dist |-> distance, hop |-> via] \in RootedTree
  PROVE  /\ TreeTurn[0] = [dist |-> distance, hop |-> via]
         /\ \A k \in 1 .. N-1 : TreeTurn[k] = JoinClosest(TreeTurn[k - 1], k)
<1> DEFINE a == [dist |-> distance, hop |-> via]
           G == [k \in 1 .. N-1 |-> [t \in RootedTree |-> JoinClosest(t, k)]]
           Turn(f) == [k \in 0 .. N-1 |-> IF k = 0 THEN a ELSE JoinClosest(f[k - 1], k)]
<1>0. N \in Nat /\ N >= 2 /\ N-1 \in Nat
  BY RingInitAccepts
<1>1. G \in [1 .. N-1 -> [RootedTree -> RootedTree]]
  BY JoinKeepsRoot
<1>2. \A k \in 1 .. N-1, t \in RootedTree : G[k][t] = JoinClosest(t, k)
  OBVIOUS
<1> HIDE DEF G, a
<1>3. PICK f : Unfolds(f, RootedTree, a, N-1, G)
  BY <1>0, <1>1, Recursion DEF a
<1>4. f = Turn(f)
  <2>1. f \in [0 .. N-1 -> RootedTree] /\ f[0] = a
    BY <1>3 DEF Unfolds
  <2>2. \A k \in 1 .. N-1 : f[k - 1] \in RootedTree /\ f[k] = JoinClosest(f[k - 1], k)
    <3>1. TAKE k \in 1 .. N-1
    <3>2. k - 1 \in 0 .. N-1
      BY <1>0
    <3>3. f[k - 1] \in RootedTree /\ f[k] = G[k][f[k - 1]]
      BY <1>3, <2>1, <3>2 DEF Unfolds
    <3>4. QED
      BY <1>2, <3>3
  <2>3. \A k \in 0 .. N-1 : f[k] = IF k = 0 THEN a ELSE JoinClosest(f[k - 1], k)
    <3>1. TAKE k \in 0 .. N-1
    <3>2. CASE k = 0
      BY <2>1, <3>2
    <3>3. CASE k # 0
      <4>1. k \in 1 .. N-1
        BY <1>0, <3>3
      <4>2. QED
        BY <2>2, <3>3, <4>1
    <3>4. QED
      BY <3>2, <3>3
  <2>4. QED
    BY <2>1, <2>3
<1>5. TreeTurn = CHOOSE g : g = Turn(g)
  BY DEF TreeTurn, a
<1>6. TreeTurn = Turn(TreeTurn)
  BY <1>4, <1>5
<1>7. TreeTurn[0] = a
  BY <1>0, <1>6
<1>8. \A k \in 1 .. N-1 : TreeTurn[k] = JoinClosest(TreeTurn[k - 1], k)
  <2>1. TAKE k \in 1 .. N-1
  <2>2. k \in 0 .. N-1 /\ k # 0
    BY <1>0
  <2>3. QED
    BY <1>6, <2>2
<1>9. QED
  BY <1>7, <1>8 DEF a

\* Whose predecessor is near enough to the root joins the closer of its neighbours.
LEMMA Joined ==
  ASSUME NEW t \in RootedTree, NEW k \in 1 .. N-1, t.dist[k - 1] <= k - 1
  PROVE  \E p \in Line(k) :
           /\ JoinClosest(t, k).dist = [t.dist EXCEPT ![k] = 1 + t.dist[p]]
           /\ JoinClosest(t, k).hop = [t.hop EXCEPT ![k] = p]
           /\ \A m \in Line(k) : t.dist[p] < t.dist[m] \/ (t.dist[p] = t.dist[m] /\ p <= m)
<1>0. N \in Nat /\ N >= 2 /\ k \in Machine /\ k - 1 \in Line(k) /\ Line(k) \subseteq Machine
  BY RingInitAccepts DEF Machine, Line
<1>1. \A m \in Line(k) : t.dist[m] \in Nat
  BY <1>0 DEF RootedTree
<1>2. t.dist[k - 1] < N
  BY <1>0, <1>1
<1>3. PICK p \in Line(k) :
        /\ BestNeighbor(k, t.dist, N) = {p}
        /\ \A m \in Line(k) : t.dist[p] < t.dist[m] \/ (t.dist[p] = t.dist[m] /\ p <= m)
  BY <1>0, <1>1, <1>2, BestOfLine
<1> DEFINE D == [t.dist EXCEPT ![k] = 1 + t.dist[p]]
           H == [t.hop EXCEPT ![k] = p]
<1>4. JoinClosest(t, k) = [dist |-> D, hop |-> H]
  BY <1>3 DEF JoinClosest
<1> HIDE DEF D, H
<1>5. JoinClosest(t, k).dist = D /\ JoinClosest(t, k).hop = H
  BY <1>4
<1>6. QED
  BY <1>3, <1>5 DEF D, H

\* A distance is not below the node's own or not below r: what r rounds have ruled out.
NotBelow(d, r) == \A i \in Machine : d[i] >= i \/ d[i] >= r

\* A round rules out one distance more, and no distance is too long after it.
LEMMA TreeRoundRepairs ==
  ASSUME [dist |-> distance, hop |-> via] \in RootedTree, NEW r \in Nat, NotBelow(distance, r)
  PROVE  LET u == TreeTurn[N-1] IN
         /\ u \in RootedTree /\ NotBelow(u.dist, r + 1)
         /\ \A i \in Machine : u.dist[i] <= i
         /\ r + 1 >= N => \A i \in Machine \ {0} : u.hop[i] = i - 1
<1> DEFINE F == TreeTurn
           a == [dist |-> distance, hop |-> via]
           Right(t, i) == /\ (t.dist[i] >= i \/ t.dist[i] >= r + 1) /\ t.dist[i] <= i
                          /\ r + 1 >= N /\ i # 0 => t.hop[i] = i - 1
           Done(t, k) == \A i \in Machine : IF i <= k THEN Right(t, i) ELSE t.dist[i] = distance[i]
           Good == {k \in 0 .. N-1 : F[k] \in RootedTree /\ Done(F[k], k)}
<1>0. N \in Nat /\ N >= 2 /\ Machine = 0 .. N-1
  BY RingInitAccepts DEF Machine
<1>1. F[0] = a /\ \A k \in 1 .. N-1 : F[k] = JoinClosest(F[k - 1], k)
  BY TreeTurns
<1> HIDE DEF F
<1>2. a.dist = distance /\ a \in RootedTree
  OBVIOUS
<1> HIDE DEF a
<1>3. 0 \in Good
  <2>1. a.dist[0] = 0 /\ \A i \in Machine : i <= 0 => i = 0
    BY <1>0, <1>2 DEF RootedTree
  <2>2. QED
    BY <1>0, <1>1, <1>2, <2>1
<1>4. ASSUME NEW k \in 1 .. N-1, k - 1 \in Good PROVE k \in Good
  <2> DEFINE t == F[k - 1]
             u == F[k]
  <2>1. /\ t \in RootedTree /\ Done(t, k - 1) /\ u = JoinClosest(t, k)
        /\ k \in Machine /\ k - 1 \in Machine /\ k # 0 /\ k \in 0 .. N-1 /\ k \in Nat
    BY <1>0, <1>1, <1>4
  <2> HIDE DEF t, u, F
  <2>2. u \in RootedTree
    BY <2>1, JoinKeepsRoot
  <2>2a. /\ t.dist \in [Machine -> Nat] /\ t.hop \in [Machine -> Machine]
         /\ \A i \in Machine : t.dist[i] \in Nat
    BY <2>1 DEF RootedTree
  <2>2b. Right(t, k - 1)
    <3>1. k - 1 <= k - 1
      BY <2>1
    <3>2. QED
      BY <2>1, <3>1
  <2>3. /\ t.dist \in [Machine -> Nat] /\ t.hop \in [Machine -> Machine]
        /\ \A i \in Machine : t.dist[i] \in Nat
        /\ t.dist[k - 1] <= k - 1 /\ (t.dist[k - 1] >= k - 1 \/ t.dist[k - 1] >= r + 1)
    BY <2>2a, <2>2b
  <2>4. PICK p \in Line(k) :
          /\ u.dist = [t.dist EXCEPT ![k] = 1 + t.dist[p]] /\ u.hop = [t.hop EXCEPT ![k] = p]
          /\ \A m \in Line(k) : t.dist[p] < t.dist[m] \/ (t.dist[p] = t.dist[m] /\ p <= m)
    BY <2>1, <2>3, Joined
  <2>5. /\ u.dist[k] = 1 + t.dist[p] /\ u.hop[k] = p
        /\ \A i \in Machine \ {k} : u.dist[i] = t.dist[i] /\ u.hop[i] = t.hop[i]
    BY <2>1, <2>3, <2>4
  <2>6. /\ k - 1 \in Line(k) /\ p \in Machine /\ (p = k - 1 \/ p = k + 1)
    BY <1>0, <2>1, <2>4 DEF Line
  <2>6a. t.dist[p] \in Nat /\ t.dist[k - 1] \in Nat
    BY <2>1, <2>3, <2>6
  <2>6b. t.dist[p] < t.dist[k - 1] \/ (t.dist[p] = t.dist[k - 1] /\ p <= k - 1)
    BY <2>4, <2>6
  <2>7. t.dist[p] <= t.dist[k - 1]
    BY <2>6a, <2>6b
  <2>8. Right(u, k)
    <3> DEFINE x == t.dist[p]
               y == t.dist[k - 1]
               z == distance[p]
    <3>a. x \in Nat /\ y \in Nat /\ x <= y /\ y <= k - 1 /\ (y >= k - 1 \/ y >= r + 1)
          /\ u.dist[k] = 1 + x /\ u.hop[k] = p /\ k \in Nat /\ k <= N-1
      BY <2>1, <2>3, <2>5, <2>6a, <2>7
    <3>b. p = k + 1 => x < y
      BY <2>1, <2>6b
    <3>c. p = k + 1 => ~(p <= k - 1)
      BY <2>1
    <3>d. p = k + 1 => x = z
      BY <2>1, <2>6, <3>c
    <3>e. z >= p \/ z >= r
      BY <2>6 DEF NotBelow
    <3>f. p \in Machine /\ p <= N-1
      BY <1>0, <2>6
    <3> HIDE DEF x, y, z
    <3>1. CASE p = k - 1
      <4>1. x = y
        BY <3>1 DEF x, y
      <4>2. QED
        BY <1>0, <3>a, <3>1, <4>1
    <3>2. CASE p = k + 1
      <4>1. x >= r /\ x < y
        BY <1>0, <3>a, <3>b, <3>d, <3>e, <3>2
      <4>2. (1 + x >= r + 1) /\ 1 + x <= k /\ ~(r + 1 >= N)
        BY <1>0, <3>a, <4>1
      <4>3. QED
        BY <3>a, <4>2
    <3>3. QED
      BY <2>6, <3>1, <3>2
  <2>9. Done(u, k)
    <3>1. SUFFICES ASSUME NEW i \in Machine
                   PROVE  IF i <= k THEN Right(u, i) ELSE u.dist[i] = distance[i]
      OBVIOUS
    <3>2. CASE i = k
      BY <2>8, <3>2
    <3>3. CASE i < k
      BY <1>0, <2>1, <2>5, <3>3
    <3>4. CASE i > k
      BY <1>0, <2>1, <2>5, <3>4
    <3>5. QED
      BY <1>0, <2>1, <3>2, <3>3, <3>4
  <2>10. QED
    BY <2>1, <2>2, <2>9 DEF u
<1>5. \A k \in 1 .. N-1 : k - 1 \in Good => k \in Good
  BY <1>4
<1> HIDE DEF Good
<1>6. \A k \in 0 .. N-1 : k \in Good
  <2>1. N-1 \in Nat
    BY <1>0
  <2>2. QED
    BY <1>3, <1>5, <2>1, UpTo
<1>7. F[N-1] \in RootedTree /\ Done(F[N-1], N-1)
  BY <1>0, <1>6 DEF Good
<1>8. QED
  BY <1>0, <1>7 DEF F, NotBelow

TreeInv ==
  application = "TREE" =>
    /\ [dist |-> distance, hop |-> via] \in RootedTree
    /\ NotBelow(distance, app_round)
    /\ ended \/ app_round >= N => \A i \in Machine \ {0} : distance[i] = i /\ via[i] = i - 1

\* Any distances and any parents of lower identifiers.
LEMMA TreeStarts ==
  ASSUME AppInit
  PROVE  TreeInv
<1>0. N \in Nat /\ N >= 2 /\ Machine = 0 .. N-1 /\ app_round = 0 /\ ended = FALSE
  BY RingInitAccepts DEF AppInit, Machine
<1>1. SUFFICES ASSUME application = "TREE"
               PROVE  [dist |-> distance, hop |-> via] \in RootedTree /\ NotBelow(distance, 0)
  BY <1>0 DEF TreeInv
<1>2. /\ distance \in [Machine -> 0 .. N] /\ distance[0] = 0 /\ via \in [Machine -> Machine]
  BY <1>1 DEF AppInit, TreeInit, RoutingInit, SyncInit
<1>3. distance \in [Machine -> Nat]
  BY <1>0, <1>2
<1>4. [dist |-> distance, hop |-> via] \in RootedTree
  BY <1>2, <1>3 DEF RootedTree
<1>5. NotBelow(distance, 0)
  BY <1>3 DEF NotBelow
<1>6. QED
  BY <1>4, <1>5

\* Round by round one more distance that is too short is ruled out; a round that is the
\* last leaves the tree as it found it, complete.
LEMMA TreeStep ==
  ASSUME TreeInv, app_round \in Nat, AppStep
  PROVE  TreeInv'
<1> DEFINE u == TreeTurn[N-1]
<1>0. N \in Nat /\ N >= 2 /\ Machine = 0 .. N-1 /\ app_round' = app_round + 1 /\ application' = application
  BY RingInitAccepts DEF AppStep, Machine
<1>1. SUFFICES ASSUME application = "TREE" PROVE TreeInv'
  BY <1>0 DEF TreeInv
<1>2. /\ distance' = u.dist /\ via' = u.hop
      /\ ended' = (distance' = distance /\ via' = via /\ \A i \in Machine : distance[i] = i)
  BY <1>1 DEF AppStep, RoutingRound, TreeRound, SyncRound
<1>3. [dist |-> distance, hop |-> via] \in RootedTree /\ NotBelow(distance, app_round)
  BY <1>1 DEF TreeInv
<1>4. /\ u \in RootedTree /\ NotBelow(u.dist, app_round + 1)
      /\ \A i \in Machine : u.dist[i] <= i
      /\ app_round + 1 >= N => \A i \in Machine \ {0} : u.hop[i] = i - 1
  BY <1>3, TreeRoundRepairs
<1>5. ended' => \A i \in Machine \ {0} : u.hop[i] = i - 1 /\ u.dist[i] = i
  <2>1. SUFFICES ASSUME ended' PROVE \A i \in Machine \ {0} : u.hop[i] = i - 1 /\ u.dist[i] = i
    OBVIOUS
  <2>2. \A i \in Machine : distance[i] = i /\ u.dist = distance
    BY <1>2, <2>1
  <2>3. NotBelow(distance, N)
    BY <1>0, <2>2 DEF NotBelow
  <2>4. \A i \in Machine \ {0} : u.hop[i] = i - 1
    BY <1>0, <1>3, <2>3, TreeRoundRepairs
  <2>5. QED
    BY <2>2, <2>4
<1> HIDE DEF u
<1>6. app_round + 1 >= N => \A i \in Machine \ {0} : u.dist[i] = i
  <2>1. SUFFICES ASSUME app_round + 1 >= N, NEW i \in Machine \ {0} PROVE u.dist[i] = i
    OBVIOUS
  <2>2. u.dist[i] \in Nat /\ i \in Nat /\ i < N
    BY <1>0, <1>4 DEF RootedTree
  <2>3. u.dist[i] >= i \/ u.dist[i] >= app_round + 1
    BY <1>4 DEF NotBelow
  <2>4. u.dist[i] <= i
    BY <1>4
  <2>5. QED
    BY <1>0, <2>1, <2>2, <2>3, <2>4
<1>7. u = [dist |-> u.dist, hop |-> u.hop]
  BY <1>4 DEF RootedTree
<1>8. [dist |-> distance', hop |-> via'] \in RootedTree
  BY <1>2, <1>4, <1>7
<1>9. NotBelow(distance', app_round')
  BY <1>0, <1>2, <1>4
<1>10. ended' \/ app_round' >= N => \A i \in Machine \ {0} : distance'[i] = i /\ via'[i] = i - 1
  BY <1>0, <1>2, <1>4, <1>5, <1>6
<1>11. QED
  BY <1>8, <1>9, <1>10 DEF TreeInv, NotBelow

\* Neighbours on the ring are one apart at most.
Near(c) == \A i \in Machine : Apart(c[i], c[NextTo(i)]) <= 1

\* One mark for every tick by which a machine is behind machine a.
Lags(c, a) == {p \in (Machine \ {a}) \X (0 .. MaxClock - 1) : p[2] < c[a] - c[p[1]]}

\* The largest value that machine i sees, as SyncRound has it.
InSight(c, i) == {c[i], c[Prev(i)], c[NextTo(i)]}
Furthest(c, i) == CHOOSE v \in InSight(c, i) : \A w \in InSight(c, i) : w <= v

\* Every machine is the successor of its predecessor and the predecessor of its successor.
LEMMA Neighbours ==
  ASSUME NEW i \in Machine
  PROVE  /\ Prev(i) \in Machine /\ NextTo(i) \in Machine
         /\ NextTo(Prev(i)) = i /\ Prev(NextTo(i)) = i
BY RingInitAccepts DEF Machine, Prev, NextTo

\* Some clock is the largest.
LEMMA LargestClock ==
  ASSUME NEW c \in [Machine -> Nat]
  PROVE  \E a \in Machine : \A i \in Machine : c[i] <= c[a]
<1>0. N \in Nat /\ N >= 2 /\ N-1 \in Nat /\ Machine = 0 .. N-1
  BY RingInitAccepts DEF Machine
<1> DEFINE Good == {k \in 0 .. N-1 : \E a \in 0 .. k : \A i \in 0 .. k : c[i] <= c[a]}
<1>1. 0 \in Good
  <2>1. \A i \in 0 .. 0 : i = 0
    BY <1>0
  <2>2. c[0] <= c[0]
    BY <1>0
  <2>3. QED
    BY <1>0, <2>1, <2>2
<1>2. ASSUME NEW k \in 1 .. N-1, k - 1 \in Good PROVE k \in Good
  <2>1. PICK a \in 0 .. k - 1 : \A i \in 0 .. k - 1 : c[i] <= c[a]
    BY <1>2
  <2>2. /\ a \in Machine /\ k \in Machine /\ a \in 0 .. k /\ k \in 0 .. k /\ k \in 0 .. N-1
        /\ \A i \in 0 .. k : i \in Machine /\ (i \in 0 .. k - 1 \/ i = k)
    BY <1>0
  <2>3. c[a] \in Nat /\ c[k] \in Nat /\ \A i \in 0 .. k : c[i] \in Nat
    BY <2>2
  <2>4. CASE c[k] <= c[a]
    BY <2>1, <2>2, <2>4
  <2>5. CASE ~(c[k] <= c[a])
    <3>1. \A i \in 0 .. k : c[i] <= c[k]
      BY <2>1, <2>2, <2>3, <2>5
    <3>2. QED
      BY <2>2, <3>1
  <2>6. QED
    BY <2>4, <2>5
<1>3. \A k \in 1 .. N-1 : k - 1 \in Good => k \in Good
  BY <1>2
<1> HIDE DEF Good
<1>4. N-1 \in Good
  <2>1. \A k \in 0 .. N-1 : k \in Good
    BY <1>0, <1>1, <1>3, UpTo
  <2>2. QED
    BY <1>0, <2>1
<1>5. QED
  BY <1>0, <1>4 DEF Good

\* Some clock is the smallest.
LEMMA SmallestClock ==
  ASSUME NEW c \in [Machine -> Nat]
  PROVE  \E a \in Machine : \A i \in Machine : c[a] <= c[i]
<1>1. PICK b \in Machine : \A i \in Machine : c[i] <= c[b]
  BY LargestClock
<1> DEFINE f == [i \in Machine |-> c[b] - c[i]]
<1>2. f \in [Machine -> Nat] /\ \A i \in Machine : f[i] = c[b] - c[i]
  BY <1>1
<1> HIDE DEF f
<1>3. PICK a \in Machine : \A i \in Machine : f[i] <= f[a]
  BY <1>2, LargestClock
<1>4. QED
  BY <1>2, <1>3

\* What a machine sees of the clocks.
LEMMA FurthestSeen ==
  ASSUME NEW c \in [Machine -> Nat], NEW i \in Machine
  PROVE  /\ Furthest(c, i) \in InSight(c, i) /\ Furthest(c, i) \in Nat
         /\ \A w \in InSight(c, i) : w <= Furthest(c, i)
<1>1. c[i] \in Nat /\ c[Prev(i)] \in Nat /\ c[NextTo(i)] \in Nat
  BY Neighbours
<1> DEFINE x == c[i]
           y == c[Prev(i)]
           z == c[NextTo(i)]
<1>2. InSight(c, i) = {x, y, z}
  BY DEF InSight
<1> HIDE DEF x, y, z
<1>3. x \in Nat /\ y \in Nat /\ z \in Nat
  BY <1>1 DEF x, y, z
<1>4. \E v \in {x, y, z} : \A w \in {x, y, z} : w <= v
  <2>1. CASE y <= x /\ z <= x
    BY <1>3, <2>1
  <2>2. CASE x <= y /\ z <= y
    BY <1>3, <2>2
  <2>3. CASE x <= z /\ y <= z
    BY <1>3, <2>3
  <2>4. QED
    BY <1>3, <2>1, <2>2, <2>3
<1>5. QED
  BY <1>2, <1>3, <1>4 DEF Furthest

\* A tick and half the way to a clock ahead.
LEMMA HalfTheWay ==
  ASSUME NEW x \in Nat, NEW v \in Nat, x <= v
  PROVE  LET d == (x + 1 + v + 1) \div 2 IN
         /\ d \in Nat /\ x + 1 <= d /\ d <= v + 1
         /\ v <= x + 1 => d = x + 1
         /\ x + 2 <= v => x + 2 <= d
OBVIOUS

\* A machine's clock as SyncRound sets it.
Corrected(c) == [i \in Machine |-> (c[i] + 1 + Furthest(c, i) + 1) \div 2]

\* The leading clock ticks, and nobody overtakes it or falls further behind; who sees a
\* clock two ahead gains on it, and nobody else does.
LEMMA ClockCorrected ==
  ASSUME NEW c \in [Machine -> Nat], NEW a \in Machine, \A i \in Machine : c[i] <= c[a]
  PROVE  /\ Corrected(c) \in [Machine -> Nat] /\ Corrected(c)[a] = c[a] + 1
         /\ \A i \in Machine :
              /\ c[i] + 1 <= Corrected(c)[i] /\ Corrected(c)[i] <= c[a] + 1
              /\ Furthest(c, i) <= c[i] + 1 => Corrected(c)[i] = c[i] + 1
              /\ c[i] + 2 <= Furthest(c, i) => c[i] + 2 <= Corrected(c)[i]
<1> DEFINE d(i) == (c[i] + 1 + Furthest(c, i) + 1) \div 2
<1>1. ASSUME NEW i \in Machine
      PROVE  /\ c[i] \in Nat /\ Furthest(c, i) \in Nat
             /\ c[i] <= Furthest(c, i) /\ Furthest(c, i) <= c[a]
  <2>1. c[i] \in InSight(c, i) /\ \A w \in InSight(c, i) : w <= c[a]
    BY Neighbours DEF InSight
  <2>2. QED
    BY <2>1, FurthestSeen
<1>2. ASSUME NEW i \in Machine
      PROVE  /\ d(i) \in Nat /\ c[i] + 1 <= d(i) /\ d(i) <= Furthest(c, i) + 1
             /\ Furthest(c, i) <= c[i] + 1 => d(i) = c[i] + 1
             /\ c[i] + 2 <= Furthest(c, i) => c[i] + 2 <= d(i)
  <2> DEFINE x == c[i]
             v == Furthest(c, i)
  <2>1. x \in Nat /\ v \in Nat /\ x <= v
    BY <1>1
  <2> HIDE DEF x, v
  <2>2. LET e == (x + 1 + v + 1) \div 2 IN
         /\ e \in Nat /\ x + 1 <= e /\ e <= v + 1
         /\ v <= x + 1 => e = x + 1
         /\ x + 2 <= v => x + 2 <= e
    BY <2>1, HalfTheWay
  <2>3. QED
    BY <2>2 DEF x, v
<1>3. \A i \in Machine : Corrected(c)[i] = d(i)
  BY DEF Corrected
<1> HIDE DEF d
<1>4. Corrected(c) \in [Machine -> Nat]
  <2>1. Corrected(c) = [i \in Machine |-> Corrected(c)[i]]
    BY DEF Corrected
  <2>2. QED
    BY <1>2, <1>3, <2>1
<1>5. ASSUME NEW i \in Machine
      PROVE  /\ c[i] + 1 <= Corrected(c)[i] /\ Corrected(c)[i] <= c[a] + 1
             /\ Furthest(c, i) <= c[i] + 1 => Corrected(c)[i] = c[i] + 1
             /\ c[i] + 2 <= Furthest(c, i) => c[i] + 2 <= Corrected(c)[i]
  <2>1. Corrected(c)[i] = d(i) /\ c[a] \in Nat
    BY <1>3
  <2>2. QED
    BY <1>1, <1>2, <2>1
<1>6. Corrected(c)[a] = c[a] + 1
  <2>1. Corrected(c)[a] \in Nat /\ c[a] \in Nat
    BY <1>4
  <2>2. QED
    BY <1>5, <2>1
<1>7. QED
  BY <1>4, <1>5, <1>6

\* Where neighbours are one apart at most, all clocks only tick.
LEMMA NearStays ==
  ASSUME NEW c \in [Machine -> Nat], Near(c)
  PROVE  Near(Corrected(c))
<1>1. PICK a \in Machine : \A i \in Machine : c[i] <= c[a]
  BY LargestClock
<1>2. ASSUME NEW i \in Machine PROVE Corrected(c)[i] = c[i] + 1
  <2>1. Prev(i) \in Machine /\ NextTo(i) \in Machine /\ NextTo(Prev(i)) = i
    BY Neighbours
  <2>2. Apart(c[i], c[NextTo(i)]) <= 1 /\ Apart(c[Prev(i)], c[i]) <= 1
    BY <2>1 DEF Near
  <2>3. c[i] \in Nat /\ c[Prev(i)] \in Nat /\ c[NextTo(i)] \in Nat
    BY <2>1
  <2>4. \A w \in InSight(c, i) : w <= c[i] + 1
    <3>1. c[NextTo(i)] <= c[i] + 1
      BY <2>2, <2>3 DEF Apart
    <3>2. c[Prev(i)] <= c[i] + 1
      BY <2>2, <2>3 DEF Apart
    <3>3. QED
      BY <2>3, <3>1, <3>2 DEF InSight
  <2>5. Furthest(c, i) <= c[i] + 1
    BY <2>4, FurthestSeen
  <2>6. QED
    BY <1>1, <2>5, ClockCorrected
<1>3. ASSUME NEW i \in Machine PROVE Apart(Corrected(c)[i], Corrected(c)[NextTo(i)]) <= 1
  <2>1. NextTo(i) \in Machine /\ c[i] \in Nat /\ c[NextTo(i)] \in Nat
    BY Neighbours
  <2>2. Apart(c[i], c[NextTo(i)]) <= 1
    BY DEF Near
  <2>3. Corrected(c)[i] = c[i] + 1 /\ Corrected(c)[NextTo(i)] = c[NextTo(i)] + 1
    BY <1>2, <2>1
  <2>4. QED
    BY <2>1, <2>2, <2>3 DEF Apart
<1>4. QED
  BY <1>3 DEF Near

\* Where they are further apart, someone sees a clock two ahead.
LEMMA SomeoneBehind ==
  ASSUME NEW c \in [Machine -> Nat], ~Near(c)
  PROVE  \E i \in Machine : c[i] + 2 <= Furthest(c, i)
<1>1. PICK i \in Machine : ~(Apart(c[i], c[NextTo(i)]) <= 1)
  BY DEF Near
<1> DEFINE j == NextTo(i)
<1>2. j \in Machine /\ Prev(j) = i /\ c[i] \in Nat /\ c[j] \in Nat
  BY Neighbours
<1>3. c[j] \in InSight(c, i) /\ c[i] \in InSight(c, j)
  BY <1>2 DEF InSight
<1>4. /\ Furthest(c, i) \in Nat /\ c[j] <= Furthest(c, i)
      /\ Furthest(c, j) \in Nat /\ c[i] <= Furthest(c, j)
  BY <1>2, <1>3, FurthestSeen
<1>5. c[i] + 2 <= c[j] \/ c[j] + 2 <= c[i]
  BY <1>1, <1>2 DEF Apart
<1> HIDE DEF j
<1>6. QED
  BY <1>2, <1>4, <1>5

\* The marks are finitely many.
LEMMA LagsFinite ==
  ASSUME NEW c, NEW a \in Machine
  PROVE  /\ IsFiniteSet(Lags(c, a)) /\ Cardinality(Lags(c, a)) \in Nat
         /\ (N-1) * MaxClock \in Nat /\ Cardinality(Lags(c, a)) <= (N-1) * MaxClock
<1>0. N \in Nat /\ N >= 2 /\ Machine = 0 .. N-1 /\ MaxClock \in Nat /\ N-1 \in Nat
  BY RingInitAccepts, AppBounds DEF Machine
<1>1. IsFiniteSet(Machine) /\ Cardinality(Machine) = N
  BY <1>0, FS_Interval
<1>2. IsFiniteSet(Machine \ {a}) /\ Cardinality(Machine \ {a}) = N-1
  BY <1>1, FS_RemoveElement
<1>3. IsFiniteSet(0 .. MaxClock - 1) /\ Cardinality(0 .. MaxClock - 1) = MaxClock
  <2>1. 0 \in Int /\ MaxClock - 1 \in Int
    BY <1>0
  <2>2. /\ IsFiniteSet(0 .. MaxClock - 1)
        /\ Cardinality(0 .. MaxClock - 1) =
             IF 0 > MaxClock - 1 THEN 0 ELSE (MaxClock - 1) - 0 + 1
    BY <2>1, FS_Interval
  <2>3. (IF 0 > MaxClock - 1 THEN 0 ELSE (MaxClock - 1) - 0 + 1) = MaxClock
    BY <1>0
  <2>4. QED
    BY <2>2, <2>3
<1> DEFINE S == Machine \ {a}
           T == 0 .. MaxClock - 1
           P == S \X T
<1>4. IsFiniteSet(P) /\ Cardinality(P) = (N-1) * MaxClock
  <2>1. IsFiniteSet(S) /\ IsFiniteSet(T) /\ Cardinality(S) = N-1 /\ Cardinality(T) = MaxClock
    BY <1>2, <1>3
  <2> HIDE DEF S, T
  <2>2. IsFiniteSet(S \X T) /\ Cardinality(S \X T) = Cardinality(S) * Cardinality(T)
    BY <2>1, FS_Product
  <2>3. QED
    BY <2>1, <2>2
<1>4a. (N-1) * MaxClock \in Nat
  BY <1>0
<1>5. Lags(c, a) \in SUBSET P
  BY DEF Lags
<1> HIDE DEF P
<1>6. QED
  BY <1>4, <1>4a, <1>5, FS_Subset, FS_CardinalityType

\* A round that finds neighbours further apart takes a mark away.
LEMMA LagsShrink ==
  ASSUME NEW c \in [Machine -> Nat], NEW a \in Machine, ~Near(c),
         \A i \in Machine : c[i] <= c[a] /\ c[a] - c[i] <= MaxClock
  PROVE  Cardinality(Lags(Corrected(c), a)) + 1 <= Cardinality(Lags(c, a))
<1> DEFINE b == Corrected(c)
           L == Lags(c, a)
           M == Lags(Corrected(c), a)
<1>0. MaxClock \in Nat
  BY AppBounds
<1>1. /\ b \in [Machine -> Nat] /\ b[a] = c[a] + 1
      /\ \A i \in Machine : c[i] + 1 <= b[i] /\ b[i] <= c[a] + 1
                            /\ (c[i] + 2 <= Furthest(c, i) => c[i] + 2 <= b[i])
  BY ClockCorrected
<1>2. PICK j \in Machine : c[j] + 2 <= Furthest(c, j)
  BY SomeoneBehind
<1> HIDE DEF b
<1>3. c[j] + 2 <= b[j] /\ c[j] \in Nat /\ b[j] \in Nat /\ c[a] \in Nat /\ b[a] \in Nat /\ b[j] <= b[a]
  BY <1>1, <1>2
<1> DEFINE q == <<j, b[a] - b[j]>>
<1>4. b[a] - b[j] \in 0 .. MaxClock - 1 /\ b[a] - b[j] < c[a] - c[j] /\ j # a
  <2>1. c[a] - c[j] <= MaxClock
    OBVIOUS
  <2>2. QED
    BY <1>0, <1>1, <1>3, <2>1
<1>5. q \in L
  BY <1>4 DEF Lags
<1>6. q \notin M
  BY <1>3 DEF Lags, b
<1>7. M \subseteq L
  <2>1. ASSUME NEW p \in M PROVE p \in L
    <3>1. p \in (Machine \ {a}) \X (0 .. MaxClock - 1) /\ p[2] < b[a] - b[p[1]]
      BY DEF Lags, b
    <3>2. p[1] \in Machine /\ p[2] \in Nat
      BY <1>0, <3>1
    <3>3. c[p[1]] \in Nat /\ b[p[1]] \in Nat /\ c[p[1]] + 1 <= b[p[1]]
      BY <1>1, <3>2
    <3>4. p[2] < c[a] - c[p[1]]
      BY <1>1, <1>3, <3>1, <3>2, <3>3
    <3>5. QED
      BY <3>1, <3>4 DEF Lags
  <2>2. QED
    BY <2>1
<1>8. IsFiniteSet(L) /\ Cardinality(L) \in Nat /\ Cardinality(M) \in Nat
  BY LagsFinite
<1> HIDE DEF L, M, q
<1>9. M \in SUBSET L /\ M # L
  BY <1>5, <1>6, <1>7
<1>10. Cardinality(M) <= Cardinality(L) /\ Cardinality(M) # Cardinality(L)
  BY <1>8, <1>9, FS_Subset
<1>11. Cardinality(M) + 1 <= Cardinality(L)
  BY <1>8, <1>10
<1>12. QED
  BY <1>11 DEF L, M

\* Clocks with no spread are near.
LEMMA NoSpread ==
  ASSUME NEW c \in [Machine -> Nat], SpreadOf(c) = 0
  PROVE  Near(c)
<1> DEFINE S == {c[i] : i \in Machine}
           x == CHOOSE v \in S : \A i \in Machine : v >= c[i]
           y == CHOOSE v \in S : \A i \in Machine : v <= c[i]
<1>1. x \in Nat /\ \A i \in Machine : x >= c[i]
  <2>1. PICK a \in Machine : \A i \in Machine : c[i] <= c[a]
    BY LargestClock
  <2>2. c[a] \in S /\ \A i \in Machine : c[a] >= c[i]
    BY <2>1
  <2>3. x \in S /\ \A i \in Machine : x >= c[i]
    BY <2>2
  <2>4. QED
    BY <2>3
<1>2. y \in Nat /\ \A i \in Machine : y <= c[i]
  <2>1. PICK a \in Machine : \A i \in Machine : c[a] <= c[i]
    BY SmallestClock
  <2>2. c[a] \in S /\ \A i \in Machine : c[a] <= c[i]
    BY <2>1
  <2>3. y \in S /\ \A i \in Machine : y <= c[i]
    BY <2>2
  <2>4. QED
    BY <2>3
<1>3. Apart(x, y) = 0
  BY DEF SpreadOf
<1> HIDE DEF x, y, S
<1>4. x = y
  BY <1>1, <1>2, <1>3 DEF Apart
<1>5. \A i \in Machine : c[i] \in Nat /\ c[i] = x
  <2>1. \A i \in Machine : c[i] \in Nat
    OBVIOUS
  <2>2. QED
    BY <1>1, <1>2, <1>4, <2>1
<1>6. ASSUME NEW i \in Machine PROVE Apart(c[i], c[NextTo(i)]) <= 1
  <2>1. c[NextTo(i)] = x /\ c[i] = x
    BY <1>5, Neighbours
  <2>2. QED
    BY <1>1, <2>1 DEF Apart
<1>7. QED
  BY <1>6 DEF Near

SyncInv ==
  application = "SYNC" =>
    /\ clock \in [Machine -> Nat]
    /\ ended => Near(clock)
    /\ \/ Near(clock)
       \/ \E a \in Machine :
            /\ \A i \in Machine : clock[i] <= clock[a] /\ clock[a] - clock[i] <= MaxClock
            /\ app_round + Cardinality(Lags(clock, a)) <= (N-1) * MaxClock

\* No clock is behind by more than MaxClock at first.
LEMMA SyncStarts ==
  ASSUME AppInit
  PROVE  SyncInv
<1>0. app_round = 0 /\ ended = FALSE
  BY DEF AppInit
<1>1. SUFFICES ASSUME application = "SYNC" PROVE SyncInv
  BY DEF SyncInv
<1>2. clock \in [Machine -> 0 .. MaxClock] /\ MaxClock \in Nat
  BY <1>1, AppBounds DEF AppInit, TreeInit, RoutingInit, SyncInit
<1>3. clock \in [Machine -> Nat]
  BY <1>2
<1>4. PICK a \in Machine : \A i \in Machine : clock[i] <= clock[a]
  BY <1>3, LargestClock
<1>5. \A i \in Machine : clock[a] - clock[i] <= MaxClock
  BY <1>2
<1>6. Cardinality(Lags(clock, a)) \in Nat /\ Cardinality(Lags(clock, a)) <= (N-1) * MaxClock
  BY LagsFinite
<1>7. app_round + Cardinality(Lags(clock, a)) = Cardinality(Lags(clock, a))
  BY <1>0, <1>6
<1>8. QED
  BY <1>0, <1>3, <1>4, <1>5, <1>6, <1>7 DEF SyncInv

\* Every round takes a mark away until neighbours are near, and then they stay so.
LEMMA SyncAdvances ==
  ASSUME SyncInv, app_round \in Nat, AppStep
  PROVE  SyncInv'
<1>0. app_round' = app_round + 1 /\ application' = application
  BY DEF AppStep
<1>1. SUFFICES ASSUME application = "SYNC" PROVE SyncInv'
  BY <1>0 DEF SyncInv
<1>2. clock \in [Machine -> Nat]
  BY <1>1 DEF SyncInv
<1>3. clock' = Corrected(clock) /\ ended' = (SpreadOf(clock') = 0)
  BY <1>1 DEF AppStep, RoutingRound, TreeRound, SyncRound, Corrected, Furthest, InSight
<1>4. PICK m \in Machine : \A i \in Machine : clock[i] <= clock[m]
  BY <1>2, LargestClock
<1>5. clock' \in [Machine -> Nat]
  BY <1>2, <1>3, <1>4, ClockCorrected
<1>6. ended' => Near(clock')
  BY <1>3, <1>5, NoSpread
<1>7. \/ Near(clock')
      \/ \E a \in Machine :
           /\ \A i \in Machine : clock'[i] <= clock'[a] /\ clock'[a] - clock'[i] <= MaxClock
           /\ app_round' + Cardinality(Lags(clock', a)) <= (N-1) * MaxClock
  <2>1. CASE Near(clock)
    BY <1>2, <1>3, <2>1, NearStays
  <2>2. CASE ~Near(clock)
    <3>1. PICK a \in Machine :
            /\ \A i \in Machine : clock[i] <= clock[a] /\ clock[a] - clock[i] <= MaxClock
            /\ app_round + Cardinality(Lags(clock, a)) <= (N-1) * MaxClock
      BY <1>1, <2>2 DEF SyncInv
    <3>2. /\ clock'[a] = clock[a] + 1
          /\ \A i \in Machine : clock[i] + 1 <= clock'[i] /\ clock'[i] <= clock[a] + 1
      BY <1>2, <1>3, <3>1, ClockCorrected
    <3>3. \A i \in Machine : clock'[i] <= clock'[a] /\ clock'[a] - clock'[i] <= MaxClock
      <4>1. TAKE i \in Machine
      <4>2. clock[i] \in Nat /\ clock[a] \in Nat /\ clock'[i] \in Nat /\ clock'[a] \in Nat
        BY <1>2, <1>5
      <4>3. MaxClock \in Nat /\ clock[a] - clock[i] <= MaxClock
        BY <3>1, AppBounds
      <4>4. QED
        BY <3>2, <4>2, <4>3
    <3>4. Cardinality(Lags(clock', a)) + 1 <= Cardinality(Lags(clock, a))
      BY <1>2, <1>3, <2>2, <3>1, LagsShrink
    <3> DEFINE x == Cardinality(Lags(clock, a))
               y == Cardinality(Lags(clock', a))
               z == (N-1) * MaxClock
    <3>5. x \in Nat /\ y \in Nat /\ z \in Nat
      BY LagsFinite
    <3> HIDE DEF x, y, z
    <3>6. app_round' + y <= z
      <4>1. y + 1 <= x /\ app_round + x <= z
        BY <3>1, <3>4 DEF x, y, z
      <4>2. QED
        BY <1>0, <3>5, <4>1
    <3>7. QED
      BY <3>3, <3>6 DEF y, z
  <2>3. QED
    BY <2>1, <2>2
<1>8. QED
  BY <1>5, <1>6, <1>7 DEF SyncInv, Near, Lags, Apart, NextTo

AppInv == app_round \in Nat /\ RoutingInv /\ TreeInv /\ SyncInv

\* No other caller touches the applications' state.
LEMMA NoApplication ==
  ASSUME application = "NONE", app_round \in Nat
  PROVE  AppInv
BY DEF AppInv, RoutingInv, TreeInv, SyncInv

LEMMA AppUntouched ==
  ASSUME AppInv, UNCHANGED appVars
  PROVE  AppInv'
BY DEF AppInv, RoutingInv, TreeInv, SyncInv, appVars, Sound, Tables, SoundTables, RightWithin,
       RootedTree, NotBelow, Near, Lags, Apart, Toward, NextTo

\* What the invariant says of tables and tree at the end.
LEMMA AppInvRecovers ==
  ASSUME AppInv
  PROVE  ApplicationsRecover
<1>0. N \in Nat /\ N >= 2 /\ app_round \in Nat /\ MaxClock \in Nat
  BY RingInitAccepts, AppBounds DEF AppInv
<1>1. ASSUME application = "ROUTING"
      PROVE  /\ \A i, j \in Machine : distance[i][j] >= Apart(i, j)
             /\ ended \/ app_round >= N =>
                  \A i, j \in Machine : distance[i][j] = Apart(i, j) /\ via[i][j] = Toward(i, j)
  <2> DEFINE t == [dist |-> distance, hop |-> via]
  <2>1. t \in Sound /\ RightWithin(t, app_round) /\ (ended => RightWithin(t, N))
    BY <1>1 DEF AppInv, RoutingInv
  <2>2. t.dist = distance /\ t.hop = via
    OBVIOUS
  <2> HIDE DEF t
  <2>3. SUFFICES ASSUME NEW i \in Machine, NEW j \in Machine
                 PROVE  /\ distance[i][j] >= Apart(i, j)
                        /\ ended \/ app_round >= N =>
                             distance[i][j] = Apart(i, j) /\ via[i][j] = Toward(i, j)
    OBVIOUS
  <2>4. /\ distance[i][j] \in Nat /\ Apart(i, j) <= distance[i][j]
        /\ distance[i][j] = Apart(i, j) => via[i][j] = Toward(i, j)
    BY <2>1, <2>2 DEF Sound, Tables, SoundTables
  <2>5. Apart(i, j) \in Nat /\ Apart(i, j) < N
    BY LineDistances
  <2>6. ASSUME ended \/ app_round >= N PROVE distance[i][j] = Apart(i, j)
    <3>1. CASE ended
      BY <1>0, <2>1, <2>2, <2>5, <3>1 DEF RightWithin
    <3>2. CASE app_round >= N
      <4>1. Apart(i, j) <= app_round
        BY <1>0, <2>5, <3>2
      <4>2. QED
        BY <2>1, <2>2, <4>1 DEF RightWithin
    <3>3. QED
      BY <2>6, <3>1, <3>2
  <2>7. QED
    BY <2>4, <2>5, <2>6
<1>2. ASSUME application = "TREE", ended \/ app_round >= N
      PROVE  \A i \in Machine \ {0} : distance[i] = i /\ via[i] = i - 1
  BY <1>2 DEF AppInv, TreeInv
<1>3. ASSUME application = "SYNC", ended \/ app_round >= (N-1) * MaxClock
      PROVE  Near(clock)
  <2>1. SUFFICES ASSUME ~Near(clock) PROVE FALSE
    OBVIOUS
  <2>2. PICK a \in Machine :
          /\ \A i \in Machine : clock[i] <= clock[a] /\ clock[a] - clock[i] <= MaxClock
          /\ app_round + Cardinality(Lags(clock, a)) <= (N-1) * MaxClock
    BY <1>3, <2>1 DEF AppInv, SyncInv
  <2>3. clock \in [Machine -> Nat] /\ app_round >= (N-1) * MaxClock
    BY <1>3, <2>1 DEF AppInv, SyncInv
  <2>4. Cardinality(Lags(Corrected(clock), a)) + 1 <= Cardinality(Lags(clock, a))
    BY <2>1, <2>2, <2>3, LagsShrink
  <2> DEFINE x == Cardinality(Lags(clock, a))
             y == Cardinality(Lags(Corrected(clock), a))
             z == (N-1) * MaxClock
  <2>5. x \in Nat /\ y \in Nat /\ z \in Nat
    BY LagsFinite
  <2>6. app_round + x <= z /\ app_round >= z /\ y + 1 <= x
    BY <2>2, <2>3, <2>4
  <2> HIDE DEF x, y, z
  <2>7. QED
    BY <1>0, <2>5, <2>6
<1>4. QED
  BY <1>1, <1>2, <1>3 DEF ApplicationsRecover, Near

\* In a ring of any size and variant and from every set-up of the demonstrations, routing
\* is right at the end and after N rounds, and never too short; the tree is right at
\* the end and after N rounds; the clocks end with neighbours one apart at most, after
\* (N-1)*MaxClock rounds at the latest.
THEOREM ApplicationsAlwaysRecover == CallersSpec => []ApplicationsRecover
<1>1. CallersInit => AppInv
  <2>1. SUFFICES ASSUME CallersInit PROVE AppInv
    OBVIOUS
  <2>2. CASE caller = "APPLICATION"
    <3>1. AppInit
      BY <2>1, <2>2 DEF CallersInit
    <3>2. app_round \in Nat
      BY <3>1 DEF AppInit
    <3>3. QED
      BY <3>1, <3>2, RoutingStarts, TreeStarts, SyncStarts DEF AppInv
  <2>3. CASE caller # "APPLICATION"
    <3>1. application = "NONE" /\ app_round \in Nat
      BY <2>1, <2>3 DEF CallersInit, AppIdle
    <3>2. QED
      BY <3>1, NoApplication
  <2>4. QED
    BY <2>2, <2>3
<1>2. AppInv /\ [CallersNext]_callersVars => AppInv'
  <2>1. SUFFICES ASSUME AppInv, [CallersNext]_callersVars PROVE AppInv'
    OBVIOUS
  <2>2. CASE AppStep
    <3>1. app_round \in Nat /\ app_round' = app_round + 1
      BY <2>1, <2>2 DEF AppInv, AppStep
    <3>2. QED
      BY <2>1, <2>2, <3>1, RoutingStep, TreeStep, SyncAdvances DEF AppInv
  <2>3. CASE UNCHANGED appVars
    BY <2>1, <2>3, AppUntouched
  <2>4. QED
    BY <2>1, <2>2, <2>3 DEF CallersNext, callersVars
<1>3. AppInv => ApplicationsRecover
  BY AppInvRecovers
<1>4. QED
  BY <1>1, <1>2, <1>3, PTL DEF CallersSpec
================================================================================
