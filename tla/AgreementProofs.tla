----------------------------- MODULE AgreementProofs ----------------------------
(***************************************************************************)
(* Agreement and validity of the protocols of ByzantineAgreement for any   *)
(* number of processes and faults, what their rounds bring about, and the  *)
(* rules of finality.  Each protocol has an invariant of the one system it *)
(* runs in; which processes are faulty, and how many, never changes.       *)
(***************************************************************************)
EXTENDS ByzantineAgreement, FiniteSetTheorems, NaturalsInduction, SequenceTheorems,
        WellFoundedInduction, TLAPS

USE DEF Undecided

--------------------------------------------------------------------------------
\* Finite sets and what is counted over them.

\* Sets of one finite set that are large enough share as many members as they exceed it.
LEMMA SharedMembers ==
  ASSUME NEW U, IsFiniteSet(U), NEW A \in SUBSET U, NEW B \in SUBSET U
  PROVE  /\ IsFiniteSet(A \cap B) /\ Cardinality(A \cap B) \in Nat
         /\ Cardinality(A \cap B) >= Cardinality(A) + Cardinality(B) - Cardinality(U)
<1>1. IsFiniteSet(A) /\ IsFiniteSet(B) /\ IsFiniteSet(A \cup B) /\ IsFiniteSet(A \cap B)
  BY FS_Subset
<1>2. Cardinality(A \cup B) = Cardinality(A) + Cardinality(B) - Cardinality(A \cap B)
  BY <1>1, FS_Union
<1>3. Cardinality(A \cup B) <= Cardinality(U)
  BY FS_Subset
<1> QED
  BY <1>1, <1>2, <1>3, FS_CardinalityType

\* A count is a number, at most that of a larger set.
LEMMA CountBounds ==
  ASSUME NEW S, IsFiniteSet(S), NEW f, NEW v
  PROVE  /\ CountOf(S, f, v) \in Nat /\ Cardinality(S) \in Nat /\ CountOf(S, f, v) <= Cardinality(S)
         /\ CountOf(S, f, v) > 0 <=> \E i \in S : f[i] = v
<1> DEFINE T == {i \in S : f[i] = v}
<1>1. T \in SUBSET S
  OBVIOUS
<1> HIDE DEF T
<1>2. IsFiniteSet(T) /\ Cardinality(T) <= Cardinality(S)
  BY <1>1, FS_Subset
<1>3. Cardinality(T) \in Nat /\ Cardinality(S) \in Nat
  BY <1>2, FS_CardinalityType
<1>4. Cardinality(T) > 0 <=> T # {}
  BY <1>2, <1>3, FS_EmptySet
<1>5. CountOf(S, f, v) = Cardinality(T)
  BY DEF CountOf, T
<1> QED
  BY <1>2, <1>3, <1>4, <1>5 DEF T

\* What is counted among some is counted among more.
LEMMA CountGrows ==
  ASSUME NEW S, IsFiniteSet(S), NEW R \in SUBSET S, NEW f, NEW g, NEW v,
         \A i \in R : f[i] = v => g[i] = v
  PROVE  CountOf(R, f, v) <= CountOf(S, g, v)
<1> DEFINE A == {i \in R : f[i] = v}
           B == {i \in S : g[i] = v}
<1>1. A \in SUBSET B /\ B \in SUBSET S
  OBVIOUS
<1>2. CountOf(R, f, v) = Cardinality(A) /\ CountOf(S, g, v) = Cardinality(B)
  BY DEF CountOf
<1> HIDE DEF A, B
<1>3. IsFiniteSet(B)
  BY <1>1, FS_Subset
<1> QED
  BY <1>1, <1>2, <1>3, FS_Subset

\* The count of a value everybody has is everybody.
LEMMA CountAll ==
  ASSUME NEW S, NEW f, NEW v, \A i \in S : f[i] = v
  PROVE  CountOf(S, f, v) = Cardinality(S)
<1>1. {i \in S : f[i] = v} = S
  OBVIOUS
<1> QED
  BY <1>1 DEF CountOf

\* Different values are counted on different members.
LEMMA CountApart ==
  ASSUME NEW S, IsFiniteSet(S), NEW f, NEW v, NEW w, v # w
  PROVE  CountOf(S, f, v) + CountOf(S, f, w) <= Cardinality(S)
<1> DEFINE A == {i \in S : f[i] = v}
           B == {i \in S : f[i] = w}
<1>1. A \in SUBSET S /\ B \in SUBSET S /\ A \cap B = {}
  OBVIOUS
<1>2. CountOf(S, f, v) = Cardinality(A) /\ CountOf(S, f, w) = Cardinality(B)
  BY DEF CountOf
<1> HIDE DEF A, B
<1>3. IsFiniteSet(A) /\ IsFiniteSet(B)
  BY <1>1, FS_Subset
<1>4. /\ Cardinality(A) \in Nat /\ Cardinality(B) \in Nat /\ Cardinality(S) \in Nat
      /\ Cardinality(A \cap B) = 0
  BY <1>1, <1>3, FS_CardinalityType, FS_EmptySet
<1>5. Cardinality(A \cap B) >= Cardinality(A) + Cardinality(B) - Cardinality(S)
  BY <1>1, SharedMembers
<1> QED
  BY <1>2, <1>4, <1>5

\* Unanimous means what it says on a finite set.
LEMMA UnanimousIs ==
  ASSUME NEW S, IsFiniteSet(S), NEW f
  PROVE  Unanimous(S, f) <=> \A i, j \in S : f[i] = f[j]
<1> DEFINE T == {f[i] : i \in S}
           g == [i \in S |-> f[i]]
<1>1. g \in Surjection(S, T)
  BY DEF Surjection
<1>2. IsFiniteSet(T)
  <2> HIDE DEF T, g
  <2> QED
    BY <1>1, FS_Surjection
<1>3. Cardinality(T) \in Nat
  <2> HIDE DEF T
  <2> QED
    BY <1>2, FS_CardinalityType
<1>4. ASSUME Cardinality(T) <= 1, NEW i \in S, NEW j \in S PROVE f[i] = f[j]
  <2>1. f[i] \in T /\ f[j] \in T
    OBVIOUS
  <2> HIDE DEF T
  <2>2. T # {} /\ Cardinality(T) = 1
    BY <2>1, <1>2, <1>3, <1>4, FS_EmptySet
  <2>3. \E x : T = {x}
    BY <2>2, <1>2, FS_Singleton
  <2> QED
    BY <2>1, <2>3
<1>5. ASSUME \A i, j \in S : f[i] = f[j] PROVE Cardinality(T) <= 1
  <2>1. CASE S = {}
    <3>1. T = {}
      BY <2>1
    <3> QED
      BY <3>1, FS_EmptySet
  <2>2. CASE S # {}
    <3>1. PICK i \in S : TRUE
      BY <2>2
    <3>2. T = {f[i]}
      BY <1>5, <3>1
    <3>3. Cardinality({f[i]}) = 1
      BY FS_Singleton
    <3> QED
      BY <3>2, <3>3
  <2> QED
    BY <2>1, <2>2
<1> QED
  BY <1>4, <1>5 DEF Unanimous

--------------------------------------------------------------------------------
\* Recursion on an interval of the naturals.

\* A non-empty set of naturals has a least member.
LEMMA SmallestMember ==
  ASSUME NEW T, T \subseteq Nat, T # {}
  PROVE  \E x \in T : \A y \in T : x <= y
<1>1. PICK x \in T : \A y \in T : ~ (<<y, x>> \in OpToRel(<, Nat))
  BY WFMin, NatLessThanWellFounded
<1>2. \A y \in T : ~ (y < x)
  BY <1>1 DEF OpToRel
<1> QED
  BY <1>2

\* What holds at 0 and passes from each number to the next holds up to n.
LEMMA UpTo ==
  ASSUME NEW n \in Nat, NEW Good, 0 \in Good,
         \A k \in 1 .. n : k - 1 \in Good => k \in Good
  PROVE  \A k \in 0 .. n : k \in Good
<1> DEFINE Bad == {k \in 0 .. n : k \notin Good}
<1> SUFFICES ASSUME Bad # {} PROVE FALSE
  OBVIOUS
<1>1. PICK k \in Bad : \A y \in Bad : k <= y
  <2>1. Bad \subseteq Nat
    OBVIOUS
  <2> HIDE DEF Bad
  <2> QED
    BY <2>1, SmallestMember
<1>2. k \in 1 .. n /\ k \notin Good
  OBVIOUS
<1>3. k - 1 \in Bad
  BY <1>2
<1> QED
  BY <1>1, <1>2, <1>3

\* f starts at a and makes n steps, each by a function on S.
StepsOn(S, n) == [1 .. n -> [S -> S]]

Unfolds(f, S, a, n, G) ==
  f \in [0 .. n -> S] /\ f[0] = a /\ \A k \in 1 .. n : f[k] = G[k][f[k - 1]]

\* A recursion on 0 .. n whose steps stay in S defines a function into S.
LEMMA Recursion ==
  ASSUME NEW S, NEW a \in S, NEW n \in Nat, NEW G \in StepsOn(S, n)
  PROVE  \E f : Unfolds(f, S, a, n, G)
<1> USE DEF StepsOn
<1> DEFINE Good == {m \in 0 .. n : \E f \in [0 .. m -> S] :
                      /\ f[0] = a
                      /\ \A k \in 1 .. m : f[k] = G[k][f[k - 1]]}
<1>1. 0 \in Good
  <2> DEFINE c == [k \in 0 .. 0 |-> a]
  <2>1. c \in [0 .. 0 -> S] /\ c[0] = a /\ 0 \in 0 .. n
    OBVIOUS
  <2>2. 1 .. 0 = {}
    OBVIOUS
  <2> HIDE DEF c
  <2> QED
    BY <2>1, <2>2
<1>2. ASSUME NEW m \in 1 .. n, m - 1 \in Good PROVE m \in Good
  <2>1. PICK f \in [0 .. m - 1 -> S] : /\ f[0] = a
                                       /\ \A k \in 1 .. m - 1 : f[k] = G[k][f[k - 1]]
    BY <1>2
  <2> DEFINE h == [k \in 0 .. m |-> IF k = m THEN G[m][f[m - 1]] ELSE f[k]]
  <2>2. G[m][f[m - 1]] \in S
    OBVIOUS
  <2>3. h \in [0 .. m -> S]
    BY <2>2
  <2>4. h[0] = a
    BY <2>1
  <2>5. ASSUME NEW k \in 1 .. m PROVE h[k] = G[k][h[k - 1]]
    <3>1. CASE k = m
      BY <3>1
    <3>2. CASE k # m
      <4>1. k \in 1 .. m - 1 /\ k - 1 \in 0 .. m - 1 /\ k - 1 # m
        BY <3>2
      <4>2. h[k] = f[k] /\ h[k - 1] = f[k - 1]
        BY <3>2, <4>1
      <4> QED
        BY <2>1, <4>1, <4>2
    <3> QED
      BY <3>1, <3>2
  <2>6. m \in 0 .. n
    OBVIOUS
  <2> HIDE DEF h
  <2> QED
    BY <2>3, <2>4, <2>5, <2>6
<1>3. n \in Good
  <2>1. \A k \in 1 .. n : k - 1 \in Good => k \in Good
    BY <1>2
  <2>2. n \in 0 .. n
    OBVIOUS
  <2> HIDE DEF Good
  <2>3. \A k \in 0 .. n : k \in Good
    BY <1>1, <2>1, UpTo
  <2> QED
    BY <2>2, <2>3
<1> QED
  BY <1>3 DEF Good, Unfolds

--------------------------------------------------------------------------------
\* The system: how many processes, which are faulty, what each starts with.
SystemTyped ==
  /\ num_processes \in Nat \ {0} /\ max_faulty \in Nat
  /\ initial_value \in [Process -> Value]
  /\ Cardinality(Process \ Correct) <= max_faulty

\* The processes are a finite set, and so are those of each kind.
LEMMA ProcessesFinite ==
  ASSUME SystemTyped
  PROVE  /\ IsFiniteSet(Process) /\ Cardinality(Process) = num_processes
         /\ Correct \subseteq Relaying /\ Relaying \subseteq Process
         /\ IsFiniteSet(Correct) /\ IsFiniteSet(Relaying)
         /\ Cardinality(Correct) \in Nat /\ Cardinality(Correct) >= num_processes - max_faulty
         /\ Cardinality(Process \ Correct) \in Nat
         /\ Cardinality(Correct) + Cardinality(Process \ Correct) = num_processes
<1>1. num_processes \in Nat \ {0} /\ max_faulty \in Nat /\ Cardinality(Process \ Correct) <= max_faulty
  BY DEF SystemTyped
<1>2. IsFiniteSet(Process) /\ Cardinality(Process) = num_processes
  BY <1>1, FS_Interval DEF Process
<1>3. Correct \subseteq Relaying /\ Relaying \subseteq Process /\ Correct \in SUBSET Process
  BY DEF Correct, Relaying, Of
<1>4. IsFiniteSet(Correct) /\ IsFiniteSet(Relaying)
  BY <1>2, <1>3, FS_Subset
<1>5. Process \cap Correct = Correct
  BY <1>3
<1>6. Cardinality(Process \ Correct) = Cardinality(Process) - Cardinality(Correct)
      /\ IsFiniteSet(Process \ Correct)
  BY <1>2, <1>5, FS_Difference
<1>7. Cardinality(Correct) \in Nat /\ Cardinality(Process \ Correct) \in Nat
  BY <1>4, <1>6, FS_CardinalityType
<1> QED
  BY <1>1, <1>2, <1>3, <1>4, <1>6, <1>7

\* Every protocol starts in such a system, nothing decided and no round run.
LEMMA SystemStarts ==
  ASSUME NEW sizes \in SUBSET Sizes, NEW types, SystemInit(sizes, types)
  PROVE  /\ SystemTyped /\ <<num_processes, max_faulty>> \in sizes
         /\ estimate = initial_value /\ previous = initial_value /\ round = 0
         /\ decided_value = [i \in Process |-> Undecided]
         /\ fault_type \in [Process -> types \cup {"CORRECT"}]
<1>1. PICK size \in sizes : num_processes = size[1] /\ max_faulty = size[2]
  BY DEF SystemInit
<1>2. size \in (Nat \ {0}) \X Nat
  BY <1>1, SystemAssumption
<1>3. size = <<num_processes, max_faulty>>
  BY <1>1, <1>2
<1> QED
  BY <1>1, <1>2, <1>3 DEF SystemInit, SystemTyped

\* What does not change the system leaves its sets alone.
LEMMA SystemStays ==
  ASSUME UNCHANGED systemVars
  PROVE  /\ Process' = Process /\ Correct' = Correct /\ Relaying' = Relaying
         /\ num_processes' = num_processes /\ max_faulty' = max_faulty
         /\ initial_value' = initial_value /\ fault_type' = fault_type
         /\ SystemTyped => SystemTyped'
BY DEF systemVars, Process, Correct, Relaying, Of, SystemTyped

--------------------------------------------------------------------------------
\* A step is one of the protocol that runs, or of the rules of finality, or none.
LEMMA ProtocolSteps ==
  ASSUME [Next]_vars
  PROVE  /\ protocol' = protocol
         /\ \/ AgreementStep /\ UNCHANGED finalityVars
            \/ FinalityNext /\ UNCHANGED agreementVars
            \/ UNCHANGED agreementVars /\ UNCHANGED finalityVars
BY DEF Next, vars

\* The rules of finality keep the epochs numbers, precommit what is then
\* committed, and pay Bob no earlier than Alice.
FinalityInv ==
  /\ justified_epoch \in Nat /\ finalized_epoch \in Nat
  /\ tm_step = "COMMIT" => precommitted = proposed_block_hash
  /\ swap.a = "CLAIMED" => swap.b = "CLAIMED"

FinalityHolds ==
  /\ finalized_epoch' # finalized_epoch =>
       finalized_epoch' > finalized_epoch /\ finalized_epoch' + 1 = justified_epoch'
  /\ height' # height => committed_block_hash' = precommitted /\ tm_round' = 0
  /\ swap'.a = "CLAIMED" => swap'.b = "CLAIMED"

\* Each rule keeps the invariant and does what is asked of it.
LEMMA FinalitySteps ==
  ASSUME FinalityInv, FinalityNext \/ UNCHANGED finalityVars
  PROVE  FinalityInv' /\ FinalityHolds
<1>1. ASSUME NEW target \in 1 .. MaxEpoch, NEW votes \in 0 .. Validators, ProcessVotes(target, votes)
      PROVE  FinalityInv' /\ FinalityHolds
  <2>1. target \in Nat /\ target >= 1
    BY FinalityAssumption
  <2> QED
    BY <1>1, <2>1 DEF ProcessVotes, Finalizes, tendermintVars, FinalityInv, FinalityHolds
<1>2. ASSUME TendermintStep PROVE FinalityInv' /\ FinalityHolds
  BY <1>2 DEF TendermintStep, Propose, Voted, NextTmRound, Commit, casperVars,
              FinalityInv, FinalityHolds
<1>3. ASSUME NEW alice_claims \in BOOLEAN, NEW bob_claims \in BOOLEAN, Swap(alice_claims, bob_claims)
      PROVE  FinalityInv' /\ FinalityHolds
  BY <1>3 DEF Swap, casperVars, tendermintVars, FinalityInv, FinalityHolds
<1>4. ASSUME UNCHANGED finalityVars PROVE FinalityInv' /\ FinalityHolds
  BY <1>4 DEF finalityVars, casperVars, tendermintVars, FinalityInv, FinalityHolds
<1> QED
  BY <1>1, <1>2, <1>3, <1>4 DEF FinalityNext

\* Casper finalizes only the epoch before the one it justifies and never goes back,
\* Tendermint commits at every height what two quorums of one round voted for, and
\* Bob is paid only when Alice is, for any number of validators, epochs and heights.
THEOREM FinalityKept == Spec => FinalityRules
<1>1. Init => FinalityInv
  BY DEF Init, FinalityInit, FinalityInv
<1>2. FinalityInv /\ [Next]_vars => FinalityInv' /\ FinalityHolds
  BY ProtocolSteps, FinalitySteps
<1>3. FinalityInv /\ [Next]_vars => FinalityInv'
  BY <1>2
<1>4. FinalityInv /\ [Next]_vars => [FinalityHolds]_vars
  BY <1>2
<1> QED
  BY <1>1, <1>3, <1>4, PTL DEF Spec, FinalityRules, FinalityHolds

--------------------------------------------------------------------------------
\* Phase King.

\* A phase makes all estimates equal and leaves equal ones alone.
LEMMA KingPhaseAgrees ==
  ASSUME SystemTyped, 4 * max_faulty < num_processes,
         NEW est \in [Process -> Value], NEW king \in Process
  PROVE  /\ KingPhase(est, king) \in [Process -> Value]
         /\ \A i, j \in Process : KingPhase(est, king)[i] = KingPhase(est, king)[j]
         /\ (\A i, j \in Process : est[i] = est[j]) => KingPhase(est, king) = est
<1> DEFINE overwhelming == {v \in Value : CountOf(Process, est, v) > num_processes \div 2 + max_faulty}
           chosen == IF overwhelming = {} THEN est[king] ELSE CHOOSE v \in overwhelming : TRUE
<1>1. KingPhase(est, king) = [i \in Process |-> chosen]
  BY DEF KingPhase
<1>2. chosen \in Value
  <2>1. overwhelming # {} => (CHOOSE v \in overwhelming : TRUE) \in Value
    OBVIOUS
  <2> QED
    BY <2>1
<1>3. ASSUME \A i, j \in Process : est[i] = est[j] PROVE chosen = est[king]
  <2>1. CountOf(Process, est, est[king]) = num_processes
    BY <1>3, CountAll, ProcessesFinite
  <2>2. num_processes > num_processes \div 2 + max_faulty
    BY DEF SystemTyped
  <2>3. est[king] \in overwhelming
    BY <2>1, <2>2
  <2>4. ASSUME NEW v \in overwhelming PROVE v = est[king]
    <3>1. CountOf(Process, est, v) > 0
      BY CountBounds, ProcessesFinite DEF SystemTyped
    <3>2. \E i \in Process : est[i] = v
      BY <3>1, CountBounds, ProcessesFinite
    <3> QED
      BY <1>3, <3>2
  <2> QED
    BY <2>3, <2>4
<1>4. ASSUME \A i, j \in Process : est[i] = est[j] PROVE [i \in Process |-> chosen] = est
  <2> HIDE DEF chosen
  <2>1. \A i \in Process : est[i] = chosen
    BY <1>3, <1>4
  <2> QED
    BY <2>1
<1> HIDE DEF chosen
<1> QED
  BY <1>1, <1>2, <1>4

\* From the first phase on the estimates are equal, from the start if the initial
\* values are; what is decided, by all and after the last phase, is the estimate.
KingInv ==
  /\ SystemTyped /\ 4 * max_faulty < num_processes
  /\ estimate \in [Process -> Value] /\ round \in 0 .. max_faulty + 1
  /\ round > 0 => \A i, j \in Process : estimate[i] = estimate[j]
  /\ (\A i, j \in Correct : initial_value[i] = initial_value[j]) => estimate = initial_value
  /\ Correct = Process
  /\ \/ decided_value = [i \in Process |-> Undecided]
     \/ decided_value = estimate /\ round = max_faulty + 1

\* phase_king_init establishes the invariant.
LEMMA KingStarts == PhaseKingInit => KingInv
<1> SUFFICES ASSUME PhaseKingInit PROVE KingInv
  OBVIOUS
<1> DEFINE sizes == {s \in Sizes : 4 * s[2] < s[1]}
<1>1. SystemInit(sizes, {}) /\ sizes \in SUBSET Sizes
  BY DEF PhaseKingInit
<1>2. /\ SystemTyped /\ <<num_processes, max_faulty>> \in sizes
      /\ estimate = initial_value /\ round = 0
      /\ decided_value = [i \in Process |-> Undecided]
      /\ fault_type \in [Process -> {} \cup {"CORRECT"}]
  <2> HIDE DEF sizes
  <2> QED
    BY <1>1, SystemStarts
<1>3. Correct = Process
  BY <1>2 DEF Correct, Of
<1>4. 4 * max_faulty < num_processes
  BY <1>2
<1> QED
  BY <1>2, <1>3, <1>4 DEF KingInv, SystemTyped

\* Every phase keeps it.
LEMMA KingSteps == KingInv /\ PhaseKingStep => KingInv'
<1> SUFFICES ASSUME KingInv, PhaseKingStep PROVE KingInv'
  OBVIOUS
<1>1. /\ Process' = Process /\ Correct' = Correct /\ SystemTyped'
      /\ num_processes' = num_processes /\ max_faulty' = max_faulty /\ initial_value' = initial_value
  BY SystemStays DEF PhaseKingStep, KingInv
<1>2. round \in Process
  BY DEF KingInv, PhaseKingStep, SystemTyped, Process
<1>3. /\ estimate' \in [Process -> Value]
      /\ \A i, j \in Process : estimate'[i] = estimate'[j]
      /\ (\A i, j \in Process : estimate[i] = estimate[j]) => estimate' = estimate
  BY <1>2, KingPhaseAgrees DEF KingInv, PhaseKingStep
<1>4. round' \in 0 .. max_faulty + 1 /\ round' > 0
  BY DEF KingInv, PhaseKingStep, SystemTyped
<1>5. \/ decided_value' = [i \in Process |-> Undecided]
      \/ decided_value' = estimate' /\ round' = max_faulty + 1
  BY DEF KingInv, PhaseKingStep, SystemTyped
<1>6. (\A i, j \in Correct : initial_value[i] = initial_value[j]) => estimate' = initial_value
  BY <1>3 DEF KingInv
<1> QED
  BY <1>1, <1>3, <1>4, <1>5, <1>6 DEF KingInv

\* Phase King decides on one value, the initial one if there is only one.
LEMMA KingSound ==
  ASSUME KingInv
  PROVE  VerifyAgreement /\ VerifyValidity /\ (round > 0 => Unanimous(Process, estimate))
<1> DEFINE D == {i \in Correct : decided_value[i] # Undecided}
<1>1. IsFiniteSet(Process) /\ IsFiniteSet(Correct)
  BY ProcessesFinite DEF KingInv
<1>2. IsFiniteSet(D)
  BY <1>1, FS_Subset
<1>3. D # {} => decided_value = estimate /\ round > 0
  BY DEF KingInv, SystemTyped
<1>4. \A i, j \in D : decided_value[i] = decided_value[j]
  BY <1>3 DEF KingInv
<1>5. VerifyAgreement
  <2> HIDE DEF D
  <2>1. Unanimous(D, decided_value)
    BY <1>2, <1>4, UnanimousIs
  <2> QED
    BY <2>1 DEF VerifyAgreement, D
<1>6. VerifyValidity
  <2>1. Unanimous(Correct, initial_value) => \A i, j \in Correct : initial_value[i] = initial_value[j]
    BY <1>1, UnanimousIs
  <2> QED
    BY <2>1 DEF VerifyValidity, KingInv
<1>7. round > 0 => Unanimous(Process, estimate)
  BY <1>1, UnanimousIs DEF KingInv
<1> QED
  BY <1>5, <1>6, <1>7

--------------------------------------------------------------------------------
\* Ben-Or.

\* A value all correct processes hold outnumbers the other one among what is sent.
LEMMA CorrectOutnumber ==
  ASSUME SystemTyped, 2 * max_faulty < num_processes, NEW f, NEW v,
         \A i \in Correct : f[i] = v
  PROVE  /\ CountOf(Relaying, f, v) \in Nat /\ CountOf(Relaying, f, v) >= Cardinality(Correct)
         /\ Cardinality(Correct) > num_processes \div 2 /\ Cardinality(Correct) >= max_faulty + 1
         /\ \A w : w # v => /\ CountOf(Relaying, f, w) \in Nat
                            /\ CountOf(Relaying, f, w) <= num_processes \div 2
                            /\ CountOf(Relaying, f, w) <= max_faulty
<1>1. /\ IsFiniteSet(Process) /\ Cardinality(Process) = num_processes
      /\ Correct \in SUBSET Relaying /\ Relaying \in SUBSET Process
      /\ IsFiniteSet(Correct) /\ IsFiniteSet(Relaying)
      /\ Cardinality(Correct) \in Nat /\ Cardinality(Correct) >= num_processes - max_faulty
      /\ num_processes \in Nat /\ max_faulty \in Nat
  BY ProcessesFinite DEF SystemTyped
<1>2. CountOf(Relaying, f, v) \in Nat /\ CountOf(Relaying, f, v) >= Cardinality(Correct)
  <2>1. CountOf(Correct, f, v) = Cardinality(Correct)
    BY CountAll
  <2>2. CountOf(Correct, f, v) <= CountOf(Relaying, f, v)
    BY <1>1, CountGrows
  <2>3. CountOf(Relaying, f, v) \in Nat
    BY <1>1, CountBounds
  <2> QED
    BY <2>1, <2>2, <2>3
<1>3. Cardinality(Correct) > num_processes \div 2 /\ Cardinality(Correct) >= max_faulty + 1
  BY <1>1
<1>4. ASSUME NEW w, w # v
      PROVE  /\ CountOf(Relaying, f, w) \in Nat
             /\ CountOf(Relaying, f, w) <= num_processes \div 2
             /\ CountOf(Relaying, f, w) <= max_faulty
  <2>1. CountOf(Relaying, f, v) + CountOf(Relaying, f, w) <= Cardinality(Relaying)
    BY <1>1, <1>4, CountApart
  <2>2. Cardinality(Relaying) <= num_processes /\ Cardinality(Relaying) \in Nat
    BY <1>1, FS_Subset, FS_CardinalityType
  <2>3. CountOf(Relaying, f, w) \in Nat
    BY <1>1, CountBounds
  <2> QED
    BY <1>1, <1>2, <1>3, <2>1, <2>2, <2>3
<1> QED
  BY <1>2, <1>3, <1>4

\* With a correct majority, the value that all correct processes hold is decided at once.
LEMMA OneRoundDecides ==
  ASSUME SystemTyped, 2 * max_faulty < num_processes, NEW v \in {0, 1},
         NEW est, \A i \in Correct : est[i] = v
  PROVE  BenOrDecides(BenOrAdoptions(Adopt(BenOrSent(est)))) = {v}
<1>1. Correct \subseteq Process /\ Correct \cap Of("BYZANTINE") = {}
      /\ num_processes \in Nat /\ max_faulty \in Nat /\ Cardinality(Correct) \in Nat
  BY ProcessesFinite DEF Correct, Of, SystemTyped
<1> DEFINE sent == BenOrSent(est)
           adoptions == BenOrAdoptions(v)
<1>2. \A i \in Correct : sent[i] = v
  BY <1>1 DEF BenOrSent
<1>3. Adopt(sent) = v
  <2> HIDE DEF sent
  <2>1. /\ CountOf(Relaying, sent, v) \in Nat /\ CountOf(Relaying, sent, v) > num_processes \div 2
        /\ \A w \in {0, 1} : w # v => ~(CountOf(Relaying, sent, w) > num_processes \div 2)
    BY <1>1, <1>2, CorrectOutnumber
  <2>2. CASE v = 0
    BY <2>1, <2>2 DEF Adopt
  <2>3. CASE v = 1
    BY <2>1, <2>3 DEF Adopt
  <2> QED
    BY <2>2, <2>3
<1>4. \A i \in Correct : adoptions[i] = v
  BY <1>1 DEF BenOrAdoptions
<1>5. BenOrDecides(adoptions) = {v}
  <2> HIDE DEF adoptions
  <2>1. /\ CountOf(Relaying, adoptions, v) >= max_faulty + 1
        /\ \A w \in {0, 1} : w # v => ~(CountOf(Relaying, adoptions, w) >= max_faulty + 1)
    BY <1>1, <1>4, CorrectOutnumber
  <2> QED
    BY <2>1 DEF BenOrDecides
<1> QED
  BY <1>3, <1>5

\* The correct processes decide together; with a correct majority and binary values
\* they decide what they all start with in the first round.
BenInv ==
  /\ SystemTyped /\ <<num_processes, max_faulty>> \in Sizes
  /\ round \in Nat
  /\ round = 0 => estimate = initial_value /\ decided_value = [i \in Process |-> Undecided]
  /\ \/ decided_value = [i \in Process |-> Undecided]
     \/ \E v \in {0, 1} : decided_value = [i \in Process |-> IF i \in Correct THEN v ELSE Undecided]
  /\ /\ Value \subseteq {0, 1} /\ 2 * max_faulty < num_processes /\ round > 0
     /\ \A i, j \in Correct : initial_value[i] = initial_value[j]
     => \A i \in Correct : decided_value[i] = initial_value[i]

\* benor_init establishes the invariant.
LEMMA BenStarts == BenOrInit => BenInv
<1> SUFFICES ASSUME BenOrInit PROVE BenInv
  OBVIOUS
<1>1. /\ SystemTyped /\ <<num_processes, max_faulty>> \in Sizes
      /\ estimate = initial_value /\ round = 0
      /\ decided_value = [i \in Process |-> Undecided]
  BY SystemStarts DEF BenOrInit
<1> QED
  BY <1>1 DEF BenInv

\* Every round keeps it.
LEMMA BenSteps == BenInv /\ BenOrStep => BenInv'
<1> SUFFICES ASSUME BenInv, BenOrStep PROVE BenInv'
  OBVIOUS
<1> DEFINE decides == BenOrDecides(BenOrAdoptions(Adopt(BenOrSent(estimate))))
           value == IF 0 \in decides THEN 0 ELSE 1
<1>1. /\ Process' = Process /\ Correct' = Correct /\ SystemTyped'
      /\ num_processes' = num_processes /\ max_faulty' = max_faulty /\ initial_value' = initial_value
  BY SystemStays DEF BenOrStep, BenInv
<1>2. /\ \/ decides # {} /\ decided_value' = [i \in Process |-> IF i \in Correct THEN value ELSE Undecided]
         \/ decides = {} /\ decided_value' = decided_value
      /\ round' = round + 1
      /\ Correct # {} => \E i \in Correct : decided_value[i] = Undecided
  BY DEF BenOrStep, Decide
<1>3. value \in {0, 1}
  OBVIOUS
<1>4. ASSUME Value \subseteq {0, 1}, 2 * max_faulty < num_processes, NEW i \in Correct,
             \A j, k \in Correct : initial_value[j] = initial_value[k]
      PROVE  decided_value'[i] = initial_value[i]
  <2>1. i \in Process /\ initial_value[i] \in {0, 1}
    BY <1>4, ProcessesFinite DEF BenInv, SystemTyped
  <2>2. round = 0
    <3>1. ASSUME round > 0 PROVE FALSE
      <4>1. \A j \in Correct : decided_value[j] = initial_value[j]
        BY <1>4, <3>1 DEF BenInv
      <4>2. \A j \in Correct : initial_value[j] \in {0, 1}
        BY <1>4, <2>1
      <4> QED
        BY <1>2, <4>1, <4>2
    <3> QED
      BY <3>1 DEF BenInv
  <2>3. \A j \in Correct : estimate[j] = initial_value[i]
    BY <1>4, <2>2 DEF BenInv
  <2>4. decides = {initial_value[i]}
    BY <1>4, <2>1, <2>3, OneRoundDecides DEF BenInv
  <2>5. value = initial_value[i]
    BY <2>1, <2>4
  <2> QED
    <3> HIDE DEF decides, value
    <3> QED
      BY <1>2, <2>1, <2>4, <2>5
<1> HIDE DEF decides, value
<1>5. \/ decided_value' = [i \in Process |-> Undecided]
      \/ \E v \in {0, 1} : decided_value' = [i \in Process |-> IF i \in Correct THEN v ELSE Undecided]
  BY <1>2, <1>3 DEF BenInv
<1>6. round' \in Nat /\ round' # 0
  BY <1>2 DEF BenInv
<1> QED
  BY <1>1, <1>4, <1>5, <1>6 DEF BenInv

\* What Ben-Or decides is one value, decided by all correct processes or by none.
LEMMA BenSound ==
  ASSUME BenInv
  PROVE  /\ VerifyAgreement
         /\ \A i, j \in Correct : decided_value[i] # Undecided => decided_value[j] # Undecided
         /\ Value \subseteq {0, 1} /\ 2 * max_faulty < num_processes => VerifyValidity
<1> DEFINE D == {i \in Correct : decided_value[i] # Undecided}
<1>1. IsFiniteSet(Correct) /\ Correct \subseteq Process
  BY ProcessesFinite DEF BenInv
<1>2. IsFiniteSet(D)
  BY <1>1, FS_Subset
<1>3. \/ \A i \in Correct : decided_value[i] = Undecided
      \/ \E v \in {0, 1} : \A i \in Correct : decided_value[i] = v
  BY <1>1 DEF BenInv
<1>4. \A i, j \in D : decided_value[i] = decided_value[j]
  BY <1>3
<1>5. VerifyAgreement
  <2> HIDE DEF D
  <2>1. Unanimous(D, decided_value)
    BY <1>2, <1>4, UnanimousIs
  <2> QED
    BY <2>1 DEF VerifyAgreement, D
<1>6. \A i, j \in Correct : decided_value[i] # Undecided => decided_value[j] # Undecided
  BY <1>3
<1>7. ASSUME Value \subseteq {0, 1}, 2 * max_faulty < num_processes PROVE VerifyValidity
  <2>1. Unanimous(Correct, initial_value) => \A i, j \in Correct : initial_value[i] = initial_value[j]
    BY <1>1, UnanimousIs
  <2>2. CASE round > 0
    BY <1>7, <2>1, <2>2 DEF BenInv, VerifyValidity
  <2>3. CASE round = 0
    BY <2>3, <1>1 DEF BenInv, VerifyValidity
  <2> QED
    BY <2>2, <2>3 DEF BenInv
<1> QED
  BY <1>5, <1>6, <1>7

--------------------------------------------------------------------------------
\* Dolev and Strong.

Entry == [value : Value, signers : Seq(Process)]

\* A chain that verifies, begun by a process that sends.
Signed(e) ==
  /\ e \in Entry /\ e.signers # <<>> /\ e.signers[1] \in Relaying
  /\ VerifyChain(e)

Chains == {held \in [Process -> SUBSET Entry] : \A i \in Relaying : \A e \in held[i] : Signed(e)}

\* i holds a chain begun by j.
Holds(held, i, j) == \E e \in held[i] : e.signers[1] = j

\* Signing keeps a chain valid, and its beginning and its value.
LEMMA SignedAgain ==
  ASSUME NEW e, Signed(e), NEW i \in Process
  PROVE  /\ Signed(Sign(e, i)) /\ Sign(e, i).value = e.value
         /\ Sign(e, i).signers[1] = e.signers[1]
<1> DEFINE s == e.signers
<1>1. s \in Seq(Process) /\ s # <<>> /\ Len(s) \in Nat /\ Len(s) > 0 /\ DOMAIN s = 1 .. Len(s)
  <2>1. s \in Seq(Process) /\ s # <<>>
    BY DEF Signed, Entry
  <2> HIDE DEF s
  <2> QED
    BY <2>1, EmptySeq
<1>2. CASE \E k \in DOMAIN s : s[k] = i
  BY <1>2 DEF Sign
<1>3. CASE ~\E k \in DOMAIN s : s[k] = i
  <2> DEFINE t == Append(s, i)
  <2>1. Sign(e, i) = [e EXCEPT !.signers = t]
    BY <1>3 DEF Sign
  <2>2. Sign(e, i) \in Entry /\ Sign(e, i).value = e.value /\ Sign(e, i).signers = t
    <3>1. e \in [value : Value, signers : Seq(Process)]
      BY DEF Signed, Entry
    <3>2. t \in Seq(Process)
      <4> HIDE DEF s
      <4> QED
        BY <1>1
    <3> HIDE DEF s, t
    <3> QED
      BY <2>1, <3>1, <3>2 DEF Entry
  <2>3. /\ DOMAIN t = 1 .. Len(s) + 1 /\ t[Len(s) + 1] = i
        /\ \A k \in 1 .. Len(s) : t[k] = s[k]
    <3> HIDE DEF s
    <3> QED
      BY <1>1, AppendProperties
  <2>4. t # <<>> /\ t[1] = s[1]
    <3> HIDE DEF s
    <3> QED
      BY <1>1, <2>3
  <2>5. \A j, k \in DOMAIN t : t[j] = t[k] => j = k
    <3>1. \A j, k \in 1 .. Len(s) : s[j] = s[k] => j = k
      BY <1>1 DEF Signed, VerifyChain
    <3>2. \A k \in 1 .. Len(s) : s[k] # i
      BY <1>1, <1>3
    <3> HIDE DEF s, t
    <3> QED
      BY <1>1, <2>3, <3>1, <3>2
  <2> QED
    BY <2>2, <2>4, <2>5 DEF Signed, VerifyChain
<1> QED
  BY <1>2, <1>3

\* A receiver's turn adds to what it holds, valid chains from all that send.
Received(held, i) ==
  IF i \notin Relaying THEN held
  ELSE [held EXCEPT ![i] = @ \cup UNION {{Sign(e, i) : e \in held[s]} : s \in Relaying}]

\* A turn keeps the chains valid, loses none, and lets the receiver hold all that was held.
LEMMA ReceiverGains ==
  ASSUME SystemTyped, NEW held \in Chains, NEW i \in Process
  PROVE  /\ Received(held, i) \in Chains
         /\ \A j \in Process : held[j] \subseteq Received(held, i)[j]
         /\ i \in Relaying => \A j \in Relaying, k \in Process :
                                Holds(held, j, k) => Holds(Received(held, i), i, k)
<1>1. Relaying \subseteq Process /\ held \in [Process -> SUBSET Entry]
  BY ProcessesFinite DEF Chains
<1>2. CASE i \notin Relaying
  BY <1>2 DEF Received
<1>3. CASE i \in Relaying
  <2> DEFINE gained == UNION {{Sign(e, i) : e \in held[s]} : s \in Relaying}
             new == Received(held, i)
  <2>1. new = [held EXCEPT ![i] = @ \cup gained]
    BY <1>3 DEF Received
  <2>2. \A e \in gained : Signed(e)
    <3>1. \A s \in Relaying : \A e \in held[s] : Signed(Sign(e, i))
      BY SignedAgain DEF Chains
    <3> QED
      BY <3>1
  <2>3. \A s \in Relaying : \A e \in held[s] : Sign(e, i) \in gained
    OBVIOUS
  <2> HIDE DEF gained, new
  <2>4. gained \subseteq Entry
    BY <2>2 DEF Signed
  <2>5. new \in [Process -> SUBSET Entry] /\ new[i] = held[i] \cup gained
        /\ \A j \in Process : j # i => new[j] = held[j]
    BY <1>1, <2>1, <2>4
  <2>6. \A j \in Relaying : \A e \in new[j] : Signed(e)
    BY <1>1, <2>2, <2>5 DEF Chains
  <2>7. ASSUME NEW j \in Relaying, NEW k \in Process, Holds(held, j, k) PROVE Holds(new, i, k)
    <3>1. PICK e \in held[j] : e.signers[1] = k
      BY <2>7 DEF Holds
    <3>2. Sign(e, i).signers[1] = k
      BY <3>1, SignedAgain DEF Chains
    <3> QED
      BY <2>3, <2>5, <3>2 DEF Holds
  <2> QED
    BY <2>5, <2>6, <2>7 DEF Chains, new
<1> QED
  BY <1>2, <1>3

\* After a round of relays every process that sends holds a chain from each of them.
LEMMA RelayReaches ==
  ASSUME SystemTyped, NEW ext \in Chains, \A i \in Relaying : Holds(ext, i, i)
  PROVE  /\ Relay(ext) \in Chains
         /\ \A i, j \in Relaying : Holds(Relay(ext), i, j)
<1> DEFINE n == num_processes
           G == [k \in 1 .. n |-> [h \in Chains |-> Received(h, k - 1)]]
           receive(held, i) ==
             IF i \notin Relaying THEN held
             ELSE [held EXCEPT ![i] = @ \cup UNION {{Sign(e, i) : e \in held[s]} : s \in Relaying}]
           after[k \in 0 .. n] == IF k = 0 THEN ext ELSE receive(after[k - 1], k - 1)
<1>1. n \in Nat \ {0} /\ Process = 0 .. n - 1 /\ Relaying \subseteq Process
  BY ProcessesFinite DEF SystemTyped, Process
<1>2. \A k \in 1 .. n : k - 1 \in Process /\ k - 1 \in 0 .. n
  <2> HIDE DEF n
  <2> QED
    BY <1>1
<1>3. \A h \in Chains, k \in 1 .. n : Received(h, k - 1) \in Chains
  BY <1>2, ReceiverGains
<1>4. G \in StepsOn(Chains, n)
  BY <1>3 DEF StepsOn
<1>5. Relay(ext) = after[n]
  BY DEF Relay
<1>6. \E f : f = [k \in 0 .. n |-> IF k = 0 THEN ext ELSE receive(f[k - 1], k - 1)]
  <2>1. PICK f : Unfolds(f, Chains, ext, n, G)
    <3> HIDE DEF G, n
    <3> QED
      BY <1>1, <1>4, Recursion
  <2>2. f \in [0 .. n -> Chains] /\ f[0] = ext /\ \A k \in 1 .. n : f[k] = Received(f[k - 1], k - 1)
    <3> HIDE DEF n
    <3> QED
      BY <1>2, <2>1 DEF Unfolds
  <2>3. \A k \in 0 .. n : f[k] = IF k = 0 THEN ext ELSE receive(f[k - 1], k - 1)
    <3>1. \A k \in 0 .. n : k # 0 => k \in 1 .. n
      BY <1>1
    <3> HIDE DEF n
    <3> QED
      BY <2>2, <3>1 DEF Received
  <2> HIDE DEF n, receive
  <2> QED
    BY <2>2, <2>3
<1>7. after = [k \in 0 .. n |-> IF k = 0 THEN ext ELSE receive(after[k - 1], k - 1)]
  <2> HIDE DEF n, receive
  <2> QED
    BY <1>6
<1>8. after[0] = ext /\ \A k \in 1 .. n : after[k] = Received(after[k - 1], k - 1)
  <2> HIDE DEF after
  <2>1. \A k \in 1 .. n : k \in 0 .. n /\ k # 0
    BY <1>1
  <2>2. 0 \in 0 .. n
    BY <1>1
  <2>3. after[0] = ext /\ \A k \in 1 .. n : after[k] = receive(after[k - 1], k - 1)
    <3> HIDE DEF n, receive
    <3> QED
      BY <1>7, <2>1, <2>2
  <2> QED
    BY <2>3 DEF Received
<1> HIDE DEF after, receive, G
<1> DEFINE Good == {k \in 0 .. n :
                      /\ after[k] \in Chains
                      /\ \A i \in Relaying : Holds(after[k], i, i)
                      /\ \A i, j \in Relaying : i < k => Holds(after[k], i, j)}
<1>9. 0 \in Good
  BY <1>1, <1>8
<1>10. ASSUME NEW k \in 1 .. n, k - 1 \in Good PROVE k \in Good
  <2> DEFINE old == after[k - 1]
             new == after[k]
  <2>1. /\ old \in Chains /\ \A i \in Relaying : Holds(old, i, i)
        /\ \A i, j \in Relaying : i < k - 1 => Holds(old, i, j)
    BY <1>10
  <2>2. new = Received(old, k - 1) /\ k - 1 \in Process /\ k \in 0 .. n /\ k \in Int
    BY <1>1, <1>2, <1>8
  <2> HIDE DEF old, new, n
  <2>3. /\ new \in Chains /\ \A j \in Process : old[j] \subseteq new[j]
        /\ k - 1 \in Relaying => \A j \in Relaying, l \in Process : Holds(old, j, l) => Holds(new, k - 1, l)
    BY <2>1, <2>2, ReceiverGains
  <2>4. \A i, j \in Relaying : Holds(old, i, j) => Holds(new, i, j)
    BY <1>1, <2>3 DEF Holds
  <2>5. ASSUME NEW i \in Relaying, NEW j \in Relaying, i < k PROVE Holds(new, i, j)
    <3>1. CASE i < k - 1
      BY <2>1, <2>4, <3>1
    <3>2. CASE i = k - 1
      BY <1>1, <2>1, <2>3, <3>2
    <3>3. i \in Int
      BY <1>1
    <3> QED
      BY <2>2, <2>5, <3>1, <3>2, <3>3
  <2> QED
    BY <2>1, <2>2, <2>3, <2>4, <2>5 DEF new
<1>11. n \in Good
  <2>1. \A k \in 1 .. n : k - 1 \in Good => k \in Good
    BY <1>10
  <2>2. n \in 0 .. n /\ n \in Nat
    BY <1>1
  <2> HIDE DEF Good, n
  <2>3. \A k \in 0 .. n : k \in Good
    BY <1>9, <2>1, <2>2, UpTo
  <2> QED
    BY <2>2, <2>3
<1>12. \A i \in Relaying : i < n
  BY <1>1
<1> QED
  BY <1>5, <1>11, <1>12

\* The processes that send hold valid chains, after a round one from each of them;
\* what is decided is one value, the initial one if they have only one.
DsInv ==
  /\ SystemTyped /\ round \in 0 .. max_faulty + 1
  /\ entries \in Chains /\ \A i \in Relaying : Holds(entries, i, i)
  /\ round > 0 => \A i, j \in Relaying : Holds(entries, i, j)
  /\ \/ decided_value = [i \in Process |-> Undecided]
     \/ \E d : /\ decided_value = [i \in Process |-> IF i \in Correct THEN d ELSE Undecided]
               /\ \A v : (\A i \in Relaying : initial_value[i] = v) /\ Relaying # {} => d = v

\* ds_init establishes the invariant: every process has signed its own value.
LEMMA DsStarts == DolevStrongInit => DsInv
<1> SUFFICES ASSUME DolevStrongInit PROVE DsInv
  OBVIOUS
<1>1. /\ SystemTyped /\ round = 0 /\ decided_value = [i \in Process |-> Undecided]
      /\ entries = [i \in Process |-> {[value |-> initial_value[i], signers |-> <<i>>]}]
  BY SystemStarts DEF DolevStrongInit
<1>2. Relaying \subseteq Process /\ initial_value \in [Process -> Value]
  BY <1>1, ProcessesFinite DEF SystemTyped
<1>3. ASSUME NEW i \in Process PROVE entries[i] \subseteq Entry
  BY <1>1, <1>2 DEF Entry
<1>4. ASSUME NEW i \in Relaying PROVE (\A e \in entries[i] : Signed(e)) /\ Holds(entries, i, i)
  <2> DEFINE e == [value |-> initial_value[i], signers |-> <<i>>]
  <2>1. i \in Process /\ entries[i] = {e} /\ e \in Entry /\ e.signers = <<i>> /\ e.value = initial_value[i]
    BY <1>1, <1>2, <1>3
  <2>2. <<i>> # <<>> /\ <<i>>[1] = i /\ DOMAIN <<i>> = {1}
    OBVIOUS
  <2> HIDE DEF e
  <2>3. Signed(e)
    BY <2>1, <2>2 DEF Signed, VerifyChain
  <2> QED
    BY <2>1, <2>2, <2>3 DEF Holds
<1>5. entries \in Chains
  BY <1>1, <1>3, <1>4 DEF Chains
<1> QED
  BY <1>1, <1>4, <1>5 DEF DsInv, SystemTyped

\* Every round keeps it.
LEMMA DsSteps == DsInv /\ DolevStrongStep => DsInv'
<1> SUFFICES ASSUME DsInv, DolevStrongStep PROVE DsInv'
  OBVIOUS
<1>1. /\ Process' = Process /\ Correct' = Correct /\ Relaying' = Relaying /\ SystemTyped'
      /\ num_processes' = num_processes /\ max_faulty' = max_faulty /\ initial_value' = initial_value
  BY SystemStays DEF DolevStrongStep, DsInv
<1>2. Chains' = Chains
  <2>1. Entry' = Entry
    BY <1>1 DEF Entry
  <2>2. \A e : Signed(e)' <=> Signed(e)
    BY <1>1, <2>1 DEF Signed, VerifyChain
  <2> QED
    BY <1>1, <2>1, <2>2 DEF Chains
<1>3. entries' \in Chains /\ \A i, j \in Relaying : Holds(entries', i, j)
  BY RelayReaches DEF DsInv, DolevStrongStep
<1>4. round' \in 0 .. max_faulty + 1 /\ (round' > max_faulty => round' = max_faulty + 1)
  BY DEF DsInv, DolevStrongStep, SystemTyped
<1>5. /\ SystemTyped' /\ (round \in 0 .. max_faulty + 1)'
      /\ (entries \in Chains)' /\ (\A i \in Relaying : Holds(entries, i, i))'
      /\ (round > 0 => \A i, j \in Relaying : Holds(entries, i, j))'
  BY <1>1, <1>2, <1>3, <1>4
<1> DEFINE V == {initial_value[j] : j \in Relaying}
           d == IF Cardinality(V) = 1 THEN CHOOSE v \in V : TRUE ELSE 0
           Held(i) == {e.value : e \in entries'[i]}
<1>6. Correct \subseteq Relaying /\ Relaying \subseteq Process
  BY ProcessesFinite DEF DsInv
<1>7. ASSUME NEW i \in Relaying PROVE Held(i) = V
  <2>1. ASSUME NEW e \in entries'[i] PROVE e.signers[1] \in Relaying /\ e.value = initial_value[e.signers[1]]
    BY <1>3 DEF Chains, Signed, VerifyChain
  <2>2. \A j \in Relaying : \E e \in entries'[i] : e.signers[1] = j
    BY <1>3 DEF Holds
  <2> QED
    BY <2>1, <2>2
<1>8. \A v : (\A i \in Relaying : initial_value[i] = v) /\ Relaying # {} => d = v
  <2> SUFFICES ASSUME NEW v, \A i \in Relaying : initial_value[i] = v, Relaying # {} PROVE d = v
    OBVIOUS
  <2>1. V = {v}
    OBVIOUS
  <2>2. Cardinality({v}) = 1
    BY FS_Singleton
  <2> HIDE DEF V
  <2> QED
    BY <2>1, <2>2
<1>9. CASE round' > max_faulty
  <2> DEFINE est == [i \in Process |-> LET values == {e.value : e \in entries'[i]}
                       IN  IF Cardinality(values) = 1 THEN CHOOSE v \in values : TRUE ELSE 0]
  <2>1. decided_value' = [i \in Process |-> IF i \in Correct THEN est[i] ELSE Undecided]
    BY <1>9 DEF DolevStrongStep, Decide
  <2>2. \A i \in Relaying : est[i] = d
    <3> SUFFICES ASSUME NEW i \in Relaying PROVE est[i] = d
      OBVIOUS
    <3>1. est[i] = IF Cardinality(Held(i)) = 1 THEN CHOOSE v \in Held(i) : TRUE ELSE 0
      BY <1>6
    <3>2. Held(i) = V
      BY <1>7
    <3> HIDE DEF V, Held, est
    <3> QED
      BY <3>1, <3>2
  <2> HIDE DEF est, d
  <2>3. decided_value' = [i \in Process |-> IF i \in Correct THEN d ELSE Undecided]
    BY <1>6, <2>1, <2>2
  <2>4. \E x : /\ decided_value' = [i \in Process' |-> IF i \in Correct' THEN x ELSE Undecided]
              /\ \A v : (\A i \in Relaying' : initial_value'[i] = v) /\ Relaying' # {} => x = v
    BY <1>1, <1>8, <2>3
  <2> QED
    BY <1>5, <2>4 DEF DsInv
<1>10. CASE ~(round' > max_faulty)
  <2>1. decided_value' = decided_value /\ round < max_faulty + 1
    BY <1>10 DEF DolevStrongStep, DsInv, SystemTyped
  <2> HIDE DEF d
  <2>2. (\/ decided_value = [i \in Process |-> Undecided]
         \/ \E x : /\ decided_value = [i \in Process |-> IF i \in Correct THEN x ELSE Undecided]
                   /\ \A v : (\A i \in Relaying : initial_value[i] = v) /\ Relaying # {} => x = v)'
    BY <1>1, <2>1 DEF DsInv
  <2> QED
    BY <1>5, <2>2 DEF DsInv
<1> QED
  BY <1>9, <1>10

\* What Dolev and Strong's processes decide is one value, and what they hold verifies.
LEMMA DsSound ==
  ASSUME DsInv
  PROVE  /\ VerifyAgreement
         /\ Unanimous(Relaying, initial_value) =>
              \A i \in Correct : decided_value[i] \in {Undecided, initial_value[i]}
         /\ \A i \in Relaying :
              /\ \A e \in entries[i] : VerifyChain(e)
              /\ round > 0 => \A j \in Relaying : \E e \in entries[i] :
                                 e.signers[1] = j /\ e.value = initial_value[j]
<1> DEFINE D == {i \in Correct : decided_value[i] # Undecided}
<1>1. IsFiniteSet(Correct) /\ Correct \subseteq Process /\ IsFiniteSet(Relaying) /\ Correct \subseteq Relaying
  BY ProcessesFinite DEF DsInv
<1>2. IsFiniteSet(D)
  BY <1>1, FS_Subset
<1>3. \/ \A i \in Correct : decided_value[i] = Undecided
      \/ \E d : /\ \A i \in Correct : decided_value[i] = d
                /\ \A v : (\A i \in Relaying : initial_value[i] = v) /\ Relaying # {} => d = v
  BY <1>1 DEF DsInv
<1>4. \A i, j \in D : decided_value[i] = decided_value[j]
  BY <1>3
<1>5. VerifyAgreement
  <2> HIDE DEF D
  <2>1. Unanimous(D, decided_value)
    BY <1>2, <1>4, UnanimousIs
  <2> QED
    BY <2>1 DEF VerifyAgreement, D
<1>6. ASSUME Unanimous(Relaying, initial_value), NEW i \in Correct
      PROVE  decided_value[i] \in {Undecided, initial_value[i]}
  <2>1. \A j \in Relaying : initial_value[j] = initial_value[i]
    BY <1>1, <1>6, UnanimousIs
  <2> QED
    BY <1>1, <1>3, <2>1
<1>7. ASSUME NEW i \in Relaying, NEW e \in entries[i] PROVE VerifyChain(e)
  BY DEF DsInv, Chains, Signed
<1>8. ASSUME NEW i \in Relaying, NEW j \in Relaying, round > 0
      PROVE  \E e \in entries[i] : e.signers[1] = j /\ e.value = initial_value[j]
  BY <1>7, <1>8 DEF DsInv, Holds, VerifyChain
<1> QED
  BY <1>5, <1>6, <1>7, <1>8

--------------------------------------------------------------------------------
\* Exponential information gathering.

\* Where only the members of X can have a value, none has a majority larger than X.
LEMMA NoMajority ==
  ASSUME SystemTyped, NEW X \in SUBSET Process, NEW f,
         \A i \in Process \ X : f[i] = Undecided, Cardinality(X) <= num_processes \div 2
  PROVE  Majority(Process, f) = Undecided
<1>1. IsFiniteSet(Process) /\ Cardinality(Process) = num_processes /\ num_processes \in Nat
  BY ProcessesFinite DEF SystemTyped
<1>2. IsFiniteSet(X)
  BY <1>1, FS_Subset
<1>3. Cardinality(X) \in Nat
  BY <1>2, FS_CardinalityType
<1>4. ASSUME NEW v \in Value PROVE ~(CountOf(Process, f, v) > num_processes \div 2)
  <2> DEFINE T == {i \in Process : f[i] = v}
  <2>1. v # Undecided
    BY SystemAssumption
  <2>2. T \in SUBSET X
    BY <2>1
  <2> HIDE DEF T
  <2>3. Cardinality(T) <= Cardinality(X) /\ IsFiniteSet(T)
    BY <1>2, <2>2, FS_Subset
  <2>4. Cardinality(T) \in Nat
    BY <2>3, FS_CardinalityType
  <2>5. CountOf(Process, f, v) = Cardinality(T)
    BY DEF CountOf, T
  <2> QED
    BY <1>1, <1>3, <2>3, <2>4, <2>5
<1> QED
  BY <1>1, <1>4 DEF Majority

\* A tree of paths of processes, in which the owner has heard nothing from itself and
\* of nobody from that one, at the leaves.
Gathered(t, owner) ==
  /\ DOMAIN t \subseteq Seq(Process) /\ <<>> \in DOMAIN t
  /\ \A i, j \in Process : <<i, j>> \in DOMAIN t /\ t[<<i, j>>] # Undecided => j # owner /\ i # j

\* With four processes no such tree resolves to a value.
LEMMA NothingResolves ==
  ASSUME SystemTyped, max_faulty = 1, num_processes <= 4,
         NEW p \in Process, NEW t, Gathered(t, p)
  PROVE  Resolve(t) = Undecided
<1> DEFINE Level(d) == {q \in DOMAIN t : Len(q) = Depth - d}
           up(below, d) == [path \in Level(d) |->
             Majority(Process, [i \in Process |->
               IF Append(path, i) \in DOMAIN t THEN below[Append(path, i)] ELSE Undecided])]
           r0 == [path \in {q \in DOMAIN t : Len(q) = Depth} |-> t[path]]
           r1 == up(r0, 1)
           r2 == up(r1, 2)
           resolved[d \in 0 .. Depth] == IF d = 0 THEN r0 ELSE up(resolved[d - 1], d)
<1>1. Depth = 2 /\ IsFiniteSet(Process) /\ Cardinality(Process) = num_processes /\ num_processes \in 1 .. 4
  BY ProcessesFinite DEF Depth, SystemTyped
<1>2. Resolve(t) = resolved[Depth][<<>>]
  BY DEF Resolve
<1>3. resolved[Depth] = r2
  <2> DEFINE f == [d \in 0 .. Depth |-> IF d = 0 THEN r0 ELSE IF d = 1 THEN r1 ELSE r2]
  <2>1. f[0] = r0 /\ f[1] = r1 /\ f[2] = r2 /\ 0 .. Depth = {0, 1, 2} /\ DOMAIN f = 0 .. Depth
    <3> HIDE DEF r0, r1, r2
    <3> QED
      BY <1>1
  <2>2. \A d \in 0 .. Depth : f[d] = IF d = 0 THEN r0 ELSE up(f[d - 1], d)
    <3>1. f[1] = up(f[0], 1) /\ f[2] = up(f[1], 2)
      <4> HIDE DEF f, r0, up
      <4>1. r1 = up(r0, 1) /\ r2 = up(r1, 2)
        BY DEF r1, r2
      <4> HIDE DEF r1, r2
      <4> QED
        BY <2>1, <4>1
    <3> HIDE DEF f, r0, r1, r2, up
    <3> QED
      BY <2>1, <3>1
  <2>3. f = [d \in 0 .. Depth |-> f[d]]
    OBVIOUS
  <2> HIDE DEF f, r0, up
  <2>4. f = [d \in 0 .. Depth |-> IF d = 0 THEN r0 ELSE up(f[d - 1], d)]
    BY <2>2, <2>3
  <2>5. resolved = [d \in 0 .. Depth |-> IF d = 0 THEN r0 ELSE up(resolved[d - 1], d)]
    BY <2>4
  <2> HIDE DEF resolved
  <2>6. resolved[0] = r0 /\ resolved[1] = up(resolved[0], 1) /\ resolved[2] = up(resolved[1], 2)
    BY <1>1, <2>5
  <2> QED
    BY <1>1, <2>6 DEF r1, r2
<1>4. \A i \in Process : /\ Append(<<>>, i) = <<i>> /\ Len(<<i>>) = 1
                         /\ \A j \in Process : Append(<<i>>, j) = <<i, j>> /\ Len(<<i, j>>) = 2
  <2> SUFFICES ASSUME NEW i \in Process, NEW j \in Process
               PROVE  /\ Append(<<>>, i) = <<i>> /\ Len(<<i>>) = 1
                      /\ Append(<<i>>, j) = <<i, j>> /\ Len(<<i, j>>) = 2
    OBVIOUS
  <2>1. Append(<<>>, i) = <<i>>
    OBVIOUS
  <2>2. Append(<<i>>, j) = <<i, j>>
    <3> DEFINE one == Append(<<i>>, j)
               two == <<i, j>>
    <3>1. <<i>> \in Seq(Process) /\ Len(<<i>>) = 1
      OBVIOUS
    <3>2. one \in Seq(Process) /\ Len(one) = 2 /\ one[1] = i /\ one[2] = j
      BY <3>1
    <3>3. two \in Seq(Process) /\ Len(two) = 2 /\ two[1] = i /\ two[2] = j
      OBVIOUS
    <3> HIDE DEF one, two
    <3>4. \A k \in 1 .. Len(one) : one[k] = two[k]
      BY <3>2, <3>3
    <3>5. one = two
      BY <3>2, <3>3, <3>4, SeqEqual
    <3> QED
      BY <3>5 DEF one, two
  <2> QED
    BY <2>1, <2>2
<1>5. ASSUME NEW a \in Process, <<a>> \in DOMAIN t, NEW X \in SUBSET Process,
             Process \ {a, p} \subseteq X, Cardinality(X) <= num_processes \div 2
      PROVE  r1[<<a>>] = Undecided
  <2> DEFINE x == [i \in Process |-> IF Append(<<a>>, i) \in DOMAIN t THEN r0[Append(<<a>>, i)] ELSE Undecided]
  <2>1. <<a>> \in Level(1)
    BY <1>1, <1>4, <1>5
  <2>2. r1[<<a>>] = Majority(Process, x)
    BY <2>1
  <2>3. ASSUME NEW i \in Process \ X PROVE x[i] = Undecided
    <3>1. i = a \/ i = p
      BY <1>5
    <3>2. CASE <<a, i>> \in DOMAIN t
      <4>1. <<a, i>> \in {q \in DOMAIN t : Len(q) = Depth}
        BY <1>1, <1>4, <3>2
      <4>2. x[i] = t[<<a, i>>]
        BY <1>4, <3>2, <4>1
      <4> QED
        BY <3>1, <3>2, <4>2 DEF Gathered
    <3>3. CASE <<a, i>> \notin DOMAIN t
      BY <1>4, <3>3
    <3> QED
      BY <3>2, <3>3
  <2> HIDE DEF x, r1
  <2> QED
    BY <1>5, <2>2, <2>3, NoMajority
<1> DEFINE y == [i \in Process |-> IF Append(<<>>, i) \in DOMAIN t THEN r1[Append(<<>>, i)] ELSE Undecided]
<1>6. r2[<<>>] = Majority(Process, y)
  <2>1. <<>> \in Level(2)
    BY <1>1 DEF Gathered
  <2> HIDE DEF r1
  <2> QED
    BY <2>1
<1>7. \A i \in Process : y[i] = IF <<i>> \in DOMAIN t THEN r1[<<i>>] ELSE Undecided
  <2> HIDE DEF r1
  <2> QED
    BY <1>4
<1> HIDE DEF r1, r2, y
<1>8. CASE num_processes = 1
  <2>1. Process = {p}
    BY <1>8 DEF Process
  <2>2. Process \ {p, p} = {} /\ Cardinality({}) <= num_processes \div 2 /\ {} \in SUBSET Process
    BY <1>8, <2>1, FS_EmptySet
  <2>3. \A i \in Process \ {} : y[i] = Undecided
    BY <1>5, <1>7, <2>1, <2>2
  <2> QED
    BY <1>2, <1>3, <1>6, <2>2, <2>3, NoMajority
<1>9. CASE num_processes > 1
  <2>1. ASSUME NEW a \in Process \ {p} PROVE y[a] = Undecided
    <3> DEFINE X == Process \ {a, p}
    <3>1. X \in SUBSET Process /\ {a, p} \in SUBSET Process /\ Process \cap {a, p} = {a, p}
      OBVIOUS
    <3>2. Cardinality({a, p}) = 2
      <4>1. {a, p} = {p} \cup {a} /\ a \notin {p}
        OBVIOUS
      <4>2. IsFiniteSet({p}) /\ Cardinality({p}) = 1
        BY FS_Singleton
      <4> QED
        BY <4>1, <4>2, FS_AddElement
    <3>3. Cardinality(X) = num_processes - 2
      <4>1. Cardinality(Process \ {a, p}) = Cardinality(Process) - Cardinality(Process \cap {a, p})
        BY <1>1, FS_Difference
      <4> QED
        BY <1>1, <3>1, <3>2, <4>1
    <3>4. Cardinality(X) <= num_processes \div 2
      BY <1>1, <3>3
    <3> HIDE DEF X
    <3>5. <<a>> \in DOMAIN t => r1[<<a>>] = Undecided
      BY <1>5, <3>1, <3>4 DEF X
    <3> QED
      BY <1>7, <3>5
  <2>2. Cardinality({p}) <= num_processes \div 2 /\ {p} \in SUBSET Process
    <3>1. Cardinality({p}) = 1
      BY FS_Singleton
    <3> QED
      BY <1>1, <1>9, <3>1
  <2> QED
    BY <1>2, <1>3, <1>6, <2>1, <2>2, NoMajority
<1> QED
  BY <1>1, <1>8, <1>9

\* The paths of a tree are sequences of processes, the empty one among them.
LEMMA PathsTyped ==
  ASSUME max_faulty = 1, NEW p \in Process
  PROVE  Paths(p) \subseteq Seq(Process) /\ <<>> \in Paths(p)
<1> DEFINE up(L) == UNION {{Append(path, i) : i \in {j \in Process : Extends(path, j, p)}} : path \in L}
           l0 == {<<>>}
           l1 == up(l0)
           l2 == up(l1)
           level[d \in 0 .. Depth] == IF d = 0 THEN l0 ELSE up(level[d - 1])
<1>1. Depth = 2 /\ 0 .. Depth = {0, 1, 2}
  BY DEF Depth
<1>2. Paths(p) = UNION {level[d] : d \in 0 .. Depth}
  BY DEF Paths
<1>3. level[0] = l0 /\ level[1] = l1 /\ level[2] = l2
  <2> DEFINE f == [d \in 0 .. Depth |-> IF d = 0 THEN l0 ELSE IF d = 1 THEN l1 ELSE l2]
  <2>1. f[0] = l0 /\ f[1] = l1 /\ f[2] = l2 /\ f = [d \in 0 .. Depth |-> f[d]]
    <3> HIDE DEF l0, l1, l2
    <3> QED
      BY <1>1
  <2>2. \A d \in 0 .. Depth : f[d] = IF d = 0 THEN l0 ELSE up(f[d - 1])
    <3> HIDE DEF f, l0, up
    <3>1. l1 = up(l0) /\ l2 = up(l1)
      BY DEF l1, l2
    <3> HIDE DEF l1, l2
    <3> QED
      BY <1>1, <2>1, <3>1
  <2> HIDE DEF f, l0, up
  <2>3. f = [d \in 0 .. Depth |-> IF d = 0 THEN l0 ELSE up(f[d - 1])]
    BY <2>1, <2>2
  <2>4. level = [d \in 0 .. Depth |-> IF d = 0 THEN l0 ELSE up(level[d - 1])]
    BY <2>3
  <2> HIDE DEF level
  <2>5. level[0] = l0 /\ level[1] = up(level[0]) /\ level[2] = up(level[1])
    BY <1>1, <2>4
  <2> QED
    BY <2>5 DEF l1, l2
<1>4. \A L \in SUBSET Seq(Process) : up(L) \in SUBSET Seq(Process)
  OBVIOUS
<1>5. l0 \in SUBSET Seq(Process) /\ <<>> \in l0
  OBVIOUS
<1> HIDE DEF level, l0, up
<1>6. l1 \in SUBSET Seq(Process) /\ l2 \in SUBSET Seq(Process)
  BY <1>4, <1>5 DEF l1, l2
<1> HIDE DEF l1, l2
<1> QED
  BY <1>1, <1>2, <1>3, <1>5, <1>6

\* Until the second round the leaves are empty; nothing is ever decided.
EigInv ==
  /\ SystemTyped /\ max_faulty = 1 /\ num_processes <= 4 /\ round \in Nat
  /\ decided_value = [i \in Process |-> Undecided]
  /\ DOMAIN tree = Process
  /\ \A p \in Process : DOMAIN tree[p] \subseteq Seq(Process) /\ <<>> \in DOMAIN tree[p]
  /\ round <= 1 => \A p, i, j \in Process :
                     <<i, j>> \in DOMAIN tree[p] => tree[p][<<i, j>>] = Undecided

\* eig_tree_init establishes the invariant.
LEMMA EigStarts == EigInit => EigInv
<1> SUFFICES ASSUME EigInit PROVE EigInv
  OBVIOUS
<1> DEFINE sizes == {s \in Sizes : s[2] = 1 /\ s[1] <= 4}
<1>1. SystemInit(sizes, {"BYZANTINE"}) /\ sizes \in SUBSET Sizes
  BY DEF EigInit
<1>2. /\ SystemTyped /\ <<num_processes, max_faulty>> \in sizes
      /\ round = 0 /\ decided_value = [i \in Process |-> Undecided]
  <2> HIDE DEF sizes
  <2> QED
    BY <1>1, SystemStarts
<1>3. max_faulty = 1 /\ num_processes <= 4
  BY <1>2
<1> HIDE DEF sizes
<1>4. tree = [p \in Process |->
                [path \in Paths(p) |-> IF path = <<>> THEN initial_value[p] ELSE Undecided]]
  BY DEF EigInit
<1>5. \A p \in Process : Paths(p) \subseteq Seq(Process) /\ <<>> \in Paths(p)
  BY <1>3, PathsTyped
<1>6. \A i, j : <<i, j>> # <<>>
  OBVIOUS
<1> QED
  BY <1>2, <1>3, <1>4, <1>5, <1>6 DEF EigInv

\* Both rounds keep it.
LEMMA EigSteps == EigInv /\ EigStep => EigInv'
<1> SUFFICES ASSUME EigInv, EigStep PROVE EigInv'
  OBVIOUS
<1>1. /\ Process' = Process /\ SystemTyped' /\ num_processes' = num_processes /\ max_faulty' = max_faulty
  BY SystemStays DEF EigStep, EigInv
<1>2. \A t, values : DOMAIN Insert(t, values) = DOMAIN t
  BY DEF Insert
<1>3. CASE EigHear
  <2>1. PICK says \in [Correct -> [Of("BYZANTINE") -> Value]] :
          tree' = [p \in Process |-> IF p \notin Correct THEN tree[p] ELSE
            Insert(tree[p], [path \in {<<s>> : s \in Process} |->
              IF path[1] \in Correct THEN initial_value[path[1]] ELSE says[p][path[1]]])]
    BY <1>3 DEF EigHear
  <2> DEFINE heard(p) == [path \in {<<s>> : s \in Process} |->
              IF path[1] \in Correct THEN initial_value[path[1]] ELSE says[p][path[1]]]
  <2>2. \A p \in Process : tree'[p] = tree[p] \/ tree'[p] = Insert(tree[p], heard(p))
    BY <2>1
  <2>3. \A p, i, j \in Process : <<i, j>> \notin DOMAIN heard(p)
    <3>1. \A i, j, s : <<i, j>> # <<s>>
      OBVIOUS
    <3> QED
      BY <3>1
  <2> HIDE DEF heard
  <2>4. \A p \in Process : DOMAIN tree'[p] = DOMAIN tree[p]
    BY <1>2, <2>2
  <2>5. \A p, i, j \in Process : <<i, j>> \in DOMAIN tree[p] => tree'[p][<<i, j>>] = tree[p][<<i, j>>]
    BY <2>2, <2>3 DEF Insert
  <2>6. round = 0 /\ round' = 1 /\ decided_value' = decided_value /\ DOMAIN tree' = Process
    BY <1>3, <2>1 DEF EigHear, EigStep
  <2> QED
    BY <1>1, <2>4, <2>5, <2>6 DEF EigInv
<1>4. CASE EigRelay
  <2>1. PICK says \in [Correct -> [Correct \X Of("BYZANTINE") -> Value]] :
          tree' = [p \in Process |-> IF p \notin Correct THEN tree[p] ELSE
            Insert(tree[p], [path \in {q \in Process \X (Process \ {p}) : q[1] # q[2]} |->
              IF path[2] \in Correct THEN tree[path[2]][<<path[1]>>] ELSE says[p][path]])]
    BY <1>4 DEF EigRelay
  <2> DEFINE relayed(p) == [path \in {q \in Process \X (Process \ {p}) : q[1] # q[2]} |->
              IF path[2] \in Correct THEN tree[path[2]][<<path[1]>>] ELSE says[p][path]]
  <2>2. \A p \in Process : tree'[p] = tree[p] \/ tree'[p] = Insert(tree[p], relayed(p))
    BY <2>1
  <2>3. \A p, i, j \in Process : <<i, j>> \in DOMAIN relayed(p) => j # p /\ i # j
    OBVIOUS
  <2> HIDE DEF relayed
  <2>4. \A p \in Process : DOMAIN tree'[p] = DOMAIN tree[p]
    BY <1>2, <2>2
  <2>5. round = 1 /\ round' = 2 /\ DOMAIN tree' = Process
    BY <1>4, <2>1 DEF EigRelay, EigStep
  <2>6. ASSUME NEW p \in Process PROVE Gathered(tree'[p], p)
    <3>1. ASSUME NEW i \in Process, NEW j \in Process,
                 <<i, j>> \in DOMAIN tree'[p], tree'[p][<<i, j>>] # Undecided
          PROVE  j # p /\ i # j
      <4>1. tree[p][<<i, j>>] = Undecided
        BY <2>4, <2>5, <3>1 DEF EigInv
      <4>2. <<i, j>> \in DOMAIN relayed(p)
        BY <2>2, <2>4, <3>1, <4>1 DEF Insert
      <4> QED
        BY <2>3, <4>2
    <3> QED
      BY <2>4, <3>1 DEF Gathered, EigInv
  <2>7. decided_value' = [p \in Process |-> IF p \in Correct THEN Resolve(tree'[p]) ELSE Undecided]
    BY <1>4 DEF EigRelay
  <2>8. \A p \in Process : Resolve(tree'[p]) = Undecided
    BY <2>6, NothingResolves DEF EigInv
  <2>9. decided_value' = [p \in Process |-> Undecided]
    BY <2>7, <2>8
  <2> QED
    BY <1>1, <2>4, <2>5, <2>9 DEF EigInv
<1> QED
  BY <1>3, <1>4 DEF EigStep

--------------------------------------------------------------------------------
\* The message automata.

Half == (num_processes - 1) \div 2

Estimates == [Process -> Value]

\* A number is at least twice its half, and at most one more.
LEMMA HalfBounds ==
  ASSUME SystemTyped
  PROVE  Half \in Nat /\ 2 * Half + 1 <= num_processes /\ num_processes <= 2 * Half + 2
BY DEF SystemTyped, Half

\* A correct process changes to the value that more than half have, if it has another.
LEMMA TakesMajority ==
  ASSUME SystemTyped, NEW est \in Estimates, NEW i \in Correct
  PROVE  /\ \A v \in Value : v # est[i] /\ CountOf(Process, est, v) > Half
                               => ExecuteRound(est)[i] = v
         /\ (\A v \in Value : v # est[i] => CountOf(Process, est, v) <= Half)
              => ExecuteRound(est)[i] = est[i]
<1> DEFINE rest == Process \ {i}
           most == {v \in Value : CountOf(rest, est, v) > Cardinality(rest) \div 2}
<1>1. i \in Process /\ IsFiniteSet(Process) /\ Cardinality(Process) = num_processes
  BY ProcessesFinite
<1>2. IsFiniteSet(rest) /\ Cardinality(rest) = num_processes - 1
  BY <1>1, FS_RemoveElement
<1>3. ExecuteRound(est)[i] = IF most = {} THEN est[i] ELSE CHOOSE v \in most : TRUE
  BY <1>1 DEF ExecuteRound, DeltaOral
<1>4. Cardinality(rest) \div 2 = Half
  BY <1>2 DEF Half
<1>5. most = {v \in Value : CountOf(rest, est, v) > Half}
  BY <1>4
<1>6. \A v : v # est[i] => CountOf(rest, est, v) = CountOf(Process, est, v)
  <2> SUFFICES ASSUME NEW v, v # est[i] PROVE CountOf(rest, est, v) = CountOf(Process, est, v)
    OBVIOUS
  <2>1. {j \in rest : est[j] = v} = {j \in Process : est[j] = v}
    OBVIOUS
  <2> QED
    BY <2>1 DEF CountOf
<1>7. Half \in Nat /\ num_processes - 1 <= 2 * Half + 1 /\ num_processes \in Nat
  BY HalfBounds DEF SystemTyped
<1> HIDE DEF rest, most
<1>8. \A v, w \in most : v = w
  <2> SUFFICES ASSUME NEW v \in most, NEW w \in most, v # w PROVE FALSE
    OBVIOUS
  <2>1. CountOf(rest, est, v) > Half /\ CountOf(rest, est, w) > Half
    BY <1>5
  <2>2. CountOf(rest, est, v) + CountOf(rest, est, w) <= num_processes - 1
    BY <1>2, CountApart
  <2>3. CountOf(rest, est, v) \in Nat /\ CountOf(rest, est, w) \in Nat
    BY <1>2, CountBounds
  <2> QED
    BY <1>7, <2>1, <2>2, <2>3
<1>9. ASSUME NEW v \in Value, v # est[i], CountOf(Process, est, v) > Half
      PROVE  ExecuteRound(est)[i] = v
  <2>1. v \in most
    BY <1>5, <1>6, <1>9
  <2> QED
    BY <1>3, <1>8, <2>1
<1>10. ASSUME \A v \in Value : v # est[i] => CountOf(Process, est, v) <= Half
       PROVE  ExecuteRound(est)[i] = est[i]
  <2>1. \A v \in most : v = est[i]
    <3> SUFFICES ASSUME NEW v \in most, v # est[i] PROVE FALSE
      OBVIOUS
    <3>1. v \in Value /\ CountOf(rest, est, v) > Half
      BY <1>5
    <3>2. CountOf(Process, est, v) > Half /\ CountOf(Process, est, v) <= Half
      BY <1>6, <1>10, <3>1
    <3>3. CountOf(Process, est, v) \in Nat
      BY <1>1, CountBounds
    <3> QED
      BY <1>7, <3>2, <3>3
  <2> QED
    BY <1>3, <2>1
<1> QED
  BY <1>9, <1>10

\* A round keeps the faulty processes' estimates, and everybody's a value.
LEMMA RoundTyped ==
  ASSUME SystemTyped, NEW est \in Estimates
  PROVE  /\ ExecuteRound(est) \in Estimates
         /\ \A i \in Process \ Correct : ExecuteRound(est)[i] = est[i]
<1>1. ASSUME NEW i \in Process PROVE ExecuteRound(est)[i] \in Value
  <2>1. est[i] \in Value
    BY DEF Estimates
  <2>2. CASE i \in Correct
    <3>1. CASE \E v \in Value : v # est[i] /\ CountOf(Process, est, v) > Half
      BY <2>2, <3>1, TakesMajority
    <3>2. CASE \A v \in Value : v # est[i] => ~(CountOf(Process, est, v) > Half)
      <4>1. \A v : CountOf(Process, est, v) \in Nat /\ Half \in Nat
        BY ProcessesFinite, CountBounds, HalfBounds
      <4>2. \A v \in Value : v # est[i] => CountOf(Process, est, v) <= Half
        BY <3>2, <4>1
      <4> QED
        BY <2>1, <2>2, <4>2, TakesMajority
    <3> QED
      BY <3>1, <3>2
  <2>3. CASE i \notin Correct
    BY <2>1, <2>3 DEF ExecuteRound
  <2> QED
    BY <2>2, <2>3
<1>2. ExecuteRound(est) = [i \in Process |-> ExecuteRound(est)[i]]
  BY DEF ExecuteRound
<1>3. \A i \in Process \ Correct : ExecuteRound(est)[i] = est[i]
  BY DEF ExecuteRound
<1> HIDE DEF Estimates
<1>4. ExecuteRound(est) \in [Process -> Value]
  BY <1>1, <1>2
<1> QED
  BY <1>3, <1>4 DEF Estimates

\* If only v may have a majority, one round is enough.
LEMMA OneWins ==
  ASSUME SystemTyped, NEW est \in Estimates, NEW v \in Value,
         \A w \in Value : w # v => CountOf(Process, est, w) <= Half
  PROVE  ExecuteRound(ExecuteRound(est)) = ExecuteRound(est)
<1> DEFINE next == ExecuteRound(est)
<1>1. next \in Estimates /\ \A i \in Process \ Correct : next[i] = est[i]
  BY RoundTyped
<1>2. IsFiniteSet(Process) /\ Correct \subseteq Process /\ Half \in Nat
  BY ProcessesFinite, HalfBounds
<1>3. \A f, w : CountOf(Process, f, w) \in Nat
  BY <1>2, CountBounds
<1>4. \A f, g \in Estimates : (\A i \in Process : f[i] = g[i]) => f = g
  BY DEF Estimates
<1>5. ExecuteRound(next) \in Estimates /\ \A i \in Process \ Correct : ExecuteRound(next)[i] = next[i]
  BY <1>1, RoundTyped
<1>6. CASE CountOf(Process, est, v) <= Half
  <2>1. \A i \in Correct : next[i] = est[i]
    BY <1>6, TakesMajority
  <2>2. next = est
    <3> HIDE DEF next
    <3> QED
      BY <1>1, <1>4, <2>1
  <2> QED
    BY <2>2
<1>7. CASE CountOf(Process, est, v) > Half
  <2>1. \A i \in Correct : next[i] = v
    <3> SUFFICES ASSUME NEW i \in Correct PROVE next[i] = v
      OBVIOUS
    <3>1. CASE est[i] = v
      BY <3>1, TakesMajority
    <3>2. CASE est[i] # v
      BY <1>7, <3>2, TakesMajority
    <3> QED
      BY <3>1, <3>2
  <2> HIDE DEF next
  <2>2. ASSUME NEW w \in Value, w # v PROVE CountOf(Process, next, w) <= Half
    <3>1. \A i \in Process : next[i] = w => est[i] = w
      BY <1>1, <2>1, <2>2
    <3>2. CountOf(Process, next, w) <= CountOf(Process, est, w)
      BY <1>2, <3>1, CountGrows
    <3> QED
      BY <1>2, <1>3, <2>2, <3>2
  <2>3. \A i \in Correct : ExecuteRound(next)[i] = next[i]
    BY <1>1, <2>1, <2>2, TakesMajority
  <2>4. ExecuteRound(next) = next
    BY <1>1, <1>4, <1>5, <2>3
  <2> QED
    BY <2>4 DEF next
<1> QED
  BY <1>2, <1>3, <1>6, <1>7

\* Two values with half the processes each are all there is, and are exchanged.
LEMMA TieSwaps ==
  ASSUME SystemTyped, NEW est \in Estimates, NEW v \in Value, NEW w \in Value, v # w,
         CountOf(Process, est, v) > Half, CountOf(Process, est, w) > Half
  PROVE  /\ \A i \in Process : est[i] \in {v, w}
         /\ \A i \in Correct : ExecuteRound(est)[i] = IF est[i] = v THEN w ELSE v
<1>1. IsFiniteSet(Process) /\ Cardinality(Process) = num_processes /\ Correct \subseteq Process
  BY ProcessesFinite
<1>2. ASSUME NEW i \in Process, est[i] \notin {v, w} PROVE FALSE
  <2> DEFINE S == Process \ {i}
  <2>1. IsFiniteSet(S) /\ Cardinality(S) = num_processes - 1
    BY <1>1, FS_RemoveElement
  <2>2. {j \in S : est[j] = v} = {j \in Process : est[j] = v}
        /\ {j \in S : est[j] = w} = {j \in Process : est[j] = w}
    BY <1>2
  <2>3. CountOf(S, est, v) > Half /\ CountOf(S, est, w) > Half
    BY <2>2 DEF CountOf
  <2> HIDE DEF S
  <2>4. CountOf(S, est, v) + CountOf(S, est, w) <= num_processes - 1
    BY <2>1, CountApart
  <2>5. CountOf(S, est, v) \in Nat /\ CountOf(S, est, w) \in Nat
    BY <2>1, CountBounds
  <2> QED
    BY <2>3, <2>4, <2>5, HalfBounds DEF SystemTyped
<1>3. ASSUME NEW i \in Correct PROVE ExecuteRound(est)[i] = IF est[i] = v THEN w ELSE v
  <2>1. est[i] \in {v, w}
    BY <1>1, <1>2
  <2>2. CASE est[i] = v
    BY <2>2, TakesMajority
  <2>3. CASE est[i] = w
    BY <2>3, TakesMajority
  <2> QED
    BY <2>1, <2>2, <2>3
<1> QED
  BY <1>2, <1>3

\* The third round brings nothing that the first or the second had not.
LEMMA ThirdRound ==
  ASSUME SystemTyped, NEW est \in Estimates
  PROVE  ExecuteRound(ExecuteRound(ExecuteRound(est)))
           \in {ExecuteRound(est), ExecuteRound(ExecuteRound(est))}
<1> DEFINE one == ExecuteRound(est)
           two == ExecuteRound(one)
           Ahead(f, v) == CountOf(Process, f, v) > Half
<1>1. /\ one \in Estimates /\ \A i \in Process \ Correct : one[i] = est[i]
      /\ two \in Estimates /\ \A i \in Process \ Correct : two[i] = one[i]
  BY RoundTyped
<1>2. IsFiniteSet(Process) /\ Correct \subseteq Process /\ Half \in Nat /\ 0 \in Process
  BY ProcessesFinite, HalfBounds DEF SystemTyped, Process
<1>3. \A f, v : CountOf(Process, f, v) \in Nat
  BY <1>2, CountBounds
<1>4. \A f, v : ~Ahead(f, v) => CountOf(Process, f, v) <= Half
  BY <1>2, <1>3
<1>5. CASE \A v, w \in Value : Ahead(est, v) /\ Ahead(est, w) => v = w
  <2>1. PICK v \in Value : \A w \in Value : w # v => ~Ahead(est, w)
    <3>1. est[0] \in Value
      BY <1>2 DEF Estimates
    <3> HIDE DEF Ahead
    <3>2. CASE \E v \in Value : Ahead(est, v)
      BY <1>5, <3>2
    <3>3. CASE \A v \in Value : ~Ahead(est, v)
      BY <3>1, <3>3
    <3> QED
      BY <3>2, <3>3
  <2>2. two = one
    BY <1>4, <2>1, OneWins
  <2> QED
    BY <2>2
<1>6. ASSUME NEW v \in Value, NEW w \in Value, Ahead(est, v), Ahead(est, w), v # w
      PROVE  ExecuteRound(two) \in {one, two}
  <2>1. /\ \A i \in Process : est[i] \in {v, w}
        /\ \A i \in Correct : one[i] = IF est[i] = v THEN w ELSE v
    BY <1>6, TieSwaps
  <2> HIDE DEF one, two
  <2>2. \A i \in Process : one[i] \in {v, w}
    BY <1>1, <2>1
  <2>3. CASE Ahead(one, v) /\ Ahead(one, w)
    <3>1. \A i \in Correct : two[i] = IF one[i] = v THEN w ELSE v
      BY <1>1, <1>6, <2>3, TieSwaps DEF two
    <3>2. \A i \in Process : two[i] = est[i]
      BY <1>1, <1>2, <1>6, <2>1, <3>1
    <3>3. two = est
      BY <1>1, <3>2 DEF Estimates
    <3> QED
      BY <3>3 DEF one
  <2>4. ASSUME NEW a \in {v, w}, ~Ahead(one, a) PROVE ExecuteRound(two) = two
    <3>1. PICK b \in {v, w} : b # a
      BY <1>6
    <3>2. ASSUME NEW u \in Value, u # b PROVE CountOf(Process, one, u) <= Half
      <4>1. CASE u = a
        BY <1>4, <2>4, <4>1
      <4>2. CASE u # a
        <5>1. ~\E i \in Process : one[i] = u
          BY <2>2, <3>1, <3>2, <4>2
        <5>2. ~(CountOf(Process, one, u) > 0)
          BY <1>2, <5>1, CountBounds
        <5> QED
          BY <1>2, <1>3, <5>2
      <4> QED
        BY <4>1, <4>2
    <3> QED
      BY <1>1, <3>1, <3>2, OneWins DEF two
  <2> HIDE DEF Ahead
  <2> QED
    BY <2>3, <2>4
<1> HIDE DEF Ahead
<1> QED
  BY <1>5, <1>6

\* Correct processes that agree and outnumber the faulty ones keep their value.
LEMMA MajorityStays ==
  ASSUME SystemTyped, NEW est \in Estimates, \A i, j \in Correct : est[i] = est[j],
         Cardinality(Correct) > Cardinality(Process \ Correct)
  PROVE  \A i \in Correct : ExecuteRound(est)[i] = est[i]
<1> DEFINE Faulty == Process \ Correct
<1>1. IsFiniteSet(Process) /\ Correct \subseteq Process /\ Half \in Nat
      /\ Cardinality(Correct) \in Nat /\ Cardinality(Faulty) \in Nat
      /\ Cardinality(Correct) + Cardinality(Faulty) = num_processes
  BY ProcessesFinite, HalfBounds
<1>2. Cardinality(Faulty) <= Half
  BY <1>1, HalfBounds DEF SystemTyped
<1>3. ASSUME NEW i \in Correct, NEW w \in Value, w # est[i]
      PROVE  CountOf(Process, est, w) <= Half
  <2> DEFINE T == {j \in Process : est[j] = w}
  <2>1. T \in SUBSET Faulty
    BY <1>3
  <2>2. CountOf(Process, est, w) = Cardinality(T)
    BY DEF CountOf
  <2>3. IsFiniteSet(Faulty)
    BY <1>1, FS_Subset
  <2> HIDE DEF T, Faulty
  <2>4. Cardinality(T) <= Cardinality(Faulty) /\ IsFiniteSet(T)
    BY <2>1, <2>3, FS_Subset
  <2> QED
    BY <1>1, <1>2, <2>2, <2>4, FS_CardinalityType
<1> QED
  BY <1>3, TakesMajority

\* From the second round on the estimates are those of two rounds in a row.
AutoInv ==
  /\ SystemTyped /\ round \in Nat
  /\ estimate \in Estimates /\ previous \in Estimates
  /\ round >= 1 => estimate = ExecuteRound(previous)
  /\ round >= 2 => \E est \in Estimates : previous = ExecuteRound(est)

AutoHolds ==
  /\ round >= 2 => estimate' \in {previous, estimate}
  /\ Unanimous(Correct, estimate) /\ Cardinality(Correct) > Cardinality(Process \ Correct)
       => \A i \in Correct : estimate'[i] = estimate[i]

\* automaton_init establishes the invariant.
LEMMA AutoStarts == AutomatonInit => AutoInv
<1> SUFFICES ASSUME AutomatonInit PROVE AutoInv
  OBVIOUS
<1>1. /\ SystemTyped /\ round = 0
      /\ estimate = initial_value /\ previous = initial_value
  BY SystemStarts DEF AutomatonInit
<1>2. initial_value \in Estimates
  BY <1>1 DEF SystemTyped, Estimates
<1> QED
  BY <1>1, <1>2 DEF AutoInv

\* Every round keeps it, and the estimates settle.
LEMMA AutoSteps == AutoInv /\ AutomatonStep => AutoInv' /\ AutoHolds
<1> SUFFICES ASSUME AutoInv, AutomatonStep PROVE AutoInv' /\ AutoHolds
  OBVIOUS
<1>1. Process' = Process /\ Correct' = Correct /\ SystemTyped' /\ Estimates' = Estimates
  BY SystemStays DEF AutomatonStep, AutoInv, Estimates
<1>2. /\ round' = round + 1 /\ previous' = estimate
      /\ estimate' = ExecuteRound(estimate) /\ SystemTyped /\ round \in Nat
      /\ estimate \in Estimates /\ previous \in Estimates
  BY DEF AutomatonStep, AutoInv
<1>3. estimate' \in Estimates
  BY <1>2, RoundTyped
<1>4. ExecuteRound(previous)' = ExecuteRound(estimate)
  BY <1>1, <1>2 DEF ExecuteRound
<1>5. AutoInv'
  <2>1. round' >= 2 => \E est \in Estimates : estimate = ExecuteRound(est)
    BY <1>2 DEF AutoInv
  <2>2. \A est \in Estimates : estimate = ExecuteRound(est)
          => previous' = [i \in Process' |-> IF i \in Correct' THEN DeltaOral(est[i], Process' \ {i}, est) ELSE est[i]]
    BY <1>1, <1>2 DEF ExecuteRound
  <2>3. round' >= 2 => (\E est \in Estimates : previous = ExecuteRound(est))'
    BY <1>1, <2>1, <2>2 DEF ExecuteRound
  <2> QED
    BY <1>1, <1>2, <1>3, <1>4, <2>3 DEF AutoInv
<1>6. round >= 2 => estimate' \in {previous, estimate}
  BY <1>2, ThirdRound DEF AutoInv
<1>7. Unanimous(Correct, estimate) => \A i, j \in Correct : estimate[i] = estimate[j]
  BY <1>2, ProcessesFinite, UnanimousIs
<1> QED
  BY <1>2, <1>5, <1>6, <1>7, MajorityStays DEF AutoHolds

--------------------------------------------------------------------------------
\* Paxos and PBFT by phases.

Holdable == Value \cup {Undecided}

\* Those that take part are a quorum, and begin at process 0.
LEMMA ParticipantsMany ==
  ASSUME SystemTyped, 2 * max_faulty < num_processes
  PROVE  /\ TakesPart \subseteq Process /\ 0 \in TakesPart
         /\ Cardinality(TakesPart) = num_processes - max_faulty
         /\ Cardinality(TakesPart) >= num_processes \div 2 + 1
<1>1. num_processes \in Nat \ {0} /\ max_faulty \in Nat
  BY DEF SystemTyped
<1>2. TakesPart = 0 .. num_processes - max_faulty - 1
  BY DEF TakesPart
<1>3. Cardinality(TakesPart) = num_processes - max_faulty
  BY <1>1, <1>2, FS_Interval
<1> QED
  BY <1>1, <1>2, <1>3 DEF Process

PaxosState ==
  [number : Nat, proposed : Holdable, decided : Holdable,
   accepted : [Process -> [value : Holdable, proposal : Nat \cup {-1}]]]

\* Those that take part have accepted the same, the others nothing; what is decided
\* is what they accepted and what is proposed.
PaxosInv ==
  /\ SystemTyped /\ 2 * max_faulty < num_processes
  /\ central \in PaxosState
  /\ \A i \in Process \ TakesPart : central.accepted[i].proposal = -1
  /\ central.decided # Undecided =>
       /\ central.proposed = central.decided
       /\ \A i \in TakesPart : /\ central.accepted[i].value = central.decided
                               /\ central.accepted[i].proposal # -1

PaxosHolds ==
  /\ central'.decided # Undecided =>
       /\ central'.proposed = central'.decided
       /\ \A i \in TakesPart : central'.accepted[i].value = central'.decided
  /\ central.decided # Undecided /\ central'.proposed = central.proposed =>
       central'.decided = central.decided

\* Some process has accepted under the highest number.
LEMMA LargestOf ==
  ASSUME NEW n \in Nat \ {0}, NEW f, \A i \in 0 .. n - 1 : f[i] \in Int
  PROVE  \E top \in 0 .. n - 1 : \A k \in 0 .. n - 1 : f[top] >= f[k]
<1> DEFINE Good == {m \in 0 .. n - 1 : \E top \in 0 .. m : \A k \in 0 .. m : f[top] >= f[k]}
<1>1. 0 \in Good
  OBVIOUS
<1>2. ASSUME NEW m \in 1 .. n - 1, m - 1 \in Good PROVE m \in Good
  <2>1. PICK top \in 0 .. m - 1 : \A k \in 0 .. m - 1 : f[top] >= f[k]
    BY <1>2
  <2>2. \A k \in 0 .. m : k = m \/ k \in 0 .. m - 1
    OBVIOUS
  <2>3. f[m] \in Int /\ f[top] \in Int /\ \A k \in 0 .. m : f[k] \in Int
    OBVIOUS
  <2>4. CASE f[top] >= f[m]
    <3>1. \A k \in 0 .. m : f[top] >= f[k]
      BY <2>1, <2>2, <2>4
    <3> QED
      BY <3>1
  <2>5. CASE f[m] > f[top]
    <3>1. \A k \in 0 .. m : f[m] >= f[k]
      BY <2>1, <2>2, <2>3, <2>5
    <3> QED
      BY <3>1
  <2> QED
    BY <2>3, <2>4, <2>5
<1>3. n - 1 \in Nat
  OBVIOUS
<1> HIDE DEF Good
<1>4. \A k \in 0 .. n - 1 : k \in Good
  BY <1>1, <1>2, <1>3, UpTo
<1>5. n - 1 \in Good
  BY <1>3, <1>4
<1> QED
  BY <1>5 DEF Good

\* paxos_init establishes the invariant.
LEMMA PaxosStarts == PaxosInit => PaxosInv
<1> SUFFICES ASSUME PaxosInit PROVE PaxosInv
  OBVIOUS
<1> DEFINE sizes == {s \in Sizes : 2 * s[2] < s[1]}
<1>1. SystemInit(sizes, {}) /\ sizes \in SUBSET Sizes
  BY DEF PaxosInit
<1>2. SystemTyped /\ <<num_processes, max_faulty>> \in sizes
  <2> HIDE DEF sizes
  <2> QED
    BY <1>1, SystemStarts
<1>3. 2 * max_faulty < num_processes
  BY <1>2
<1>4. central = [number |-> 0, proposed |-> Undecided, decided |-> Undecided,
                 accepted |-> [i \in Process |-> [value |-> Undecided, proposal |-> -1]]]
  BY DEF PaxosInit
<1> QED
  BY <1>2, <1>3, <1>4 DEF PaxosInv, PaxosState, Holdable

\* Preparing proposes what was decided, and accepting decides for all.
LEMMA PaxosSteps == PaxosInv /\ CentralStep => PaxosInv' /\ PaxosHolds
<1> SUFFICES ASSUME PaxosInv, CentralStep PROVE PaxosInv' /\ PaxosHolds
  OBVIOUS
<1>1. /\ Process' = Process /\ SystemTyped' /\ TakesPart' = TakesPart
      /\ num_processes' = num_processes /\ max_faulty' = max_faulty
  BY SystemStays DEF CentralStep, PaxosInv, TakesPart
<1>2. /\ TakesPart \subseteq Process /\ 0 \in TakesPart
      /\ Cardinality(TakesPart) >= num_processes \div 2 + 1
  BY ParticipantsMany DEF PaxosInv
<1>3. central \in PaxosState /\ "values" \notin DOMAIN central
  BY DEF PaxosInv, PaxosState
<1>4. \/ \E proposal \in 1 .. MaxRounds : PaxosPrepare(proposal)
      \/ \E value \in Value : PaxosAccept(value)
  BY <1>3 DEF CentralStep
<1>5. Undecided \notin Value
  BY SystemAssumption
<1>6. ASSUME NEW proposal \in 1 .. MaxRounds, PaxosPrepare(proposal)
      PROVE  PaxosInv' /\ PaxosHolds
  <2> DEFINE highest == {a.value : a \in HighestAccepted(central.accepted)}
             next == IF highest = {} THEN central.proposed ELSE CHOOSE v \in highest : TRUE
  <2>1. central' = [central EXCEPT !.number = proposal, !.proposed = next]
    BY <1>6 DEF PaxosPrepare
  <2>2. highest \subseteq Holdable
    BY <1>3 DEF HighestAccepted, PaxosState
  <2>3. next \in Holdable
    <3> HIDE DEF highest
    <3> QED
      BY <1>3, <2>2 DEF PaxosState
  <2>4. ASSUME central.decided # Undecided PROVE next = central.decided
    <3>1. \A a \in HighestAccepted(central.accepted) : a.value = central.decided
      <4> SUFFICES ASSUME NEW j \in Process, central.accepted[j].proposal > -1
                   PROVE  central.accepted[j].value = central.decided
        BY DEF HighestAccepted
      <4>1. central.accepted[j].proposal # -1
        BY <1>3 DEF PaxosState
      <4>2. j \in TakesPart
        BY <4>1 DEF PaxosInv
      <4> QED
        BY <2>4, <4>2 DEF PaxosInv
    <3>2. HighestAccepted(central.accepted) # {}
      <4>1. central.accepted \in [Process -> [value : Holdable, proposal : Nat \cup {-1}]]
        BY <1>3 DEF PaxosState
      <4>2. PICK top \in Process : \A k \in Process :
              central.accepted[top].proposal >= central.accepted[k].proposal
        <5> DEFINE number == [j \in Process |-> central.accepted[j].proposal]
        <5>1. \A j \in Process : number[j] \in Int
          BY <4>1
        <5>2. Process = 0 .. num_processes - 1 /\ num_processes \in Nat \ {0}
          BY DEF Process, PaxosInv, SystemTyped
        <5> HIDE DEF number
        <5>3. \E top \in Process : \A k \in Process : number[top] >= number[k]
          BY <5>1, <5>2, LargestOf
        <5> QED
          BY <5>3 DEF number
      <4>3. central.accepted[0].proposal # -1 /\ 0 \in Process
        BY <1>2, <2>4 DEF PaxosInv
      <4>4. central.accepted[top].proposal > -1
        BY <4>1, <4>2, <4>3
      <4> QED
        BY <4>2, <4>4 DEF HighestAccepted
    <3>3. highest = {central.decided}
      BY <3>1, <3>2
    <3> HIDE DEF highest
    <3> QED
      BY <3>3
  <2>5. central' \in PaxosState
    <3>1. proposal \in Nat
      OBVIOUS
    <3> HIDE DEF next
    <3> QED
      BY <1>3, <2>1, <2>3, <3>1 DEF PaxosState
  <2> HIDE DEF next, highest
  <2>6. /\ central'.decided = central.decided /\ central'.accepted = central.accepted
        /\ central'.proposed = next
    BY <1>3, <2>1 DEF PaxosState
  <2>7. PaxosState' = PaxosState
    BY <1>1 DEF PaxosState, Holdable
  <2> QED
    BY <1>1, <2>4, <2>5, <2>6, <2>7 DEF PaxosInv, PaxosHolds
<1>7. ASSUME NEW value \in Value, PaxosAccept(value)
      PROVE  PaxosInv' /\ PaxosHolds
  <2> DEFINE acc == [i \in Process |->
               IF i \in TakesPart THEN [value |-> value, proposal |-> central.number]
               ELSE central.accepted[i]]
  <2>1. central' = [central EXCEPT !.proposed = value, !.accepted = acc, !.decided = value]
    BY <1>2, <1>7 DEF PaxosAccept
  <2>2. value \in Holdable
    BY DEF Holdable
  <2>3. acc \in [Process -> [value : Holdable, proposal : Nat \cup {-1}]]
    BY <1>3, <2>2 DEF PaxosState
  <2>4. \A i \in TakesPart : acc[i].value = value /\ acc[i].proposal = central.number
    BY <1>2
  <2>5. \A i \in Process \ TakesPart : acc[i] = central.accepted[i]
    OBVIOUS
  <2> HIDE DEF acc
  <2>6. central' \in PaxosState
    BY <1>3, <2>1, <2>2, <2>3 DEF PaxosState
  <2>7. /\ central'.decided = value /\ central'.proposed = value /\ central'.accepted = acc
        /\ central'.number = central.number /\ central.number # -1
    BY <1>3, <2>1 DEF PaxosState
  <2>8. PaxosState' = PaxosState
    BY <1>1 DEF PaxosState, Holdable
  <2> QED
    BY <1>1, <2>4, <2>5, <2>6, <2>7, <2>8 DEF PaxosInv, PaxosHolds
<1> QED
  BY <1>4, <1>6, <1>7

PbftState ==
  [values : [Process -> Holdable], prepare_count : Nat, prepared : BOOLEAN, committed : BOOLEAN]

\* Those that take part hold one value, the primary's.
PbftInv ==
  /\ SystemTyped /\ 3 * max_faulty < num_processes
  /\ central \in PbftState
  /\ \A i \in TakesPart : central.values[i] = central.values[0]

PbftHolds ==
  central'.committed =>
    CountOf(Process, central'.values, central'.values[0]) >= 2 * max_faulty + 1

\* pbft_init establishes the invariant.
LEMMA PbftStarts == PbftInit => PbftInv
<1> SUFFICES ASSUME PbftInit PROVE PbftInv
  OBVIOUS
<1> DEFINE sizes == {s \in Sizes : 3 * s[2] < s[1]}
<1>1. SystemInit(sizes, {}) /\ sizes \in SUBSET Sizes
  BY DEF PbftInit
<1>2. SystemTyped /\ <<num_processes, max_faulty>> \in sizes
  <2> HIDE DEF sizes
  <2> QED
    BY <1>1, SystemStarts
<1>3. 3 * max_faulty < num_processes
  BY <1>2
<1>4. central = [values |-> [i \in Process |-> Undecided], prepare_count |-> 0,
                 prepared |-> FALSE, committed |-> FALSE]
  BY DEF PbftInit
<1>5. TakesPart \subseteq Process /\ 0 \in TakesPart
  BY <1>2, <1>3, ParticipantsMany DEF SystemTyped
<1> QED
  BY <1>2, <1>3, <1>4, <1>5 DEF PbftInv, PbftState, Holdable

\* What the primary holds a quorum holds.
LEMMA QuorumHolds ==
  PbftInv => CountOf(Process, central.values, central.values[0]) >= 2 * max_faulty + 1
<1> SUFFICES ASSUME PbftInv
             PROVE  CountOf(Process, central.values, central.values[0]) >= 2 * max_faulty + 1
  OBVIOUS
<1>1. /\ TakesPart \subseteq Process
      /\ Cardinality(TakesPart) = num_processes - max_faulty
      /\ num_processes \in Nat /\ max_faulty \in Nat /\ 3 * max_faulty < num_processes
  BY ParticipantsMany DEF PbftInv, SystemTyped
<1>2. IsFiniteSet(Process) /\ IsFiniteSet(TakesPart)
  BY <1>1, ProcessesFinite, FS_Subset DEF PbftInv
<1>3. CountOf(TakesPart, central.values, central.values[0]) = Cardinality(TakesPart)
  BY CountAll DEF PbftInv
<1>4. CountOf(TakesPart, central.values, central.values[0])
        <= CountOf(Process, central.values, central.values[0])
  BY <1>1, <1>2, CountGrows
<1>5. CountOf(Process, central.values, central.values[0]) \in Nat
  BY <1>2, CountBounds
<1> QED
  BY <1>1, <1>3, <1>4, <1>5

\* Every call keeps it, so a quorum holds what may be committed.
LEMMA PbftSteps == PbftInv /\ CentralStep => PbftInv' /\ PbftHolds
<1> SUFFICES ASSUME PbftInv, CentralStep PROVE PbftInv' /\ PbftHolds
  OBVIOUS
<1>1. /\ Process' = Process /\ SystemTyped' /\ TakesPart' = TakesPart
      /\ num_processes' = num_processes /\ max_faulty' = max_faulty
  BY SystemStays DEF CentralStep, PbftInv, TakesPart
<1>2. /\ TakesPart \subseteq Process /\ 0 \in TakesPart
      /\ Cardinality(TakesPart) = num_processes - max_faulty
      /\ num_processes \in Nat /\ max_faulty \in Nat /\ 3 * max_faulty < num_processes
  BY ParticipantsMany DEF PbftInv, SystemTyped
<1>3. central \in PbftState /\ "number" \notin DOMAIN central
  BY DEF PbftInv, PbftState
<1>4. IsFiniteSet(Process) /\ IsFiniteSet(TakesPart)
  BY <1>2, ProcessesFinite, FS_Subset DEF PbftInv
<1>5. \/ \E value \in Value : PbftPrePrepare(value)
      \/ PbftPrepare
      \/ PbftCommit
  BY <1>3 DEF CentralStep
<1>6. ASSUME NEW value \in Value, PbftPrePrepare(value)
      PROVE  central' \in PbftState /\ \A i \in TakesPart : central'.values[i] = central'.values[0]
  <2> DEFINE vals == [i \in Process |-> IF i \in TakesPart \cup {0} THEN value ELSE central.values[i]]
  <2>1. central' = [central EXCEPT !.values = vals]
    BY <1>6 DEF PbftPrePrepare
  <2>2. vals \in [Process -> Holdable]
    BY <1>3 DEF PbftState, Holdable
  <2>3. \A i \in TakesPart : vals[i] = vals[0]
    BY <1>2
  <2> HIDE DEF vals
  <2> QED
    BY <1>3, <2>1, <2>2, <2>3 DEF PbftState
<1>7. ASSUME PbftPrepare \/ PbftCommit
      PROVE  central' \in PbftState /\ central'.values = central.values
  <2>1. CountOf(TakesPart, central.values, central.values[0]) \in Nat
    BY <1>4, CountBounds
  <2> QED
    BY <1>3, <1>7, <2>1 DEF PbftPrepare, PbftCommit, PbftState
<1>8. central' \in PbftState /\ \A i \in TakesPart : central'.values[i] = central'.values[0]
  BY <1>5, <1>6, <1>7 DEF PbftInv
<1>9. PbftState' = PbftState
  BY <1>1 DEF PbftState, Holdable
<1>10. PbftInv'
  BY <1>1, <1>8, <1>9 DEF PbftInv
<1>11. (CountOf(Process, central.values, central.values[0]) >= 2 * max_faulty + 1)'
  BY <1>10, QuorumHolds, PTL
<1> QED
  BY <1>1, <1>10, <1>11 DEF PbftHolds, CountOf

--------------------------------------------------------------------------------
\* All protocols together.

AgreementInv ==
  /\ protocol = "PHASE_KING" => KingInv
  /\ protocol = "BEN_OR" => BenInv
  /\ protocol = "DOLEV_STRONG" => DsInv
  /\ protocol = "EIG" => EigInv
  /\ protocol = "AUTOMATON" => AutoInv
  /\ protocol = "PAXOS" => PaxosInv
  /\ protocol = "PBFT" => PbftInv

\* Every protocol starts in its invariant.
LEMMA AgreementStarts == Init => AgreementInv
BY KingStarts, BenStarts, DsStarts, EigStarts, AutoStarts, PaxosStarts, PbftStarts
   DEF Init, ProtocolInit, AgreementInv

\* A step that leaves the variables of the protocols alone keeps their invariants.
LEMMA AgreementIdle ==
  ASSUME AgreementInv, protocol' = protocol, UNCHANGED agreementVars
  PROVE  AgreementInv'
<1>1. /\ Process' = Process /\ Correct' = Correct /\ Relaying' = Relaying /\ TakesPart' = TakesPart
      /\ num_processes' = num_processes /\ max_faulty' = max_faulty /\ initial_value' = initial_value
      /\ round' = round /\ estimate' = estimate /\ previous' = previous
      /\ decided_value' = decided_value /\ entries' = entries /\ tree' = tree /\ central' = central
      /\ SystemTyped => SystemTyped'
  BY SystemStays DEF agreementVars, runVars, TakesPart
<1>2. KingInv => KingInv'
  BY <1>1 DEF KingInv
<1>3. BenInv => BenInv'
  BY <1>1 DEF BenInv
<1>4. DsInv => DsInv'
  <2>1. Entry' = Entry
    BY <1>1 DEF Entry
  <2>2. \A e : Signed(e)' <=> Signed(e)
    BY <1>1, <2>1 DEF Signed, VerifyChain
  <2>3. Chains' = Chains
    BY <1>1, <2>1, <2>2 DEF Chains
  <2> QED
    BY <1>1, <2>3 DEF DsInv, Holds
<1>5. EigInv => EigInv'
  BY <1>1 DEF EigInv
<1>6. AutoInv => AutoInv'
  BY <1>1 DEF AutoInv, Estimates, ExecuteRound
<1>7. PaxosInv => PaxosInv'
  BY <1>1 DEF PaxosInv, PaxosState, Holdable
<1>8. PbftInv => PbftInv'
  BY <1>1 DEF PbftInv, PbftState, Holdable
<1> QED
  BY <1>2, <1>3, <1>4, <1>5, <1>6, <1>7, <1>8 DEF AgreementInv

\* Every step keeps the invariant of the protocol that runs.
LEMMA AgreementSteps == AgreementInv /\ [Next]_vars => AgreementInv'
<1> SUFFICES ASSUME AgreementInv, [Next]_vars PROVE AgreementInv'
  OBVIOUS
<1>1. protocol' = protocol
  BY ProtocolSteps
<1>2. CASE UNCHANGED agreementVars
  BY <1>1, <1>2, AgreementIdle
<1>3. CASE AgreementStep
  BY <1>1, <1>3, KingSteps, BenSteps, DsSteps, EigSteps, AutoSteps, PaxosSteps, PbftSteps
     DEF AgreementStep, AgreementInv
<1> QED
  BY <1>2, <1>3, ProtocolSteps

\* The invariant holds in every run, for any number of processes and any faults.
LEMMA AgreementInvariant == Spec => []AgreementInv
<1>1. Init => AgreementInv
  BY AgreementStarts
<1>2. AgreementInv /\ [Next]_vars => AgreementInv'
  BY AgreementSteps
<1> QED
  BY <1>1, <1>2, PTL DEF Spec

\* Ben-Or's algorithm as its header asks to be called: binary estimates, and with
\* the crash faults' bound of consensus_types.c.
BenOrSuited ==
  protocol = "BEN_OR" => Value \subseteq {0, 1} /\ 2 * max_faulty < num_processes

\* Correct processes that decide agree under Phase King, Ben-Or and Dolev and
\* Strong's, with any number of processes, any faults the algorithms accept and any
\* coins; the values they may decide are those of AgreementAndValidity, for
\* Ben-Or if it is called with binary estimates and a minority of faulty processes.
THEOREM DecidedAgree ==
  Spec => []/\ protocol \in {"PHASE_KING", "BEN_OR", "DOLEV_STRONG"} => VerifyAgreement
            /\ BenOrSuited => AgreementAndValidity
<1> DEFINE Agreed == /\ protocol \in {"PHASE_KING", "BEN_OR", "DOLEV_STRONG"} => VerifyAgreement
                     /\ BenOrSuited => AgreementAndValidity
<1>1. AgreementInv => Agreed
  BY KingSound, BenSound, DsSound DEF AgreementInv, AgreementAndValidity, BenOrSuited
<1> QED
  BY <1>1, AgreementInvariant, PTL

\* Every Ben-Or system keeps its size, one of those considered.
LEMMA BenOrSized ==
  ASSUME Value \subseteq {0, 1}, \A s \in Sizes : 2 * s[2] < s[1], AgreementInv
  PROVE  BenOrSuited
BY DEF AgreementInv, BenInv, BenOrSuited

\* Agreement and validity as the run checks them, of all systems with binary values
\* and a minority of faulty processes.
THEOREM AgreementKept ==
  ASSUME Value \subseteq {0, 1}, \A s \in Sizes : 2 * s[2] < s[1]
  PROVE  Spec => []AgreementAndValidity
<1>1. AgreementInv => AgreementAndValidity
  BY BenOrSized, KingSound, BenSound, DsSound DEF AgreementInv, AgreementAndValidity, BenOrSuited
<1> QED
  BY <1>1, AgreementInvariant, PTL

\* What a round spreads: one phase of Phase King makes all estimates equal, Ben-Or's
\* correct processes decide together, one round of Dolev and Strong's brings every
\* value to all that are not crashed, and the EIG tree of at most four processes
\* resolves to nothing, whatever the faulty process says.
THEOREM DisseminationKept == Spec => []Dissemination
<1>1. AgreementInv => Dissemination
  <2>1. EigInv => \A i \in Process : decided_value[i] = Undecided
    BY DEF EigInv
  <2> QED
    BY <2>1, KingSound, BenSound, DsSound DEF AgreementInv, Dissemination
<1> QED
  BY <1>1, AgreementInvariant, PTL

\* The automata settle into estimates of period one or two, correct processes that
\* agree and outnumber the faulty ones keep their value, a decision of the Paxos
\* phases is what all that take part accepted and what stands proposed, so that it
\* changes only with the value a caller puts in its place, and once PBFT committed a
\* quorum holds the primary's value: with any number of processes and calls in any order.
THEOREM DecisionsHeld == Spec => SettledAndHeld
<1> DEFINE Autos == protocol = "AUTOMATON" => AutoHolds
           Centrals == (protocol = "PAXOS" => PaxosHolds) /\ (protocol = "PBFT" => PbftHolds)
<1>1. AgreementInv /\ [Next]_vars => [Autos]_vars
  <2> SUFFICES ASSUME AgreementInv, AgreementStep, protocol = "AUTOMATON" PROVE AutoHolds
    <3>1. ASSUME AgreementInv, UNCHANGED agreementVars, protocol = "AUTOMATON" PROVE AutoHolds
      BY <3>1 DEF AutoHolds, agreementVars, runVars
    <3> QED
      BY <3>1, ProtocolSteps
  <2> QED
    BY AutoSteps DEF AgreementStep, AgreementInv
<1>2. AgreementInv /\ [Next]_vars => [Centrals]_vars
  <2> SUFFICES ASSUME AgreementInv, [Next]_vars PROVE Centrals
    OBVIOUS
  <2>1. CASE AgreementStep
    BY <2>1, PaxosSteps, PbftSteps DEF AgreementStep, AgreementInv
  <2>2. CASE UNCHANGED agreementVars
    <3>1. central' = central
      BY <2>2 DEF agreementVars
    <3>2. PaxosInv => PaxosHolds
      BY <3>1 DEF PaxosInv, PaxosHolds
    <3>3. PbftInv => PbftHolds
      <4> SUFFICES ASSUME PbftInv PROVE CountOf(Process, central.values, central.values[0]) >= 2 * max_faulty + 1
        BY <3>1 DEF PbftHolds
      <4> QED
        BY QuorumHolds
    <3> QED
      BY <3>2, <3>3 DEF AgreementInv
  <2> QED
    BY <2>1, <2>2, ProtocolSteps
<1>3. Spec => [][Autos]_vars
  BY <1>1, AgreementInvariant, PTL DEF Spec
<1>4. Spec => [][Centrals]_vars
  BY <1>2, AgreementInvariant, PTL DEF Spec
<1> QED
  BY <1>3, <1>4, PTL DEF SettledAndHeld, AutomataSettle, CentralDecisions, AutoHolds, PaxosHolds, PbftHolds

================================================================================
