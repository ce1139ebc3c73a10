---------------------------- MODULE SynchronizerProofs --------------------------
(***************************************************************************)
(* Alpha on every network: what the messages in the queues say of their    *)
(* senders stays true, however often a round is executed and whoever       *)
(* crashes, so it is a barrier two edges deep; and nothing a node needs is *)
(* ever dropped, so the nodes furthest behind always move.  Beta on every  *)
(* network: no node of its tree gets ahead of its parent.  The trees of    *)
(* beta and gamma: the search that builds them spans what it should, and   *)
(* until a node crashes they carry every round at the cost of their edges. *)
(* The protocols over alpha and beta: what each of the six has reached     *)
(* between two executions, on every network.                               *)
(***************************************************************************)
EXTENDS SyncProtocols, FiniteSetTheorems, NaturalsInduction, WellFoundedInduction, TLAPS

--------------------------------------------------------------------------------
\* Functions defined by recursion over an interval.

\* A non-empty set of naturals has a least member.
LEMMA LeastMember ==
  ASSUME NEW T, T \subseteq Nat, T # {}
  PROVE  \E x \in T : \A y \in T : x <= y
<1>1. PICK x \in T : \A y \in T : ~ (<<y, x>> \in OpToRel(<, Nat))
  BY WFMin, NatLessThanWellFounded
<1>2. \A y \in T : ~ (y < x)
  BY <1>1 DEF OpToRel
<1> QED
  BY <1>2

\* What holds at 0 and passes from each number to the next holds up to n.
LEMMA UpTo ==
  ASSUME NEW n \in Nat, NEW Good, 0 \in Good,
         \A k \in 1 .. n : k - 1 \in Good => k \in Good
  PROVE  \A k \in 0 .. n : k \in Good
<1> DEFINE Bad == {k \in 0 .. n : k \notin Good}
<1> SUFFICES ASSUME Bad # {} PROVE FALSE
  OBVIOUS
<1>1. PICK k \in Bad : \A y \in Bad : k <= y
  <2>1. Bad \subseteq Nat
    OBVIOUS
  <2> HIDE DEF Bad
  <2> QED
    BY <2>1, LeastMember
<1>2. k \in 1 .. n /\ k \notin Good
  OBVIOUS
<1>3. k - 1 \in Bad
  BY <1>2
<1> QED
  BY <1>1, <1>2, <1>3

\* f starts at a and makes n steps, each by a function on S.
StepsOn(S, n) == [1 .. n -> [S -> S]]

Unfolds(f, S, a, n, G) ==
  f \in [0 .. n -> S] /\ f[0] = a /\ \A k \in 1 .. n : f[k] = G[k][f[k - 1]]

\* A recursion on 0 .. n whose steps stay in S defines a function into S.
LEMMA Recursion ==
  ASSUME NEW S, NEW a \in S, NEW n \in Nat, NEW G \in StepsOn(S, n)
  PROVE  \E f : Unfolds(f, S, a, n, G)
<1> USE DEF StepsOn
<1> DEFINE Good == {m \in 0 .. n : \E f \in [0 .. m -> S] :
                      /\ f[0] = a
                      /\ \A k \in 1 .. m : f[k] = G[k][f[k - 1]]}
<1>1. 0 \in Good
  <2> DEFINE c == [k \in 0 .. 0 |-> a]
  <2>1. c \in [0 .. 0 -> S] /\ c[0] = a /\ 0 \in 0 .. n
    OBVIOUS
  <2>2. 1 .. 0 = {}
    OBVIOUS
  <2> HIDE DEF c
  <2> QED
    BY <2>1, <2>2
<1>2. ASSUME NEW m \in 1 .. n, m - 1 \in Good PROVE m \in Good
  <2>1. PICK f \in [0 .. m - 1 -> S] : /\ f[0] = a
                                       /\ \A k \in 1 .. m - 1 : f[k] = G[k][f[k - 1]]
    BY <1>2
  <2> DEFINE h == [k \in 0 .. m |-> IF k = m THEN G[m][f[m - 1]] ELSE f[k]]
  <2>2. G[m][f[m - 1]] \in S
    OBVIOUS
  <2>3. h \in [0 .. m -> S]
    BY <2>2
  <2>4. h[0] = a
    BY <2>1
  <2>5. ASSUME NEW k \in 1 .. m PROVE h[k] = G[k][h[k - 1]]
    <3>1. CASE k = m
      BY <3>1
    <3>2. CASE k # m
      <4>1. k \in 1 .. m - 1 /\ k - 1 \in 0 .. m - 1 /\ k - 1 # m
        BY <3>2
      <4>2. h[k] = f[k] /\ h[k - 1] = f[k - 1]
        BY <3>2, <4>1
      <4> QED
        BY <2>1, <4>1, <4>2
    <3> QED
      BY <3>1, <3>2
  <2>6. m \in 0 .. n
    OBVIOUS
  <2> HIDE DEF h
  <2> QED
    BY <2>3, <2>4, <2>5, <2>6
<1>3. n \in Good
  <2>1. \A k \in 1 .. n : k - 1 \in Good => k \in Good
    BY <1>2
  <2>2. n \in 0 .. n
    OBVIOUS
  <2> HIDE DEF Good
  <2>3. \A k \in 0 .. n : k \in Good
    BY <1>1, <2>1, UpTo
  <2> QED
    BY <2>2, <2>3
<1> QED
  BY <1>3 DEF Good, Unfolds

--------------------------------------------------------------------------------
\* Alpha: the barrier.

Typed ==
  /\ neighbors \in [Node -> Seq(Node)]
  /\ state \in [Node -> {"UNSAFE", "SAFE", "WAITING", "CRASHED"}]
  /\ current_round \in [Node -> Nat]
  /\ completed \in [Node -> Nat]
  /\ \A m \in incoming : m.sender \in Node /\ m.round \in Nat

\* No node completed a round it has not reached, and a node that is SAFE or
\* waits completed the one it is in.
NotAhead == \A i \in Node : completed[i] <= current_round[i] + 1
SafeCompleted ==
  \A i \in Node : state[i] \in {"SAFE", "WAITING"} => completed[i] >= current_round[i] + 1

\* A SAFE message vouches for its sender, an ACK for the neighbours as well.
SafeVouches ==
  \A m \in incoming : m.type = "SAFE" => completed[m.sender] >= m.round + 1
AckVouches ==
  \A m \in incoming : m.type = "ACK" =>
    \A k \in Neighbors(m.sender) \cup {m.sender} : completed[k] >= m.round + 1

Barrier ==
  \A i \in Node : \A j \in Neighbors(i) : \A k \in Neighbors(j) \cup {j} :
    completed[k] >= current_round[i]

AlphaInv == Typed /\ NotAhead /\ SafeCompleted /\ SafeVouches /\ AckVouches /\ Barrier

\* The neighbours of a node are nodes.
LEMMA NeighborsAreNodes ==
  ASSUME Typed, NEW i \in Node
  PROVE  Neighbors(i) \subseteq Node
  BY DEF Typed, Neighbors

\* A crash changes a state and nothing a message vouches for.
LEMMA CrashKeepsInv ==
  ASSUME AlphaInv, NEW i \in Node, Crash(i), UNCHANGED neighbors
  PROVE  AlphaInv'
<1>1. \A j \in Node : Neighbors(j)' = Neighbors(j)
  BY DEF Neighbors
<1>2. Typed' /\ NotAhead' /\ SafeCompleted' /\ SafeVouches'
  BY DEF AlphaInv, Typed, NotAhead, SafeCompleted, SafeVouches, Crash
<1>3. AckVouches' /\ Barrier'
  <2>1. completed' = completed /\ current_round' = current_round /\ incoming' = incoming
    BY DEF Crash
  <2>2. \A j \in Node : Neighbors(j) \subseteq Node
    BY NeighborsAreNodes DEF AlphaInv
  <2>3. \A m \in incoming : m.sender \in Node
    BY DEF AlphaInv, Typed
  <2> QED
    BY <1>1, <2>1, <2>2, <2>3 DEF AlphaInv, AckVouches, Barrier
<1> QED
  BY <1>2, <1>3 DEF AlphaInv

\* One execution of a round, whichever protocols return 0.
LEMMA ExecutionKeepsInv ==
  ASSUME AlphaInv, NEW finished \in SUBSET Alive, AlphaExecuteRound(finished), UNCHANGED neighbors
  PROVE  AlphaInv'
<1> DEFINE st == AfterProtocol(finished)
           safes == SafeMessages(st)
           starting == StartWaiting(st, incoming \cup safes)
           acks == ToNeighbors("ACK", starting)
           waiting == starting \cup {i \in Node : st[i] = "WAITING"}
           ready == AlphaReady(waiting, incoming \cup acks)
           resting == [i \in Node |-> IF i \in waiting THEN "WAITING" ELSE st[i]]
<1>1. /\ finished \subseteq Node
      /\ \A j \in Node : Neighbors(j)' = Neighbors(j) /\ Neighbors(j) \subseteq Node
  BY NeighborsAreNodes DEF AlphaInv, Neighbors, Alive
<1>2. /\ current_round' = [i \in Node |-> current_round[i] + IF i \in ready THEN 1 ELSE 0]
      /\ state' = [i \in Node |-> IF i \in ready THEN "UNSAFE" ELSE resting[i]]
      /\ incoming' \subseteq incoming \cup (safes \cup acks)
      /\ completed' = [i \in Node |-> IF i \in finished THEN current_round[i] + 1 ELSE completed[i]]
  BY DEF AlphaExecuteRound, FinishRound
<1>3. \A i \in Node : /\ current_round[i] \in Nat /\ current_round'[i] \in Nat
                      /\ completed[i] \in Nat /\ completed'[i] \in Nat
                      /\ completed[i] <= completed'[i]
                      /\ completed'[i] <= current_round[i] + 1
                      /\ current_round[i] <= current_round'[i]
                      /\ current_round'[i] = IF i \in ready THEN current_round[i] + 1 ELSE current_round[i]
  BY <1>2 DEF AlphaInv, Typed, NotAhead
<1>4. \A i \in Node : st[i] = "SAFE" => completed'[i] >= current_round[i] + 1
  BY <1>1, <1>2, <1>3 DEF AlphaInv, SafeCompleted, AfterProtocol
<1>5. \A m \in incoming : m.sender \in Node /\ m.round \in Nat
  BY DEF AlphaInv, Typed
<1>6. \A m \in safes : /\ m.type = "SAFE" /\ m.sender \in Node
                       /\ m.round = current_round[m.sender] /\ st[m.sender] = "SAFE"
  BY DEF SafeMessages, ToNeighbors, Msg
<1>7. \A m \in acks : m.type = "ACK" /\ m.sender \in starting /\ m.round = current_round[m.sender]
  BY DEF ToNeighbors, Msg
<1>8. \A m \in incoming \cup safes : m.type = "SAFE" => completed'[m.sender] >= m.round + 1
  <2> SUFFICES ASSUME NEW m \in incoming \cup safes, m.type = "SAFE"
               PROVE  completed'[m.sender] >= m.round + 1
    OBVIOUS
  <2>1. CASE m \in safes
    BY <1>4, <1>6, <2>1
  <2>2. CASE m \in incoming
    <3>1. completed[m.sender] >= m.round + 1
      BY <2>2 DEF AlphaInv, SafeVouches
    <3>2. /\ completed[m.sender] \in Nat /\ completed'[m.sender] \in Nat /\ m.round \in Nat
          /\ completed[m.sender] <= completed'[m.sender]
      BY <1>3, <1>5, <2>2
    <3> QED
      BY <3>1, <3>2
  <2> QED
    BY <2>1, <2>2
<1>9. \A s \in starting : /\ s \in Node
                          /\ \A k \in Neighbors(s) \cup {s} : completed'[k] >= current_round[s] + 1
  <2> TAKE s \in starting
  <2>1. s \in Node /\ st[s] = "SAFE" /\ Neighbors(s) \subseteq Heard("SAFE", s, incoming \cup safes)
    BY DEF StartWaiting
  <2>2. ASSUME NEW k \in Neighbors(s) PROVE completed'[k] >= current_round[s] + 1
    <3>1. PICK m \in incoming \cup safes : m.type = "SAFE" /\ m.sender = k /\ m.round = current_round[s]
      BY <2>1, <2>2 DEF Heard, Delivered
    <3> QED
      BY <1>8, <3>1
  <2> QED
    BY <1>4, <2>1, <2>2
<1>10. \A m \in incoming \cup acks : m.type = "ACK" =>
         \A k \in Neighbors(m.sender) \cup {m.sender} : completed'[k] >= m.round + 1
  <2> SUFFICES ASSUME NEW m \in incoming \cup acks, m.type = "ACK",
                      NEW k \in Neighbors(m.sender) \cup {m.sender}
               PROVE  completed'[k] >= m.round + 1
    OBVIOUS
  <2>1. CASE m \in acks
    BY <1>7, <1>9, <2>1
  <2>2. CASE m \in incoming
    <3>1. k \in Node /\ completed[k] >= m.round + 1
      BY <1>1, <1>5, <2>2 DEF AlphaInv, AckVouches
    <3>2. /\ completed[k] \in Nat /\ completed'[k] \in Nat /\ m.round \in Nat
          /\ completed[k] <= completed'[k]
      BY <1>3, <1>5, <2>2, <3>1
    <3> QED
      BY <3>1, <3>2
  <2> QED
    BY <2>1, <2>2
<1>11. Typed'
  <2>1. state' \in [Node -> {"UNSAFE", "SAFE", "WAITING", "CRASHED"}]
    BY <1>2 DEF AfterProtocol, AlphaInv, Typed
  <2>2. \A m \in incoming' : m.sender \in Node /\ m.round \in Nat
    BY <1>2, <1>3, <1>5, <1>6, <1>7, <1>9
  <2>3. current_round' \in [Node -> Nat] /\ completed' \in [Node -> Nat]
    BY <1>2, <1>3
  <2> QED
    BY <2>1, <2>2, <2>3 DEF AlphaInv, Typed
<1>12. NotAhead'
  <2> SUFFICES ASSUME NEW i \in Node PROVE completed'[i] <= current_round'[i] + 1
    BY DEF NotAhead
  <2>1. /\ completed'[i] \in Nat /\ current_round[i] \in Nat /\ current_round'[i] \in Nat
        /\ completed'[i] <= current_round[i] + 1 /\ current_round[i] <= current_round'[i]
    BY <1>3
  <2> QED
    BY <2>1
<1>13. SafeCompleted'
  <2> SUFFICES ASSUME NEW i \in Node, state'[i] \in {"SAFE", "WAITING"}
               PROVE  completed'[i] >= current_round'[i] + 1
    BY DEF SafeCompleted
  <2>1. i \notin ready /\ current_round'[i] = current_round[i]
    BY <1>2, <1>3
  <2>2. i \in starting \/ st[i] = "SAFE" \/ st[i] = "WAITING"
    BY <1>2, <2>1
  <2>3. CASE i \in starting
    BY <1>9, <2>1, <2>3
  <2>4. CASE state[i] = "WAITING"
    <3>1. completed[i] >= current_round[i] + 1
      BY <2>4 DEF AlphaInv, SafeCompleted
    <3>2. /\ completed[i] \in Nat /\ completed'[i] \in Nat /\ current_round[i] \in Nat
          /\ completed[i] <= completed'[i]
      BY <1>3
    <3> QED
      BY <2>1, <3>1, <3>2
  <2>5. CASE st[i] = "SAFE"
    BY <1>4, <2>1, <2>5
  <2>6. st[i] = "WAITING" => state[i] = "WAITING"
    BY DEF AfterProtocol
  <2> QED
    BY <2>2, <2>3, <2>4, <2>5, <2>6
<1>14. SafeVouches'
  BY <1>2, <1>7, <1>8 DEF SafeVouches
<1>15. AckVouches'
  <2> SUFFICES ASSUME NEW m \in incoming', m.type = "ACK",
                      NEW k \in Neighbors(m.sender)' \cup {m.sender}
               PROVE  completed'[k] >= m.round + 1
    BY DEF AckVouches
  <2>1. m \in incoming \cup acks
    BY <1>2, <1>6
  <2>2. m.sender \in Node
    BY <1>5, <1>7, <1>9, <2>1
  <2> QED
    BY <1>1, <1>10, <2>1, <2>2
<1>16. Barrier'
  <2> SUFFICES ASSUME NEW i \in Node, NEW j \in Neighbors(i), NEW k \in Neighbors(j) \cup {j}
               PROVE  completed'[k] >= current_round'[i]
    BY <1>1 DEF Barrier
  <2>1. j \in Node /\ k \in Node
    BY <1>1
  <2>2. CASE i \in ready
    <3>1. j \in Heard("ACK", i, incoming \cup acks)
      BY <2>2 DEF AlphaReady
    <3>2. PICK m \in incoming \cup acks : m.type = "ACK" /\ m.sender = j /\ m.round = current_round[i]
      BY <3>1 DEF Heard, Delivered
    <3> QED
      BY <1>3, <1>10, <2>2, <3>2
  <2>3. CASE i \notin ready
    <3>1. completed[k] >= current_round[i]
      BY DEF AlphaInv, Barrier
    <3>2. /\ completed[k] \in Nat /\ completed'[k] \in Nat /\ current_round[i] \in Nat
          /\ completed[k] <= completed'[k] /\ current_round'[i] = current_round[i]
      BY <1>3, <2>1, <2>3
    <3> QED
      BY <3>1, <3>2
  <2> QED
    BY <2>2, <2>3
<1> QED
  BY <1>11, <1>12, <1>13, <1>14, <1>15, <1>16 DEF AlphaInv

\* AlphaTwoHop, on every network and for any protocols and crashes: a node under
\* the alpha synchronizer enters a round only after its neighbours and theirs
\* completed the one before.
THEOREM AlphaIsTwoHopBarrier == Spec => []AlphaTwoHop
<1> DEFINE IInv == synchro_type = "ALPHA" => AlphaInv
<1>1. Init => IInv
  <2> SUFFICES ASSUME Init PROVE AlphaInv
    OBVIOUS
  <2>1. Typed
    BY SynchronizerAssumption DEF Init, NetInit, Typed
  <2>2. \A i \in Node : Neighbors(i) \subseteq Node
    BY <2>1, NeighborsAreNodes
  <2> QED
    BY <2>1, <2>2 DEF Init, NetInit, AlphaInv, NotAhead, SafeCompleted, SafeVouches, AckVouches, Barrier
<1>2. IInv /\ [Next]_vars => IInv'
  <2> SUFFICES ASSUME AlphaInv, [Next]_vars, synchro_type = "ALPHA", synchro_type' = synchro_type
               PROVE  AlphaInv'
    BY DEF Next, vars
  <2>1. CASE Next
    <3>1. UNCHANGED neighbors
      BY <2>1 DEF Next
    <3>2. ASSUME NEW i \in Node, Crash(i) PROVE AlphaInv'
      BY <3>1, <3>2, CrashKeepsInv
    <3>3. ASSUME NEW finished \in SUBSET Alive, AlphaExecuteRound(finished) PROVE AlphaInv'
      BY <3>1, <3>3, ExecutionKeepsInv
    <3> QED
      BY <2>1, <3>2, <3>3 DEF Next, ExecuteRound
  <2>2. CASE UNCHANGED vars
    BY <2>2 DEF vars, netVars, AlphaInv, Typed, NotAhead, SafeCompleted, SafeVouches, AckVouches,
                Barrier, Neighbors
  <2> QED
    BY <2>1, <2>2
<1>3. IInv => AlphaTwoHop
  BY DEF AlphaInv, Barrier, AlphaTwoHop
<1> QED
  BY <1>1, <1>2, <1>3, PTL DEF Spec

--------------------------------------------------------------------------------
\* Alpha: progress.

\* Edges join two nodes, in both lists.
Symmetric == \A i, j \in Node : j \in Neighbors(i) => i \in Neighbors(j)

\* The queue of i has a SAFE and an ACK of round r from j.
Sent(type, j, i, r) ==
  \E m \in incoming : m.type = type /\ m.sender = j /\ m.receiver = i /\ m.round = r

SentBoth(j, i, r) == Sent("SAFE", j, i, r) /\ Sent("ACK", j, i, r)

\* A node has heard what it needs from a neighbour that is ahead of it, and from
\* one that waits, unless it has left the round that neighbour waits in.
AheadHeard ==
  \A i \in Node : \A j \in Neighbors(i) :
    current_round[j] > current_round[i] => SentBoth(j, i, current_round[i])
WaitingHeard ==
  \A j \in Node : \A i \in Neighbors(j) :
    state[j] = "WAITING" /\ current_round[i] <= current_round[j] => SentBoth(j, i, current_round[j])

ProgressInv == AlphaInv /\ Symmetric /\ AheadHeard /\ WaitingHeard

\* The crash of a node keeps the progress invariant.
LEMMA CrashKeepsProgress ==
  ASSUME ProgressInv, NEW i \in Node, Crash(i), UNCHANGED neighbors
  PROVE  ProgressInv'
<1>1. \A j \in Node : Neighbors(j)' = Neighbors(j) /\ Neighbors(j) \subseteq Node
  BY NeighborsAreNodes DEF Neighbors, ProgressInv, AlphaInv
<1>2. AlphaInv'
  BY CrashKeepsInv DEF ProgressInv
<1>3. /\ current_round' = current_round /\ incoming' = incoming
      /\ \A j \in Node : state'[j] = "WAITING" => state[j] = "WAITING"
  BY DEF Crash, ProgressInv, AlphaInv, Typed
<1>4. \A j, k, r : SentBoth(j, k, r)' <=> SentBoth(j, k, r)
  BY <1>3 DEF SentBoth, Sent
<1>5. Symmetric'
  BY <1>1 DEF ProgressInv, Symmetric
<1>6. AheadHeard'
  BY <1>1, <1>3, <1>4 DEF ProgressInv, AheadHeard
<1>7. WaitingHeard'
  BY <1>1, <1>3, <1>4 DEF ProgressInv, WaitingHeard
<1> QED
  BY <1>2, <1>5, <1>6, <1>7 DEF ProgressInv

\* An execution drops only messages of rounds their receivers have left.
LEMMA ExecutionKeepsProgress ==
  ASSUME ProgressInv, NEW finished \in SUBSET Alive, AlphaExecuteRound(finished), UNCHANGED neighbors
  PROVE  ProgressInv'
<1> DEFINE st == AfterProtocol(finished)
           safes == SafeMessages(st)
           starting == StartWaiting(st, incoming \cup safes)
           acks == ToNeighbors("ACK", starting)
           waiting == starting \cup {i \in Node : st[i] = "WAITING"}
           ready == AlphaReady(waiting, incoming \cup acks)
           resting == [i \in Node |-> IF i \in waiting THEN "WAITING" ELSE st[i]]
<1>1. \A j \in Node : Neighbors(j)' = Neighbors(j) /\ Neighbors(j) \subseteq Node
  BY NeighborsAreNodes DEF Neighbors, ProgressInv, AlphaInv
<1>2. AlphaInv /\ AlphaInv' /\ Symmetric
  BY ExecutionKeepsInv DEF ProgressInv
<1>3. /\ current_round' = [i \in Node |-> current_round[i] + IF i \in ready THEN 1 ELSE 0]
      /\ state' = [i \in Node |-> IF i \in ready THEN "UNSAFE" ELSE resting[i]]
      /\ incoming' = {m \in incoming \cup (safes \cup acks) : m.round >= current_round'[m.receiver]}
      /\ completed' = [i \in Node |-> IF i \in finished THEN current_round[i] + 1 ELSE completed[i]]
  BY DEF AlphaExecuteRound, FinishRound
<1>4. \A i \in Node : /\ current_round[i] \in Nat /\ current_round'[i] \in Nat
                      /\ completed'[i] \in Nat
                      /\ completed'[i] <= current_round[i] + 1
                      /\ current_round[i] <= current_round'[i]
                      /\ current_round'[i] = IF i \in ready THEN current_round[i] + 1 ELSE current_round[i]
  BY <1>2, <1>3 DEF AlphaInv, Typed, NotAhead
<1>5. \A j \in starting : j \in Node /\ st[j] = "SAFE"
  BY DEF StartWaiting
<1>6. ASSUME NEW j \in starting, NEW i \in Neighbors(j)
      PROVE  Msg("SAFE", j, i) \in safes /\ Msg("ACK", j, i) \in acks
  <2>1. j \in {k \in Node : st[k] = "SAFE"}
    BY <1>5
  <2>2. ASSUME NEW type, NEW from, j \in from PROVE Msg(type, j, i) \in ToNeighbors(type, from)
    BY <2>2 DEF ToNeighbors
  <2> HIDE DEF st, starting
  <2>3. Msg("SAFE", j, i) \in safes
    BY <2>1, <2>2 DEF SafeMessages
  <2> QED
    BY <2>2, <2>3
<1>7. \A type, i, j : LET m == Msg(type, j, i)
                      IN  /\ m.type = type /\ m.sender = j /\ m.receiver = i
                          /\ m.round = current_round[j]
  BY DEF Msg
<1> HIDE DEF safes, acks, starting, ready, st
\* What was sent, before or now, is kept until its receiver leaves the round.
<1>8. ASSUME NEW j, NEW i \in Node, NEW r \in Nat, current_round'[i] <= r, SentBoth(j, i, r)
      PROVE  SentBoth(j, i, r)'
  <2>1. \A m \in incoming : m.receiver = i /\ m.round = r => m \in incoming'
    BY <1>3, <1>4, <1>8
  <2> QED
    BY <1>8, <2>1 DEF SentBoth, Sent
<1>9. ASSUME NEW j \in starting, NEW i \in Neighbors(j), NEW r, r = current_round[j],
             current_round'[i] <= r
      PROVE  SentBoth(j, i, r)'
  <2>1. j \in Node /\ i \in Node
    BY <1>1, <1>5
  <2>2. r \in Nat /\ current_round'[i] \in Nat /\ r >= current_round'[i]
    BY <1>4, <1>9, <2>1
  <2>3. Msg("SAFE", j, i) \in incoming' /\ Msg("ACK", j, i) \in incoming'
    BY <1>3, <1>6, <1>7, <1>9, <2>2
  <2> QED
    BY <1>7, <1>9, <2>3 DEF SentBoth, Sent
<1>10. ASSUME NEW j \in waiting, NEW i \in Neighbors(j), NEW r, r = current_round[j],
              current_round'[i] <= r
       PROVE  SentBoth(j, i, r)'
  <2>1. CASE j \in starting
    BY <1>9, <1>10, <2>1
  <2>2. CASE j \in Node /\ state[j] = "WAITING"
    <3>1. i \in Node
      BY <1>1, <2>2
    <3>2. r \in Nat /\ current_round[i] <= r
      BY <1>4, <1>10, <2>2, <3>1
    <3>3. SentBoth(j, i, r)
      BY <1>10, <2>2, <3>2 DEF ProgressInv, WaitingHeard
    <3> QED
      BY <1>8, <1>10, <3>1, <3>2, <3>3
  <2>3. st[j] = "WAITING" /\ j \in Node => state[j] = "WAITING"
    BY DEF st, AfterProtocol
  <2> QED
    BY <2>1, <2>2, <2>3
<1>11. ASSUME NEW j \in Node, NEW i \in Neighbors(j), state'[j] = "WAITING",
              NEW r, r = current_round'[j], current_round'[i] <= r
       PROVE  SentBoth(j, i, r)'
  <2>1. j \notin ready /\ r = current_round[j]
    BY <1>3, <1>4, <1>11
  <2>2. j \in waiting
    BY <1>3, <1>11, <2>1
  <2> HIDE DEF waiting
  <2> QED
    BY <1>10, <1>11, <2>1, <2>2
<1>12. ASSUME NEW i \in Node, NEW j \in Neighbors(i), NEW r, r = current_round'[i],
              current_round'[j] > r
       PROVE  SentBoth(j, i, r)'
  <2>1. j \in Node /\ i \in Neighbors(j)
    BY <1>1, <1>2 DEF Symmetric
  <2>2. completed'[i] >= current_round'[j]
    BY <1>1, <1>2, <2>1 DEF AlphaInv, Barrier
  <2>3. r \in Nat /\ r = current_round[i] /\ current_round'[j] = r + 1 /\ current_round'[i] <= r
    BY <1>4, <1>12, <2>1, <2>2
  <2>4. CASE j \in ready
    <3>1. current_round[j] = r
      BY <1>4, <2>1, <2>3, <2>4
    <3>2. j \in waiting
      BY <2>1, <2>4 DEF ready, AlphaReady
    <3> HIDE DEF waiting
    <3> QED
      BY <1>10, <1>12, <2>1, <2>3, <3>1, <3>2
  <2>5. CASE j \notin ready
    <3>1. current_round[j] > current_round[i]
      BY <1>4, <2>1, <2>3, <2>5
    <3>2. SentBoth(j, i, r)
      BY <2>3, <3>1 DEF ProgressInv, AheadHeard
    <3> QED
      BY <1>8, <1>12, <2>3, <3>2
  <2> QED
    BY <2>4, <2>5
<1>13. Symmetric'
  BY <1>1, <1>2 DEF Symmetric
<1>14. AheadHeard'
  BY <1>1, <1>12 DEF AheadHeard
<1>15. WaitingHeard'
  BY <1>1, <1>11 DEF WaitingHeard
<1> QED
  BY <1>2, <1>13, <1>14, <1>15 DEF ProgressInv

--------------------------------------------------------------------------------
\* Distance counts how often the neighbours have to be added to reach a node.
BallsOf(ball, i, within) ==
  LET c == Cardinality(Node) IN
  /\ ball \in [0 .. c -> SUBSET Node] /\ ball[0] = {i}
  /\ \A d \in 1 .. c :
       ball[d] = ball[d - 1] \cup (within \cap UNION {Neighbors(x) : x \in ball[d - 1]})
  /\ \A k \in Node :
       LET near == {e \in 0 .. c - 1 : k \in ball[e]}
       IN  Distance(i, k, within) =
             IF near = {} THEN c ELSE CHOOSE e \in near : \A f \in near : e <= f

\* There are such balls.
LEMMA Balls ==
  ASSUME neighbors \in [Node -> Seq(Node)], NEW within \in SUBSET Node, NEW i \in Node
  PROVE  \E ball : BallsOf(ball, i, within)
<1> DEFINE c == Cardinality(Node)
           Grown(B) == B \cup (within \cap UNION {Neighbors(x) : x \in B})
           ball[d \in 0 .. c] ==
             IF d = 0 THEN {i}
             ELSE ball[d - 1] \cup (within \cap UNION {Neighbors(x) : x \in ball[d - 1]})
<1>1. c \in Nat
  BY NodeAssumption, FS_CardinalityType
<1>2. \A k : LET near == {e \in 0 .. c - 1 : k \in ball[e]}
             IN  Distance(i, k, within) =
                   IF near = {} THEN c ELSE CHOOSE e \in near : \A f \in near : e <= f
  BY DEF Distance
<1>3. PICK f \in [0 .. c -> SUBSET Node] :
        f = [d \in 0 .. c |-> IF d = 0 THEN {i} ELSE Grown(f[d - 1])]
  <2> DEFINE G == [d \in 1 .. c |-> [B \in SUBSET Node |-> Grown(B)]]
  <2>1. G \in StepsOn(SUBSET Node, c) /\ {i} \in SUBSET Node
    BY DEF StepsOn
  <2> HIDE DEF c, Grown
  <2>2. PICK f : Unfolds(f, SUBSET Node, {i}, c, G)
    <3> HIDE DEF G
    <3> QED
      BY <1>1, <2>1, Recursion
  <2>3. /\ f \in [0 .. c -> SUBSET Node] /\ f[0] = {i}
        /\ \A d \in 1 .. c : f[d] = G[d][f[d - 1]]
    BY <2>2 DEF Unfolds
  <2>4. \A d \in 1 .. c : d - 1 \in 0 .. c
    BY <1>1
  <2>5. \A d \in 1 .. c : \A B \in SUBSET Node : G[d][B] = Grown(B)
    OBVIOUS
  <2> HIDE DEF G
  <2>6. \A d \in 1 .. c : f[d] = Grown(f[d - 1])
    BY <2>3, <2>4, <2>5
  <2>7. /\ f \in [0 .. c -> SUBSET Node]
        /\ \A d \in 0 .. c : f[d] = IF d = 0 THEN {i} ELSE Grown(f[d - 1])
    BY <1>1, <2>3, <2>6
  <2>8. f = [d \in 0 .. c |-> IF d = 0 THEN {i} ELSE Grown(f[d - 1])]
    BY <2>7
  <2> QED
    BY <2>7, <2>8
<1>4. ball = [d \in 0 .. c |-> IF d = 0 THEN {i} ELSE Grown(ball[d - 1])]
  BY <1>3
<1> HIDE DEF ball, c
<1>5. ball[0] = {i} /\ \A d \in 1 .. c : ball[d] = Grown(ball[d - 1])
  <2> HIDE DEF Grown
  <2>1. \A d \in 0 .. c : ball[d] = IF d = 0 THEN {i} ELSE Grown(ball[d - 1])
    BY <1>4, Zenon
  <2>2. 0 \in 0 .. c /\ \A d \in 1 .. c : d \in 0 .. c /\ d # 0
    BY <1>1
  <2> QED
    BY <2>1, <2>2
<1>6. ball \in [0 .. c -> SUBSET Node]
  <2> DEFINE Good == {d \in 0 .. c : ball[d] \in SUBSET Node}
  <2>1. 0 \in Good
    BY <1>1, <1>5
  <2>2. \A d \in 1 .. c : d - 1 \in Good => d \in Good
    BY <1>1, <1>5
  <2> HIDE DEF Good
  <2>3. \A d \in 0 .. c : d \in Good
    BY <1>1, <2>1, <2>2, UpTo
  <2>4. \A d \in 0 .. c : ball[d] \in SUBSET Node
    BY <2>3 DEF Good
  <2>5. DOMAIN ball = 0 .. c /\ ball = [d \in DOMAIN ball |-> ball[d]]
    <3> HIDE DEF Grown
    <3> QED
      BY <1>4
  <2> QED
    BY <2>4, <2>5
<1> QED
  <2>1. /\ ball \in [0 .. c -> SUBSET Node] /\ ball[0] = {i}
        /\ \A d \in 1 .. c : ball[d] = Grown(ball[d - 1])
    BY <1>5, <1>6
  <2>2. BallsOf(ball, i, within)
    BY <1>2, <2>1 DEF BallsOf, c
  <2> QED
    BY <2>2

\* The nodes up to two edges away from i are connected with it.
LEMMA TwoEdgesConnect ==
  ASSUME Typed, NEW i \in Node, NEW j \in Neighbors(i) \cup {i}, NEW k \in Neighbors(j) \cup {j}
  PROVE  Connected(i, k)
<1> DEFINE c == Cardinality(Node)
           Grown(B) == B \cup (Node \cap UNION {Neighbors(x) : x \in B})
<1>1. c \in Nat /\ Node = 0 .. c - 1
  BY NodeAssumption, FS_CardinalityType
<1>2. j \in Node /\ k \in Node
  BY NeighborsAreNodes
<1>3. PICK ball : BallsOf(ball, i, Node)
  BY Balls DEF Typed
<1> DEFINE near == {e \in 0 .. c - 1 : k \in ball[e]}
<1>4. Distance(i, k, Node) = IF near = {} THEN c ELSE CHOOSE e \in near : \A f \in near : e <= f
  BY <1>2, <1>3 DEF BallsOf
<1>6. ball[0] = {i} /\ \A d \in 1 .. c : ball[d] = Grown(ball[d - 1])
  BY <1>3 DEF BallsOf
<1> HIDE DEF c
<1>7. near # {}
  <2>1. c >= 1
    BY <1>1
  <2>2. CASE k = i
    <3>1. 0 \in near
      BY <1>1, <1>6, <2>1, <2>2
    <3> QED
      BY <3>1
  <2>3. CASE k # i /\ k \in Neighbors(i)
    <3>1. c >= 2
      BY <1>1, <1>2, <2>3
    <3>2. k \in ball[1]
      BY <1>1, <1>2, <1>6, <2>3, <3>1
    <3>3. 1 \in near
      BY <1>1, <3>1, <3>2
    <3> QED
      BY <3>3
  <2>4. CASE k # i /\ k \notin Neighbors(i)
    <3>1. j # i /\ k # j /\ j \in Neighbors(i) /\ k \in Neighbors(j)
      BY <2>4
    <3>2. c >= 3
      BY <1>1, <1>2, <2>4, <3>1
    <3>3. j \in ball[1]
      BY <1>1, <1>2, <1>6, <3>1, <3>2
    <3>4. ball[2] = Grown(ball[1])
      BY <1>1, <1>6, <3>2
    <3>5. k \in ball[2]
      BY <1>2, <3>1, <3>3, <3>4
    <3>6. 2 \in near
      BY <1>1, <3>2, <3>5
    <3> QED
      BY <3>6
  <2> QED
    BY <2>2, <2>3, <2>4
<1>8. PICK e \in near : \A f \in near : e <= f
  <2>1. near \subseteq Nat
    OBVIOUS
  <2> HIDE DEF near
  <2> QED
    BY <1>7, <2>1, LeastMember
<1>9. (CHOOSE x \in near : \A f \in near : x <= f) \in near
  <2> HIDE DEF near
  <2> QED
    BY <1>8
<1>10. Distance(i, k, Node) \in 0 .. c - 1
  BY <1>4, <1>7, <1>9
<1> QED
  BY <1>1, <1>10 DEF Connected, c

\* If every protocol returns 0, a node no node of its component is behind leaves
\* its round: neighbours of the same round send now, the others sent before.
LEMMA FurthestBehindMove ==
  ASSUME ProgressInv, Alive = Node, AlphaExecuteRound(Node), NEW i \in Node,
         \A j \in Node : Connected(i, j) => current_round[i] <= current_round[j]
  PROVE  current_round'[i] = current_round[i] + 1
<1> DEFINE st == AfterProtocol(Node)
           safes == SafeMessages(st)
           starting == StartWaiting(st, incoming \cup safes)
           acks == ToNeighbors("ACK", starting)
           waiting == starting \cup {j \in Node : st[j] = "WAITING"}
           ready == AlphaReady(waiting, incoming \cup acks)
<1>1. /\ \A j \in Node : Neighbors(j) \subseteq Node /\ current_round[j] \in Nat
      /\ Typed /\ Symmetric
  BY NeighborsAreNodes DEF ProgressInv, AlphaInv, Typed
<1>2. current_round' = [j \in Node |-> current_round[j] + IF j \in ready THEN 1 ELSE 0]
  BY DEF AlphaExecuteRound, FinishRound
<1>3. \A j \in Node : st[j] = "SAFE"
  BY DEF AfterProtocol
<1>4. ASSUME NEW type, NEW from, NEW j \in from, NEW k \in Neighbors(j), current_round[j] = current_round[k]
      PROVE  j \in Heard(type, k, ToNeighbors(type, from))
  <2>1. Msg(type, j, k) \in ToNeighbors(type, from)
    BY DEF ToNeighbors
  <2> QED
    BY <1>4, <2>1 DEF Heard, Delivered, Msg
<1>5. ASSUME NEW k \in Node, NEW j \in Neighbors(k), current_round[j] > current_round[k]
      PROVE  j \in Heard("SAFE", k, incoming) /\ j \in Heard("ACK", k, incoming)
  BY <1>5 DEF ProgressInv, AheadHeard, SentBoth, Sent, Heard, Delivered
<1>6. \A type, k, A, B : Heard(type, k, A) \cup Heard(type, k, B) \subseteq Heard(type, k, A \cup B)
  BY DEF Heard, Delivered
<1>7. ASSUME NEW j \in Neighbors(i) \cup {i}, NEW k \in Neighbors(j) \cup {j}
      PROVE  k \in Node /\ current_round[i] <= current_round[k]
  <2>1. j \in Node /\ k \in Node
    BY <1>1
  <2> QED
    BY <1>1, <2>1, TwoEdgesConnect
<1>8. ASSUME Neighbors(i) # {},
             NEW j \in Neighbors(i) \cup {i}, current_round[j] = current_round[i]
      PROVE  j \in starting
  <2>1. j \in Node /\ Neighbors(j) # {}
    BY <1>1, <1>8 DEF Symmetric
  <2>2. ASSUME NEW k \in Neighbors(j) PROVE k \in Heard("SAFE", j, incoming \cup safes)
    <3>1. k \in Node /\ j \in Neighbors(k) /\ current_round[j] <= current_round[k]
      BY <1>1, <1>7, <1>8, <2>1 DEF Symmetric
    <3>2. CASE current_round[k] = current_round[j]
      <4>1. k \in {x \in Node : st[x] = "SAFE"}
        BY <1>3, <3>1
      <4> HIDE DEF st
      <4>2. k \in Heard("SAFE", j, safes)
        BY <1>4, <3>1, <3>2, <4>1 DEF SafeMessages
      <4> QED
        BY <1>6, <4>2
    <3>3. CASE current_round[k] > current_round[j]
      BY <1>5, <1>6, <2>1, <3>3
    <3> QED
      BY <1>1, <2>1, <3>1, <3>2, <3>3
  <2> QED
    BY <1>3, <2>1, <2>2 DEF StartWaiting
<1>9. i \in ready
  <2>1. CASE Neighbors(i) = {}
    BY <2>1 DEF AlphaReady
  <2>2. CASE Neighbors(i) # {}
    <3>1. i \in waiting
      BY <1>8, <2>2
    <3>2. ASSUME NEW j \in Neighbors(i) PROVE j \in Heard("ACK", i, incoming \cup acks)
      <4>1. j \in Node /\ i \in Neighbors(j) /\ current_round[i] <= current_round[j]
        BY <1>1, <1>7 DEF Symmetric
      <4>2. CASE current_round[j] = current_round[i]
        <5>1. j \in starting
          BY <1>8, <2>2, <4>2
        <5> HIDE DEF starting
        <5> QED
          BY <1>4, <1>6, <4>1, <4>2, <5>1
      <4>3. CASE current_round[j] > current_round[i]
        BY <1>5, <1>6, <4>3
      <4> QED
        BY <1>1, <4>1, <4>2, <4>3
    <3> HIDE DEF waiting, acks
    <3> QED
      BY <3>1, <3>2 DEF AlphaReady
  <2> QED
    BY <2>1, <2>2
<1> HIDE DEF ready
<1> QED
  BY <1>2, <1>9

\* AlphaProgress, on every network: whatever earlier executions left in the
\* queues, an execution in which every protocol returns 0 moves the nodes that are
\* furthest behind in their component.
THEOREM AlphaNeverStalls == Spec => AlphaProgress
<1> DEFINE IInv == synchro_type = "ALPHA" => ProgressInv
           Moves == synchro_type = "ALPHA" /\ Alive = Node /\ AlphaExecuteRound(Node) =>
                      \A i \in Node :
                        (\A j \in Node : Connected(i, j) => current_round[i] <= current_round[j])
                          => current_round'[i] = current_round[i] + 1
<1>1. Init => IInv
  <2> SUFFICES ASSUME Init PROVE ProgressInv
    OBVIOUS
  <2>1. AlphaInv
    <3>1. Typed
      BY SynchronizerAssumption DEF Init, NetInit, Typed
    <3>2. \A i \in Node : Neighbors(i) \subseteq Node
      BY <3>1, NeighborsAreNodes
    <3> QED
      BY <3>1, <3>2 DEF Init, NetInit, AlphaInv, NotAhead, SafeCompleted, SafeVouches, AckVouches, Barrier
  <2>2. Symmetric
    <3>1. \A i, j \in Node : (\E k \in DOMAIN neighbors[i] : neighbors[i][k] = j)
                            => (\E k \in DOMAIN neighbors[j] : neighbors[j][k] = i)
      BY SynchronizerAssumption DEF Init
    <3> QED
      BY <3>1 DEF Symmetric, Neighbors
  <2>3. \A i \in Node : Neighbors(i) \subseteq Node
    BY <2>1, NeighborsAreNodes DEF AlphaInv
  <2> QED
    BY <2>1, <2>2, <2>3 DEF Init, NetInit, ProgressInv, AheadHeard, WaitingHeard
<1>2. IInv /\ [Next]_vars => IInv'
  <2> SUFFICES ASSUME ProgressInv, [Next]_vars, synchro_type = "ALPHA", synchro_type' = synchro_type
               PROVE  ProgressInv'
    BY DEF Next, vars
  <2>1. CASE Next
    <3>1. UNCHANGED neighbors
      BY <2>1 DEF Next
    <3>2. ASSUME NEW i \in Node, Crash(i) PROVE ProgressInv'
      BY <3>1, <3>2, CrashKeepsProgress
    <3>3. ASSUME NEW finished \in SUBSET Alive, AlphaExecuteRound(finished) PROVE ProgressInv'
      BY <3>1, <3>3, ExecutionKeepsProgress
    <3> QED
      BY <2>1, <3>2, <3>3 DEF Next, ExecuteRound
  <2>2. CASE UNCHANGED vars
    BY <2>2 DEF vars, netVars, ProgressInv, AlphaInv, Typed, NotAhead, SafeCompleted, SafeVouches,
                AckVouches, Barrier, Symmetric, AheadHeard, WaitingHeard, SentBoth, Sent, Neighbors
  <2> QED
    BY <2>1, <2>2
<1>3. IInv => Moves
  BY FurthestBehindMove
<1>4. IInv /\ [Next]_vars => [Moves]_vars
  BY <1>3
<1> QED
  BY <1>1, <1>2, <1>4, PTL DEF Spec, AlphaProgress

--------------------------------------------------------------------------------
\* Beta: the tree and the broadcast.

ListsTyped == neighbors \in [Node -> Seq(Node)]

\* What a search holds: a queue of nodes, a parent or None for each node, a depth.
SearchState ==
  [queue : Seq(Node), parent : [Node -> Node \cup {None}], depth : [Node -> Int]]

\* Taking a vertex into a search leaves a search state.
LEMMA TakeTyped ==
  ASSUME NEW s \in SearchState, NEW u \in Node, NEW v \in Node, NEW within, NEW cap
  PROVE  Take(s, u, v, within, cap) \in SearchState
<1>1. /\ s.queue \in Seq(Node) /\ s.parent \in [Node -> Node \cup {None}]
      /\ s.depth \in [Node -> Int]
  BY DEF SearchState
<1>2. Append(s.queue, v) \in Seq(Node)
  BY <1>1
<1>3. /\ [s.parent EXCEPT ![v] = u] \in [Node -> Node \cup {None}]
      /\ [s.depth EXCEPT ![v] = s.depth[u] + 1] \in [Node -> Int]
  BY <1>1
<1> QED
  BY <1>2, <1>3 DEF Take, SearchState

\* Expanding the head of the queue: neighbour after neighbour, from search state to
\* search state.
ExpandsBy(f, s, within, cap) ==
  LET u == Head(s.queue)
      n == Len(neighbors[u])
  IN  /\ \A k \in 0 .. n : f[k] \in SearchState
      /\ f[0] = [s EXCEPT !.queue = Tail(@)]
      /\ \A k \in 1 .. n : f[k] = Take(f[k - 1], u, neighbors[u][k], within, cap)
      /\ Expand(s, within, cap) = f[n]

\* Expand goes through such states.
LEMMA ExpandUnfolds ==
  ASSUME ListsTyped,
         NEW s \in SearchState, s.queue # <<>>, NEW within, NEW cap
  PROVE  \E f : ExpandsBy(f, s, within, cap)
<1> DEFINE u == Head(s.queue)
           n == Len(neighbors[u])
           start == [s EXCEPT !.queue = Tail(@)]
           G == [k \in 1 .. n |-> [x \in SearchState |-> Take(x, u, neighbors[u][k], within, cap)]]
           after[k \in 0 .. n] ==
             IF k = 0 THEN start ELSE Take(after[k - 1], u, neighbors[u][k], within, cap)
<1>1. u \in Node /\ n \in Nat /\ \A k \in 1 .. n : neighbors[u][k] \in Node
  BY DEF SearchState, ListsTyped
<1>2. start \in SearchState
  <2>1. s.queue \in Seq(Node) /\ Tail(s.queue) \in Seq(Node)
    BY DEF SearchState
  <2> DEFINE q == Tail(s.queue)
  <2> HIDE DEF q
  <2>2. q \in Seq(Node) => [s EXCEPT !.queue = q] \in SearchState
    BY DEF SearchState
  <2> QED
    BY <2>1, <2>2 DEF q
<1>3. G \in StepsOn(SearchState, n)
  BY <1>1, TakeTyped DEF StepsOn
<1>4. after[n] = Expand(s, within, cap)
  BY DEF Expand
<1>5. \E f : f = [k \in 0 .. n |-> IF k = 0 THEN start
                                   ELSE Take(f[k - 1], u, neighbors[u][k], within, cap)]
  <2> HIDE DEF u, n, start
  <2>1. PICK f : Unfolds(f, SearchState, start, n, G)
    <3> HIDE DEF G
    <3> QED
      BY <1>1, <1>2, <1>3, Recursion
  <2>2. /\ f \in [0 .. n -> SearchState]
        /\ \A k \in 0 .. n : f[k] = IF k = 0 THEN start
                                    ELSE Take(f[k - 1], u, neighbors[u][k], within, cap)
    <3>1. /\ f \in [0 .. n -> SearchState] /\ f[0] = start
          /\ \A k \in 1 .. n : f[k] = G[k][f[k - 1]]
      BY <2>1 DEF Unfolds
    <3>2. \A k \in 1 .. n : k - 1 \in 0 .. n
      BY <1>1
    <3>3. \A k \in 1 .. n : \A x \in SearchState :
            G[k][x] = Take(x, u, neighbors[u][k], within, cap)
      OBVIOUS
    <3> HIDE DEF G
    <3>4. \A k \in 1 .. n : f[k] = Take(f[k - 1], u, neighbors[u][k], within, cap)
      BY <3>1, <3>2, <3>3
    <3> QED
      BY <1>1, <3>1, <3>4
  <2>3. f = [k \in 0 .. n |-> IF k = 0 THEN start
                              ELSE Take(f[k - 1], u, neighbors[u][k], within, cap)]
    BY <2>2
  <2> QED
    BY <2>3
<1>6. after = [k \in 0 .. n |-> IF k = 0 THEN start
                                ELSE Take(after[k - 1], u, neighbors[u][k], within, cap)]
  BY <1>5
<1> DEFINE Good == {k \in 0 .. n : after[k] \in SearchState}
<1> HIDE DEF after, start, u, n
<1>7. 0 \in Good
  BY <1>1, <1>2, <1>6
<1>8. \A k \in 1 .. n : k - 1 \in Good => k \in Good
  BY <1>1, <1>6, TakeTyped
<1>9. \A k \in 0 .. n : after[k] \in SearchState
  <2> HIDE DEF Good
  <2>1. \A k \in 0 .. n : k \in Good
    BY <1>1, <1>7, <1>8, UpTo
  <2> QED
    BY <2>1 DEF Good
<1>10. after[0] = start /\ \A k \in 1 .. n : after[k] = Take(after[k - 1], u, neighbors[u][k], within, cap)
  BY <1>1, <1>6
<1>11. ExpandsBy(after, s, within, cap)
  BY <1>4, <1>9, <1>10 DEF ExpandsBy, start, n, u
<1> QED
  BY <1>11

\* It leaves a search state.
LEMMA ExpandTyped ==
  ASSUME ListsTyped,
         NEW s \in SearchState, s.queue # <<>>, NEW within, NEW cap
  PROVE  Expand(s, within, cap) \in SearchState
<1> DEFINE u == Head(s.queue)
           n == Len(neighbors[u])
<1>1. PICK f : ExpandsBy(f, s, within, cap)
  BY ExpandUnfolds
<1>2. s.queue \in Seq(Node)
  BY DEF SearchState
<1>3. u \in Node
  BY <1>2
<1>4. n \in 0 .. n
  BY <1>3 DEF ListsTyped
<1> QED
  BY <1>1, <1>4 DEF ExpandsBy

\* A whole breadth-first search: the root alone, and one node expanded after the other.
SearchesBy(f, root, within, cap) ==
  LET n == Cardinality(Node)
  IN  /\ \A k \in 0 .. n : f[k] \in SearchState
      /\ f[0] = [queue |-> <<root>>, parent |-> [v \in Node |-> None],
                 depth |-> [v \in Node |-> IF v = root THEN 0 ELSE -1]]
      /\ \A k \in 1 .. n :
           f[k] = IF f[k - 1].queue = <<>> THEN f[k - 1] ELSE Expand(f[k - 1], within, cap)
      /\ Search(root, within, cap) = f[n]

\* Search goes through such states.
LEMMA SearchUnfolds ==
  ASSUME ListsTyped, NEW root \in Node, NEW within, NEW cap
  PROVE  \E f : SearchesBy(f, root, within, cap)
<1> DEFINE n == Cardinality(Node)
           start == [queue |-> <<root>>, parent |-> [v \in Node |-> None],
                     depth |-> [v \in Node |-> IF v = root THEN 0 ELSE -1]]
           Following(x) == IF x.queue = <<>> THEN x ELSE Expand(x, within, cap)
           G == [k \in 1 .. n |-> [x \in SearchState |-> Following(x)]]
           after[k \in 0 .. n] ==
             IF k = 0
             THEN start
             ELSE LET search == after[k - 1]
                  IN  IF search.queue = <<>> THEN search ELSE Expand(search, within, cap)
<1>1. n \in Nat
  BY NodeAssumption, FS_CardinalityType
<1>2. start \in SearchState
  <2>1. <<root>> \in Seq(Node)
    OBVIOUS
  <2> QED
    BY <2>1 DEF SearchState, None
<1>3. \A x \in SearchState : Following(x) \in SearchState
  BY ExpandTyped
<1>4. after[n] = Search(root, within, cap)
  BY DEF Search
<1>5. \E f : f = [k \in 0 .. n |-> IF k = 0 THEN start ELSE Following(f[k - 1])]
  <2>1. G \in StepsOn(SearchState, n)
    BY <1>3 DEF StepsOn
  <2> HIDE DEF n, start, Following
  <2>2. PICK f : Unfolds(f, SearchState, start, n, G)
    <3> HIDE DEF G
    <3> QED
      BY <1>1, <1>2, <2>1, Recursion
  <2>3. /\ f \in [0 .. n -> SearchState]
        /\ \A k \in 0 .. n : f[k] = IF k = 0 THEN start ELSE Following(f[k - 1])
    <3>1. /\ f \in [0 .. n -> SearchState] /\ f[0] = start
          /\ \A k \in 1 .. n : f[k] = G[k][f[k - 1]]
      BY <2>2 DEF Unfolds
    <3>2. \A k \in 1 .. n : k - 1 \in 0 .. n
      BY <1>1
    <3>3. \A k \in 1 .. n : \A x \in SearchState : G[k][x] = Following(x)
      OBVIOUS
    <3> HIDE DEF G
    <3>4. \A k \in 1 .. n : f[k] = Following(f[k - 1])
      BY <3>1, <3>2, <3>3
    <3> QED
      BY <1>1, <3>1, <3>4
  <2>4. f = [k \in 0 .. n |-> IF k = 0 THEN start ELSE Following(f[k - 1])]
    BY <2>3
  <2> QED
    BY <2>4
<1>6. after = [k \in 0 .. n |-> IF k = 0 THEN start ELSE Following(after[k - 1])]
  BY <1>5
<1> DEFINE Good == {k \in 0 .. n : after[k] \in SearchState}
<1> HIDE DEF after, start, n, Following
<1>7. 0 \in Good
  BY <1>1, <1>2, <1>6
<1>8. \A k \in 1 .. n : k - 1 \in Good => k \in Good
  BY <1>1, <1>3, <1>6
<1>9. \A k \in 0 .. n : after[k] \in SearchState
  <2> HIDE DEF Good
  <2>1. \A k \in 0 .. n : k \in Good
    BY <1>1, <1>7, <1>8, UpTo
  <2> QED
    BY <2>1 DEF Good
<1>10. after[0] = start /\ \A k \in 1 .. n : after[k] = Following(after[k - 1])
  BY <1>1, <1>6
<1>11. SearchesBy(after, root, within, cap)
  BY <1>4, <1>9, <1>10 DEF SearchesBy, start, n, Following
<1> QED
  BY <1>11

\* It ends in a search state.
LEMMA SearchTyped ==
  ASSUME ListsTyped, NEW root \in Node, NEW within, NEW cap
  PROVE  Search(root, within, cap) \in SearchState
<1> DEFINE n == Cardinality(Node)
<1>1. PICK f : SearchesBy(f, root, within, cap)
  BY SearchUnfolds
<1>2. n \in 0 .. n
  BY NodeAssumption, FS_CardinalityType
<1> QED
  BY <1>1, <1>2 DEF SearchesBy

\* Whom the broadcast reaches, as an equation: the recursion has a solution
\* because the rule for v grows with the set of nodes already pulsed.
LEMMA PulsedRule ==
  ASSUME bfs_parent \in [Node -> Node \cup {None}], NEW reporting, NEW roots, NEW v \in Node
  PROVE  v \in Pulsed(reporting, roots) <=>
           /\ v \in reporting
           /\ IF bfs_parent[v] = None THEN v \in roots
              ELSE \/ bfs_parent[v] \in Heard("NEXT_PULSE", v, incoming)
                   \/ /\ bfs_parent[v] \in Pulsed(reporting, roots)
                      /\ current_round[bfs_parent[v]] = current_round[v]
<1> DEFINE Rule(w, X) ==
             /\ w \in reporting
             /\ IF bfs_parent[w] = None THEN w \in roots
                ELSE \/ bfs_parent[w] \in Heard("NEXT_PULSE", w, incoming)
                     \/ bfs_parent[w] \in X /\ current_round[bfs_parent[w]] = current_round[w]
           Closed(X) == \A w \in Node : Rule(w, X) => w \in X
           L == {w \in Node : \A X \in SUBSET Node : Closed(X) => w \in X}
           pulsed[w \in Node] ==
             /\ w \in reporting
             /\ IF bfs_parent[w] = None THEN w \in roots
                ELSE \/ bfs_parent[w] \in Heard("NEXT_PULSE", w, incoming)
                     \/ pulsed[bfs_parent[w]] /\ current_round[bfs_parent[w]] = current_round[w]
<1>1. ASSUME NEW X, NEW Y, X \subseteq Y, NEW w, Rule(w, X) PROVE Rule(w, Y)
  BY <1>1
<1>2. \A w \in Node : Rule(w, L) => w \in L
  <2> SUFFICES ASSUME NEW w \in Node, Rule(w, L), NEW X \in SUBSET Node, Closed(X)
               PROVE  w \in X
    OBVIOUS
  <2>1. L \subseteq X
    OBVIOUS
  <2> HIDE DEF L
  <2>2. Rule(w, X)
    BY <1>1, <2>1
  <2> QED
    BY <2>2
<1>3. \A w \in L : Rule(w, L)
  <2> DEFINE X == {w \in Node : Rule(w, L)}
  <2>1. X \subseteq L
    BY <1>2
  <2>2. Closed(X)
    <3> SUFFICES ASSUME NEW w \in Node, Rule(w, X) PROVE Rule(w, L)
      OBVIOUS
    <3> HIDE DEF X, L
    <3> QED
      BY <1>1, <2>1
  <2>3. X \in SUBSET Node /\ L \subseteq X
    BY <2>2
  <2> QED
    BY <2>3
<1> HIDE DEF L
<1>4. \E f : f = [w \in Node |->
             /\ w \in reporting
             /\ IF bfs_parent[w] = None THEN w \in roots
                ELSE \/ bfs_parent[w] \in Heard("NEXT_PULSE", w, incoming)
                     \/ f[bfs_parent[w]] /\ current_round[bfs_parent[w]] = current_round[w]]
  <2> DEFINE f == [w \in Node |-> w \in L]
             R(w) == /\ w \in reporting
                     /\ IF bfs_parent[w] = None THEN w \in roots
                        ELSE \/ bfs_parent[w] \in Heard("NEXT_PULSE", w, incoming)
                             \/ f[bfs_parent[w]] /\ current_round[bfs_parent[w]] = current_round[w]
  <2>1. \A w \in Node : f[w] <=> w \in L
    OBVIOUS
  <2>2. ASSUME NEW w \in Node PROVE w \in L <=> R(w)
    <3>1. w \in L <=> Rule(w, L)
      BY <1>2, <1>3
    <3>2. bfs_parent[w] # None => (f[bfs_parent[w]] <=> bfs_parent[w] \in L)
      BY <2>1
    <3> HIDE DEF f
    <3> QED
      BY <3>1, <3>2
  <2>3. \A w \in Node : (w \in L) = R(w)
    <3>1. \A w \in Node : (w \in L) \in BOOLEAN /\ R(w) \in BOOLEAN
      OBVIOUS
    <3> HIDE DEF R, f
    <3> QED
      BY <2>2, <3>1
  <2>4. f = [w \in Node |-> R(w)]
    <3> HIDE DEF R
    <3> QED
      BY <2>3
  <2> QED
    BY <2>4
<1>5. pulsed = [w \in Node |->
             /\ w \in reporting
             /\ IF bfs_parent[w] = None THEN w \in roots
                ELSE \/ bfs_parent[w] \in Heard("NEXT_PULSE", w, incoming)
                     \/ pulsed[bfs_parent[w]] /\ current_round[bfs_parent[w]] = current_round[w]]
  BY <1>4
<1>6. Pulsed(reporting, roots) = {w \in Node : pulsed[w]}
  BY DEF Pulsed
<1> HIDE DEF pulsed
<1>7. \A w \in Node : pulsed[w] <=>
             /\ w \in reporting
             /\ IF bfs_parent[w] = None THEN w \in roots
                ELSE \/ bfs_parent[w] \in Heard("NEXT_PULSE", w, incoming)
                     \/ pulsed[bfs_parent[w]] /\ current_round[bfs_parent[w]] = current_round[w]
  BY <1>5
<1>8. bfs_parent[v] # None => bfs_parent[v] \in Node
  OBVIOUS
<1> QED
  BY <1>6, <1>7, <1>8

\* What beta's proof needs of types, and of the tree.
TreeTyped ==
  /\ bfs_parent \in [Node -> Node \cup {None}]
  /\ current_round \in [Node -> Nat]
  /\ \A m \in incoming : m.sender \in Node /\ m.round \in Nat

\* A pulse in a queue vouches for its sender having left the round it was sent in.
PulseVouches ==
  \A m \in incoming : m.type = "NEXT_PULSE" => current_round[m.sender] >= m.round + 1

ParentLeads ==
  \A v \in Node : bfs_parent[v] # None => current_round[v] <= current_round[bfs_parent[v]]

BetaInv == TreeTyped /\ PulseVouches /\ ParentLeads

\* The tree just built satisfies the invariant of beta.
LEMMA BetaInitially ==
  ASSUME Init, synchro_type = "BETA"
  PROVE  BetaInv
<1>1. ListsTyped
  BY SynchronizerAssumption DEF Init, ListsTyped
<1>2. 0 \in Node
  BY NodeAssumption
<1>3. Search(0, Node, Cardinality(Node)) \in SearchState
  BY <1>1, <1>2, SearchTyped
<1>4. bfs_parent \in [Node -> Node \cup {None}]
  BY <1>3 DEF Init, BetaTrees, SearchState
<1>5. current_round = [i \in Node |-> 0] /\ incoming = {}
  BY DEF Init, NetInit
<1> QED
  BY <1>4, <1>5 DEF BetaInv, TreeTyped, PulseVouches, ParentLeads

\* One execution: a node moves because its parent moves with it, or moved before.
LEMMA BetaKeepsInv ==
  ASSUME BetaInv, BetaExecuteRound, UNCHANGED treeVars
  PROVE  BetaInv'
<1> DEFINE pulsed == Pulsed(Reports, {v \in Reports : bfs_parent[v] = None})
           reports == ReportMessages(Reports)
           pulses == PulseMessages(pulsed)
<1>1. /\ current_round' = [i \in Node |-> current_round[i] + IF i \in pulsed THEN 1 ELSE 0]
      /\ incoming' \subseteq incoming \cup (reports \cup pulses)
      /\ bfs_parent' = bfs_parent
  BY DEF BetaExecuteRound, FinishRound, treeVars
<1>2. pulsed \subseteq Node /\ Reports \subseteq Node
  BY DEF Pulsed, Reports
<1>3. \A i \in Node : /\ current_round[i] \in Nat /\ current_round'[i] \in Nat
                      /\ current_round[i] <= current_round'[i]
                      /\ i \in pulsed => current_round'[i] = current_round[i] + 1
                      /\ i \notin pulsed => current_round'[i] = current_round[i]
  BY <1>1 DEF BetaInv, TreeTyped
<1>4. \A m \in reports : m.type = "SAFE_SUBTREE" /\ m.sender \in Node /\ m.round = current_round[m.sender]
  BY <1>2 DEF ReportMessages, Msg
<1>5. \A m \in pulses : m.sender \in pulsed /\ m.round = current_round[m.sender]
  BY DEF PulseMessages, Msg
<1> HIDE DEF pulsed, reports, pulses
<1>6. TreeTyped'
  <2>1. \A m \in incoming' : m.sender \in Node /\ m.round \in Nat
    BY <1>1, <1>2, <1>3, <1>4, <1>5 DEF BetaInv, TreeTyped
  <2>2. current_round' \in [Node -> Nat]
    BY <1>1, <1>3
  <2> QED
    BY <1>1, <2>1, <2>2 DEF BetaInv, TreeTyped
<1>7. PulseVouches'
  <2> SUFFICES ASSUME NEW m \in incoming', m.type = "NEXT_PULSE"
               PROVE  current_round'[m.sender] >= m.round + 1
    BY DEF PulseVouches
  <2>1. CASE m \in incoming
    <3>1. m.sender \in Node /\ m.round \in Nat /\ current_round[m.sender] >= m.round + 1
      BY <2>1 DEF BetaInv, TreeTyped, PulseVouches
    <3> QED
      BY <1>3, <3>1
  <2>2. CASE m \in pulses
    BY <1>2, <1>3, <1>5, <2>2
  <2>3. m \notin reports
    BY <1>4
  <2> QED
    BY <1>1, <2>1, <2>2, <2>3
<1>8. ParentLeads'
  <2> SUFFICES ASSUME NEW v \in Node, bfs_parent[v] # None
               PROVE  current_round'[v] <= current_round'[bfs_parent[v]]
    BY <1>1 DEF ParentLeads
  <2> DEFINE p == bfs_parent[v]
  <2>1. p \in Node /\ current_round[v] <= current_round[p]
    BY DEF BetaInv, TreeTyped, ParentLeads
  <2>2. CASE v \notin pulsed
    BY <1>3, <2>1, <2>2
  <2>3. CASE v \in pulsed
    <3>1. p \in Heard("NEXT_PULSE", v, incoming) \/ (p \in pulsed /\ current_round[p] = current_round[v])
      BY <2>3, PulsedRule DEF pulsed, BetaInv, TreeTyped
    <3>2. CASE p \in Heard("NEXT_PULSE", v, incoming)
      <4>1. current_round[p] >= current_round[v] + 1
        BY <3>2 DEF Heard, Delivered, BetaInv, PulseVouches
      <4> QED
        BY <1>3, <2>1, <2>3, <4>1
    <3>3. CASE p \in pulsed /\ current_round[p] = current_round[v]
      BY <1>3, <2>1, <2>3, <3>3
    <3> QED
      BY <3>1, <3>2, <3>3
  <2> QED
    BY <2>2, <2>3
<1> QED
  BY <1>6, <1>7, <1>8 DEF BetaInv

\* BetaParentLeads, on every network: crashes, late reports and repeated pulses
\* never let a node of beta's tree get ahead of its parent.
THEOREM BetaFollowsParent == Spec => []BetaParentLeads
<1> DEFINE IInv == synchro_type = "BETA" => BetaInv
<1>1. Init => IInv
  BY BetaInitially
<1>2. IInv /\ [Next]_vars => IInv'
  <2> SUFFICES ASSUME BetaInv, [Next]_vars, synchro_type = "BETA", synchro_type' = synchro_type
               PROVE  BetaInv'
    BY DEF Next, vars
  <2>1. CASE Next
    <3>1. UNCHANGED treeVars
      BY <2>1 DEF Next
    <3>2. ASSUME NEW i \in Node, Crash(i) PROVE BetaInv'
      BY <3>1, <3>2 DEF Crash, treeVars, BetaInv, TreeTyped, PulseVouches, ParentLeads
    <3>3. ASSUME BetaExecuteRound PROVE BetaInv'
      BY <3>1, <3>3, BetaKeepsInv
    <3> QED
      BY <2>1, <3>2, <3>3 DEF Next, ExecuteRound
  <2>2. CASE UNCHANGED vars
    BY <2>2 DEF vars, netVars, treeVars, BetaInv, TreeTyped, PulseVouches, ParentLeads
  <2> QED
    BY <2>1, <2>2
<1>3. IInv => BetaParentLeads
  BY DEF BetaInv, ParentLeads, BetaParentLeads
<1> QED
  BY <1>1, <1>2, <1>3, PTL DEF Spec
--------------------------------------------------------------------------------
\* The trees: what a breadth-first search finds.

Waiting(s) == {s.queue[k] : k \in DOMAIN s.queue}
Expanded(s) == Reached(s) \ Waiting(s)

\* A tree of nodes of within, each one edge and one level below its parent.
TreeFrom(s, root, within) ==
  /\ root \in Reached(s) /\ s.depth[root] = 0 /\ s.parent[root] = None
  /\ \A v \in Node : s.depth[v] >= -1 /\ (s.depth[v] = -1 => s.parent[v] = None)
  /\ \A v \in Reached(s) \ {root} :
       /\ v \in within /\ s.parent[v] \in Reached(s) /\ v \in Neighbors(s.parent[v])
       /\ s.depth[v] = s.depth[s.parent[v]] + 1
  /\ \A v \in Reached(s) : s.depth[v] < Cardinality(Reached(s))

\* The queue is in the order of the depths, from d to d + 1, and nobody is in it twice.
InLine(s, d) ==
  /\ Waiting(s) \subseteq Reached(s)
  /\ \A i, j \in DOMAIN s.queue :
       i < j => s.queue[i] # s.queue[j] /\ s.depth[s.queue[i]] <= s.depth[s.queue[j]]
  /\ \A v \in Waiting(s) : d <= s.depth[v]
  /\ \A v \in Reached(s) : s.depth[v] <= d + 1

\* The neighbours of u in within are in the tree, at most one level below u.
Seen(s, u, within) ==
  \A v \in Neighbors(u) \cap within : v \in Reached(s) /\ s.depth[v] <= s.depth[u] + 1

\* t has what s has.
Extends(s, t) == \A v \in Reached(s) : v \in Reached(t) /\ t.depth[v] = s.depth[v]

\* How many nodes a search holds.
LEMMA ReachedFinite ==
  ASSUME NEW s
  PROVE  /\ IsFiniteSet(Reached(s)) /\ Cardinality(Reached(s)) \in Nat
         /\ Cardinality(Reached(s)) <= Cardinality(Node)
         /\ Cardinality(Reached(s)) = Cardinality(Node) => Reached(s) = Node
         /\ Cardinality(Node) \in Nat
<1>1. IsFiniteSet(Node) /\ Reached(s) \in SUBSET Node
  BY NodeAssumption DEF Reached
<1> QED
  BY <1>1, FS_Subset, FS_CardinalityType

\* Looking at a neighbour v of u, which has just left the queue.
LEMMA TakeGrows ==
  ASSUME NEW s \in SearchState, NEW within \in SUBSET Node, NEW root \in within, NEW cap \in Nat,
         NEW u \in Expanded(s), NEW v \in Neighbors(u), v \in Node,
         TreeFrom(s, root, within), InLine(s, s.depth[u])
  PROVE  LET t == Take(s, u, v, within, cap) IN
         /\ t \in SearchState /\ TreeFrom(t, root, within) /\ InLine(t, s.depth[u])
         /\ Extends(s, t) /\ Expanded(t) = Expanded(s)
         /\ cap >= Cardinality(Node) /\ v \in within => v \in Reached(t) /\ t.depth[v] <= s.depth[u] + 1
<1> DEFINE t == Take(s, u, v, within, cap)
           d == s.depth[u]
           R == Reached(s)
<1>0. /\ u \in Node /\ u \in R /\ d \in Nat /\ R \subseteq Node
      /\ s.queue \in Seq(Node) /\ s.parent \in [Node -> Node \cup {None}] /\ s.depth \in [Node -> Int]
  BY DEF Expanded, Reached, SearchState
<1>1. t \in SearchState
  BY <1>0, TakeTyped
<1>2. IsFiniteSet(R) /\ Cardinality(R) \in Nat /\ Cardinality(Node) \in Nat
      /\ Cardinality(R) <= Cardinality(Node) /\ (Cardinality(R) = Cardinality(Node) => R = Node)
  BY ReachedFinite
<1>3. CASE v \in within /\ s.depth[v] = -1 /\ Cardinality(R) < cap
  <2>1. t = [queue |-> Append(s.queue, v), parent |-> [s.parent EXCEPT ![v] = u],
             depth |-> [s.depth EXCEPT ![v] = d + 1]]
    BY <1>3 DEF Take, Reached
  <2>2. /\ t.queue = Append(s.queue, v) /\ t.parent = [s.parent EXCEPT ![v] = u]
        /\ t.depth = [s.depth EXCEPT ![v] = d + 1]
    BY <2>1
  <2> HIDE DEF t
  <2>3. v \notin R /\ v # u /\ v # root
    BY <1>0, <1>3 DEF Reached, TreeFrom
  <2>4. /\ t.depth[v] = d + 1 /\ t.parent[v] = u
        /\ \A w \in Node \ {v} : t.depth[w] = s.depth[w] /\ t.parent[w] = s.parent[w]
    BY <1>0, <2>2
  <2>5. Reached(t) = R \cup {v}
    BY <1>0, <2>4 DEF Reached
  <2>6. Cardinality(Reached(t)) = Cardinality(R) + 1
    BY <1>2, <2>3, <2>5, FS_AddElement
  <2>7. Extends(s, t)
    BY <1>0, <2>3, <2>4, <2>5 DEF Extends
  <2>8. /\ Len(t.queue) = Len(s.queue) + 1 /\ Len(s.queue) \in Nat
        /\ DOMAIN s.queue = 1 .. Len(s.queue) /\ DOMAIN t.queue = 1 .. Len(s.queue) + 1
        /\ \A k \in 1 .. Len(s.queue) : t.queue[k] = s.queue[k] /\ s.queue[k] \in Node
        /\ t.queue[Len(s.queue) + 1] = v
    BY <1>0, <2>2
  <2>9. Waiting(t) = Waiting(s) \cup {v}
    <3>1. ASSUME NEW w \in Waiting(t) PROVE w \in Waiting(s) \cup {v}
      <4>1. PICK k \in 1 .. Len(s.queue) + 1 : w = t.queue[k]
        BY <2>8 DEF Waiting
      <4>2. k \in 1 .. Len(s.queue) \/ k = Len(s.queue) + 1
        BY <2>8
      <4> QED
        BY <2>8, <4>1, <4>2 DEF Waiting
    <3>2. ASSUME NEW w \in Waiting(s) PROVE w \in Waiting(t)
      <4>1. PICK k \in 1 .. Len(s.queue) : w = s.queue[k]
        BY <2>8 DEF Waiting
      <4>2. k \in 1 .. Len(s.queue) + 1
        BY <2>8
      <4> QED
        BY <2>8, <4>1, <4>2 DEF Waiting
    <3>3. v \in Waiting(t)
      <4>1. Len(s.queue) + 1 \in DOMAIN t.queue
        BY <2>8
      <4> QED
        BY <2>8, <4>1 DEF Waiting
    <3> QED
      BY <3>1, <3>2, <3>3
  <2>10. Expanded(t) = Expanded(s)
    BY <2>3, <2>5, <2>9 DEF Expanded
  <2>11. \A w \in R : w \in Node /\ w # v /\ s.depth[w] \in Nat /\ s.depth[w] <= d + 1
                      /\ s.depth[w] < Cardinality(R)
    BY <1>0, <2>3 DEF InLine, Reached, TreeFrom
  <2>12. InLine(t, d)
    <3>1. Waiting(t) \subseteq Reached(t)
      BY <2>5, <2>9 DEF InLine
    <3>2. ASSUME NEW i \in DOMAIN t.queue, NEW j \in DOMAIN t.queue, i < j
          PROVE  t.queue[i] # t.queue[j] /\ t.depth[t.queue[i]] <= t.depth[t.queue[j]]
      <4>1. i \in 1 .. Len(s.queue) /\ (j \in 1 .. Len(s.queue) \/ j = Len(s.queue) + 1)
        BY <2>8, <3>2
      <4>2. t.queue[i] = s.queue[i] /\ s.queue[i] \in R
        BY <2>8, <4>1 DEF InLine, Waiting
      <4>3. CASE j \in 1 .. Len(s.queue)
        <5>1. t.queue[j] = s.queue[j] /\ s.queue[j] \in R
          BY <2>8, <4>3 DEF InLine, Waiting
        <5>2. s.queue[i] # s.queue[j] /\ s.depth[s.queue[i]] <= s.depth[s.queue[j]]
          BY <2>8, <3>2, <4>1, <4>3 DEF InLine
        <5> QED
          BY <2>4, <2>11, <4>2, <5>1, <5>2
      <4>4. CASE j = Len(s.queue) + 1
        BY <2>4, <2>8, <2>11, <4>2, <4>4
      <4> QED
        BY <4>1, <4>3, <4>4
    <3>3. \A w \in Waiting(t) : d <= t.depth[w]
      BY <1>0, <2>4, <2>9, <2>11 DEF InLine
    <3>4. \A w \in Reached(t) : t.depth[w] <= d + 1
      BY <1>0, <2>4, <2>5, <2>11
    <3> QED
      BY <3>1, <3>2, <3>3, <3>4 DEF InLine
  <2>13. TreeFrom(t, root, within)
    <3>1. root \in Reached(t) /\ t.depth[root] = 0 /\ t.parent[root] = None
      BY <2>3, <2>4, <2>5 DEF TreeFrom
    <3>2. \A w \in Node : t.depth[w] >= -1 /\ (t.depth[w] = -1 => t.parent[w] = None)
      BY <1>0, <2>4 DEF TreeFrom
    <3>3. ASSUME NEW w \in Reached(t) \ {root}
          PROVE  /\ w \in within /\ t.parent[w] \in Reached(t) /\ w \in Neighbors(t.parent[w])
                 /\ t.depth[w] = t.depth[t.parent[w]] + 1
      <4>1. CASE w = v
        BY <1>0, <1>3, <2>3, <2>4, <2>5, <4>1
      <4>2. CASE w # v
        <5>1. w \in R \ {root} /\ t.parent[w] = s.parent[w] /\ t.depth[w] = s.depth[w]
          BY <1>0, <2>4, <2>5, <4>2
        <5>2. /\ w \in within /\ s.parent[w] \in R /\ w \in Neighbors(s.parent[w])
              /\ s.depth[w] = s.depth[s.parent[w]] + 1
          BY <5>1 DEF TreeFrom
        <5>3. t.depth[s.parent[w]] = s.depth[s.parent[w]]
          BY <2>4, <2>11, <5>2
        <5> QED
          BY <2>5, <5>1, <5>2, <5>3
      <4> QED
        BY <4>1, <4>2
    <3>4. ASSUME NEW w \in Reached(t) PROVE t.depth[w] < Cardinality(Reached(t))
      <4>1. d < Cardinality(R)
        BY <1>0, <2>11
      <4>2. t.depth[w] = d + 1 \/ (t.depth[w] = s.depth[w] /\ w \in R)
        BY <1>0, <2>4, <2>5
      <4> QED
        BY <1>0, <1>2, <2>6, <2>11, <4>1, <4>2
    <3> QED
      BY <3>1, <3>2, <3>3, <3>4 DEF TreeFrom
  <2> QED
    BY <1>0, <1>1, <2>4, <2>5, <2>7, <2>10, <2>12, <2>13 DEF t
<1>4. CASE ~(v \in within /\ s.depth[v] = -1 /\ Cardinality(R) < cap)
  <2>1. t = s
    BY <1>4 DEF Take, Reached
  <2>2. ASSUME cap >= Cardinality(Node), v \in within PROVE v \in R /\ s.depth[v] <= d + 1
    <3>1. s.depth[v] # -1 \/ R = Node
      BY <1>2, <1>4, <2>2
    <3>2. s.depth[v] \in Int /\ s.depth[v] >= -1
      BY <1>0 DEF TreeFrom
    <3>3. v \in R
      BY <3>1, <3>2 DEF Reached
    <3> QED
      BY <3>3 DEF InLine
  <2> QED
    BY <1>1, <2>1, <2>2 DEF Extends
<1> QED
  BY <1>3, <1>4

\* Between two expansions, after k of them or more.
SearchInv(s, root, within, cap, k) ==
  /\ s \in SearchState /\ TreeFrom(s, root, within)
  /\ \E d \in Nat : InLine(s, d)
  /\ cap >= Cardinality(Node) => \A u \in Expanded(s) : Seen(s, u, within)
  /\ s.queue # <<>> => Cardinality(Expanded(s)) >= k

\* The head of the queue leaves it.
LEMMA HeadLeaves ==
  ASSUME NEW s \in SearchState, NEW d \in Nat, InLine(s, d), s.queue # <<>>
  PROVE  LET t == [s EXCEPT !.queue = Tail(@)]
             u == Head(s.queue)
         IN  /\ t \in SearchState /\ t.depth = s.depth /\ t.parent = s.parent /\ Reached(t) = Reached(s)
             /\ u \in Reached(s) /\ u \notin Expanded(s) /\ Expanded(t) = Expanded(s) \cup {u}
             /\ InLine(t, s.depth[u]) /\ s.depth[u] \in Nat
<1> DEFINE q == s.queue
           r == Tail(s.queue)
           t == [s EXCEPT !.queue = Tail(@)]
           u == Head(s.queue)
<1>1. q \in Seq(Node) /\ q # <<>> /\ s.depth \in [Node -> Int] /\ s.parent \in [Node -> Node \cup {None}]
  BY DEF SearchState
<1>2. /\ Len(q) \in Nat /\ Len(q) >= 1 /\ DOMAIN q = 1 .. Len(q) /\ u = q[1]
      /\ r \in Seq(Node) /\ Len(r) = Len(q) - 1 /\ DOMAIN r = 1 .. Len(q) - 1
      /\ \A k \in 1 .. Len(q) - 1 : r[k] = q[k + 1]
  BY <1>1
<1>3. t.queue = r /\ t.depth = s.depth /\ t.parent = s.parent
  BY DEF SearchState
<1>4. t \in SearchState
  <2>1. t = [s EXCEPT !.queue = r]
    OBVIOUS
  <2> HIDE DEF r, t
  <2> QED
    BY <1>2, <2>1 DEF SearchState
<1>5. Reached(t) = Reached(s)
  BY <1>3 DEF Reached
<1> HIDE DEF t, r, q, u
<1>6. \A k \in 1 .. Len(q) - 1 : k \in 1 .. Len(q) /\ k + 1 \in 1 .. Len(q) /\ 1 < k + 1
  BY <1>2
<1>7. 1 \in 1 .. Len(q)
  BY <1>2
<1>8. /\ Waiting(s) = {q[k] : k \in 1 .. Len(q)} /\ Waiting(t) = {r[k] : k \in 1 .. Len(q) - 1}
  BY <1>2, <1>3 DEF Waiting, q
<1>9. u \in Waiting(s) /\ u \in Reached(s)
  BY <1>2, <1>7, <1>8 DEF InLine
<1>10. \A i, j \in 1 .. Len(q) : i < j => q[i] # q[j] /\ s.depth[q[i]] <= s.depth[q[j]]
  BY <1>2 DEF InLine, q
<1>11. u \notin Waiting(t) /\ \A w \in Waiting(t) : s.depth[u] <= s.depth[w]
  BY <1>2, <1>6, <1>7, <1>8, <1>10
<1>12. Waiting(s) = Waiting(t) \cup {u}
  <2>1. ASSUME NEW w \in Waiting(s) PROVE w \in Waiting(t) \cup {u}
    <3>1. PICK k \in 1 .. Len(q) : w = q[k]
      BY <1>8
    <3>2. CASE k = 1
      BY <1>2, <3>1, <3>2
    <3>3. CASE k # 1
      <4>1. k - 1 \in 1 .. Len(q) - 1 /\ (k - 1) + 1 = k
        BY <1>2, <3>3
      <4>2. r[k - 1] = w
        BY <1>2, <3>1, <4>1
      <4> QED
        BY <1>8, <4>1, <4>2
    <3> QED
      BY <3>2, <3>3
  <2>2. ASSUME NEW w \in Waiting(t) PROVE w \in Waiting(s)
    BY <1>2, <1>6, <1>8
  <2> QED
    BY <1>9, <2>1, <2>2
<1>13. /\ \A w \in Reached(s) : w \in Node /\ s.depth[w] \in Nat /\ s.depth[w] <= d + 1
       /\ Waiting(s) \subseteq Reached(s) /\ d <= s.depth[u]
  BY <1>1, <1>9 DEF InLine, Reached
<1>14. InLine(t, s.depth[u])
  <2>1. \A i, j \in DOMAIN t.queue :
          i < j => t.queue[i] # t.queue[j] /\ t.depth[t.queue[i]] <= t.depth[t.queue[j]]
    <3>1. SUFFICES ASSUME NEW i \in 1 .. Len(q) - 1, NEW j \in 1 .. Len(q) - 1, i < j
                   PROVE  r[i] # r[j] /\ s.depth[r[i]] <= s.depth[r[j]]
      BY <1>2, <1>3
    <3>2. i + 1 < j + 1
      BY <1>2, <3>1
    <3>3. q[i + 1] # q[j + 1] /\ s.depth[q[i + 1]] <= s.depth[q[j + 1]]
      BY <1>6, <1>10, <3>2
    <3> QED
      BY <1>2, <3>3
  <2>2. \A w \in Reached(t) : t.depth[w] <= s.depth[u] + 1
    BY <1>3, <1>5, <1>9, <1>13
  <2>3. Waiting(t) \subseteq Reached(t) /\ \A w \in Waiting(t) : s.depth[u] <= t.depth[w]
    BY <1>3, <1>5, <1>11, <1>12, <1>13
  <2> QED
    BY <2>1, <2>2, <2>3 DEF InLine
<1>15. u \notin Expanded(s) /\ Expanded(t) = Expanded(s) \cup {u}
  BY <1>5, <1>9, <1>11, <1>12 DEF Expanded
<1> QED
  BY <1>3, <1>4, <1>5, <1>9, <1>13, <1>14, <1>15 DEF t, u

\* An expansion finds the neighbours of one node more.
LEMMA ExpandGrows ==
  ASSUME ListsTyped, NEW s, NEW within \in SUBSET Node, NEW root \in within, NEW cap \in Nat,
         NEW k \in Nat, SearchInv(s, root, within, cap, k), s.queue # <<>>
  PROVE  SearchInv(Expand(s, within, cap), root, within, cap, k + 1)
<1> DEFINE u == Head(s.queue)
           n == Len(neighbors[u])
           d == s.depth[u]
           start == [s EXCEPT !.queue = Tail(@)]
<1>0. s \in SearchState /\ TreeFrom(s, root, within) /\ s.queue # <<>>
      /\ Cardinality(Expanded(s)) >= k
      /\ (cap >= Cardinality(Node) => \A w \in Expanded(s) : Seen(s, w, within))
  BY DEF SearchInv
<1>1. PICK e \in Nat : InLine(s, e)
  BY DEF SearchInv
<1>2. /\ start \in SearchState /\ start.depth = s.depth /\ start.parent = s.parent
      /\ Reached(start) = Reached(s)
      /\ u \in Reached(s) /\ u \notin Expanded(s) /\ Expanded(start) = Expanded(s) \cup {u}
      /\ InLine(start, d) /\ d \in Nat
  BY <1>0, <1>1, HeadLeaves
<1>3. PICK f : ExpandsBy(f, s, within, cap)
  BY <1>0, ExpandUnfolds
<1>4. f[0] = start /\ \A j \in 1 .. n : f[j] = Take(f[j - 1], u, neighbors[u][j], within, cap)
  BY <1>3 DEF ExpandsBy
<1>5. Expand(s, within, cap) = f[n]
  BY <1>3 DEF ExpandsBy
<1>6. u \in Node /\ neighbors[u] \in Seq(Node)
  BY <1>2 DEF Reached, ListsTyped
<1>7. /\ n \in Nat /\ Neighbors(u) = {neighbors[u][j] : j \in 1 .. n}
      /\ \A j \in 1 .. n : neighbors[u][j] \in Node
  BY <1>6 DEF Neighbors
<1> HIDE DEF start, n
<1>8. TreeFrom(start, root, within)
  BY <1>0, <1>2 DEF TreeFrom
<1> DEFINE P(t, j) ==
             /\ t \in SearchState /\ TreeFrom(t, root, within) /\ InLine(t, d)
             /\ Extends(start, t) /\ Expanded(t) = Expanded(start)
             /\ cap >= Cardinality(Node) =>
                  \A i \in 1 .. j : neighbors[u][i] \in within =>
                    neighbors[u][i] \in Reached(t) /\ t.depth[neighbors[u][i]] <= d + 1
           Good == {j \in 0 .. n : P(f[j], j)}
<1>9. 0 \in Good
  <2>1. Extends(start, start) /\ 1 .. 0 = {} /\ 0 \in 0 .. n
    BY <1>7 DEF Extends
  <2> QED
    BY <1>2, <1>4, <1>8, <2>1
<1>10. ASSUME NEW j \in 1 .. n, j - 1 \in Good PROVE j \in Good
  <2> DEFINE s0 == f[j - 1]
             v == neighbors[u][j]
             t == f[j]
  <2>1. P(s0, j - 1)
    BY <1>10
  <2>2. t = Take(s0, u, v, within, cap) /\ v \in Neighbors(u) /\ v \in Node
    BY <1>4, <1>7
  <2> HIDE DEF s0, v, t
  <2>3. u \in Reached(start) /\ u \in Expanded(start) /\ start.depth[u] = d
    BY <1>2
  <2>4. u \in Expanded(s0) /\ s0.depth[u] = d
    BY <2>1, <2>3 DEF Extends
  <2>5. /\ t \in SearchState /\ TreeFrom(t, root, within) /\ InLine(t, d)
        /\ Extends(s0, t) /\ Expanded(t) = Expanded(s0)
        /\ cap >= Cardinality(Node) /\ v \in within => v \in Reached(t) /\ t.depth[v] <= d + 1
    BY <2>1, <2>2, <2>4, TakeGrows
  <2>6. Extends(start, t)
    BY <2>1, <2>5 DEF Extends
  <2>7. ASSUME cap >= Cardinality(Node), NEW i \in 1 .. j, neighbors[u][i] \in within
        PROVE  neighbors[u][i] \in Reached(t) /\ t.depth[neighbors[u][i]] <= d + 1
    <3>1. CASE i = j
      BY <2>5, <2>7, <3>1 DEF v
    <3>2. CASE i # j
      <4>1. i \in 1 .. j - 1
        BY <1>7, <3>2
      <4>2. neighbors[u][i] \in Reached(s0) /\ s0.depth[neighbors[u][i]] <= d + 1
        BY <2>1, <2>7, <4>1
      <4> QED
        BY <2>5, <4>2 DEF Extends
    <3> QED
      BY <3>1, <3>2
  <2>8. P(t, j)
    BY <2>1, <2>5, <2>6, <2>7
  <2>9. j \in 0 .. n
    BY <1>7
  <2> QED
    BY <2>8, <2>9 DEF t
<1>11. \A j \in 1 .. n : j - 1 \in Good => j \in Good
  BY <1>10
<1>12. n \in Good
  <2> HIDE DEF Good
  <2>1. \A j \in 0 .. n : j \in Good
    BY <1>7, <1>9, <1>11, UpTo
  <2> QED
    BY <1>7, <2>1
<1> DEFINE t == f[n]
<1>13. P(t, n)
  BY <1>12
<1> HIDE DEF Good, t
<1>14. ASSUME cap >= Cardinality(Node), NEW w \in Expanded(t) PROVE Seen(t, w, within)
  <2>1. w \in Expanded(s) \/ w = u
    BY <1>2, <1>13
  <2>2. CASE w \in Expanded(s)
    <3>1. Seen(s, w, within) /\ w \in Reached(s)
      BY <1>0, <1>14, <2>2 DEF Expanded
    <3>2. \A x \in Reached(s) : x \in Reached(t) /\ t.depth[x] = s.depth[x]
      BY <1>2, <1>13 DEF Extends
    <3> QED
      BY <3>1, <3>2 DEF Seen
  <2>3. CASE w = u
    <3>1. t.depth[u] = d
      BY <1>2, <1>13 DEF Extends
    <3>2. \A v \in Neighbors(u) \cap within : v \in Reached(t) /\ t.depth[v] <= d + 1
      BY <1>7, <1>13, <1>14
    <3> QED
      BY <2>3, <3>1, <3>2 DEF Seen
  <2> QED
    BY <2>1, <2>2, <2>3
<1>15. Cardinality(Expanded(t)) >= k + 1
  <2>1. IsFiniteSet(Expanded(s)) /\ Cardinality(Expanded(s)) \in Nat
    <3>1. Expanded(s) \in SUBSET Reached(s) /\ IsFiniteSet(Reached(s))
      BY ReachedFinite DEF Expanded
    <3> QED
      BY <3>1, FS_Subset, FS_CardinalityType
  <2>2. Cardinality(Expanded(s) \cup {u}) = Cardinality(Expanded(s)) + 1
    BY <1>2, <2>1, FS_AddElement
  <2>3. Expanded(t) = Expanded(s) \cup {u}
    BY <1>2, <1>13
  <2> QED
    BY <1>0, <2>1, <2>2, <2>3
<1> QED
  BY <1>2, <1>5, <1>13, <1>14, <1>15 DEF SearchInv, t

\* A search grows a tree; with no cap in its way, one closed under the edges within.
LEMMA SearchFinds ==
  ASSUME ListsTyped, NEW within \in SUBSET Node, NEW root \in within, NEW cap \in Nat
  PROVE  LET s == Search(root, within, cap) IN
         /\ s \in SearchState /\ TreeFrom(s, root, within)
         /\ cap >= Cardinality(Node) => \A u \in Reached(s) : Seen(s, u, within)
<1> DEFINE n == Cardinality(Node)
           s0 == [queue |-> <<root>>, parent |-> [v \in Node |-> None],
                  depth |-> [v \in Node |-> IF v = root THEN 0 ELSE -1]]
<1>0. n \in Nat /\ root \in Node /\ None = -1 /\ n \in 0 .. n
  BY NodeAssumption, FS_CardinalityType DEF None
<1>1. PICK f : SearchesBy(f, root, within, cap)
  BY <1>0, SearchUnfolds
<1>2. /\ \A k \in 0 .. n : f[k] \in SearchState
      /\ f[0] = s0
      /\ \A k \in 1 .. n :
           f[k] = IF f[k - 1].queue = <<>> THEN f[k - 1] ELSE Expand(f[k - 1], within, cap)
      /\ Search(root, within, cap) = f[n]
  BY <1>1 DEF SearchesBy
<1>3. SearchInv(s0, root, within, cap, 0)
  <2>1. s0 \in SearchState
    BY <1>0, <1>2
  <2>2. s0.queue = <<root>> /\ s0.parent = [v \in Node |-> None]
        /\ s0.depth = [v \in Node |-> IF v = root THEN 0 ELSE -1]
    OBVIOUS
  <2> HIDE DEF s0
  <2>3. s0.depth[root] = 0 /\ \A v \in Node : s0.parent[v] = None /\ (v # root => s0.depth[v] = -1)
    BY <1>0, <2>2
  <2>4. Reached(s0) = {root}
    BY <1>0, <2>3 DEF Reached
  <2>5. Waiting(s0) = {root} /\ DOMAIN s0.queue = {1}
    BY <2>2 DEF Waiting
  <2>6. Cardinality(Reached(s0)) = 1
    BY <2>4, FS_Singleton
  <2>7. TreeFrom(s0, root, within)
    BY <1>0, <2>3, <2>4, <2>6 DEF TreeFrom
  <2>8. InLine(s0, 0)
    BY <2>3, <2>4, <2>5 DEF InLine
  <2>9. Expanded(s0) = {}
    BY <2>4, <2>5 DEF Expanded
  <2>10. Cardinality(Expanded(s0)) >= 0
    BY <2>9, FS_EmptySet
  <2> QED
    BY <2>1, <2>7, <2>8, <2>9, <2>10 DEF SearchInv
<1> HIDE DEF n, s0
<1> DEFINE Good == {k \in 0 .. n : SearchInv(f[k], root, within, cap, k)}
<1>4. 0 \in Good
  BY <1>0, <1>2, <1>3
<1>5. ASSUME NEW k \in 1 .. n, k - 1 \in Good PROVE k \in Good
  <2>1. SearchInv(f[k - 1], root, within, cap, k - 1) /\ k - 1 \in Nat /\ (k - 1) + 1 = k /\ k \in 0 .. n
    BY <1>0, <1>5
  <2>2. CASE f[k - 1].queue = <<>>
    <3>1. f[k] = f[k - 1]
      BY <1>2, <2>2
    <3>2. SearchInv(f[k], root, within, cap, k)
      BY <2>1, <2>2, <3>1 DEF SearchInv
    <3> QED
      BY <2>1, <3>2
  <2>3. CASE f[k - 1].queue # <<>>
    <3>1. f[k] = Expand(f[k - 1], within, cap)
      BY <1>2, <2>3
    <3>2. SearchInv(Expand(f[k - 1], within, cap), root, within, cap, (k - 1) + 1)
      BY <2>1, <2>3, ExpandGrows
    <3> QED
      BY <2>1, <3>1, <3>2
  <2> QED
    BY <2>2, <2>3
<1>6. \A k \in 1 .. n : k - 1 \in Good => k \in Good
  BY <1>5
<1>7. n \in Good
  <2> HIDE DEF Good
  <2>1. \A k \in 0 .. n : k \in Good
    BY <1>0, <1>4, <1>6, UpTo
  <2> QED
    BY <1>0, <2>1
<1> DEFINE s == f[n]
<1>8. SearchInv(s, root, within, cap, n)
  BY <1>7
<1> HIDE DEF Good, s
<1>9. s \in SearchState /\ TreeFrom(s, root, within)
      /\ (cap >= Cardinality(Node) => \A u \in Expanded(s) : Seen(s, u, within))
      /\ (s.queue # <<>> => Cardinality(Expanded(s)) >= n)
  BY <1>8 DEF SearchInv
<1>10. s.queue = <<>>
  <2>1. SUFFICES ASSUME s.queue # <<>> PROVE FALSE
    OBVIOUS
  <2>2. PICK d \in Nat : InLine(s, d)
    BY <1>8 DEF SearchInv
  <2>3. Head(s.queue) \in Reached(s) /\ Head(s.queue) \notin Expanded(s)
    BY <1>9, <2>1, <2>2, HeadLeaves
  <2>4. IsFiniteSet(Node) /\ Expanded(s) \in SUBSET Node
    BY NodeAssumption DEF Expanded, Reached
  <2>5. Cardinality(Expanded(s)) <= n /\ Cardinality(Expanded(s)) \in Nat
        /\ (Cardinality(Node) = Cardinality(Expanded(s)) => Expanded(s) = Node)
    BY <2>4, FS_Subset, FS_CardinalityType DEF n
  <2>6. Expanded(s) = Node
    BY <1>0, <1>9, <2>1, <2>5 DEF n
  <2> QED
    BY <2>3, <2>6 DEF Reached
<1>11. Expanded(s) = Reached(s)
  BY <1>10 DEF Expanded, Waiting
<1> QED
  BY <1>2, <1>9, <1>11 DEF s

\* The depth in such a tree is the distance within the nodes searched.
LEMMA DepthIsDistance ==
  ASSUME ListsTyped, NEW within \in SUBSET Node, NEW root \in within, NEW s \in SearchState,
         TreeFrom(s, root, within), \A u \in Reached(s) : Seen(s, u, within), NEW v \in Node
  PROVE  IF v \in Reached(s)
         THEN Distance(root, v, within) = s.depth[v] /\ s.depth[v] \in 0 .. Cardinality(Node) - 1
         ELSE Distance(root, v, within) = Cardinality(Node) /\ s.depth[v] = -1
<1> DEFINE c == Cardinality(Node)
           Near(d) == {w \in Reached(s) : s.depth[w] <= d}
<1>0. /\ c \in Nat /\ root \in Node /\ Cardinality(Reached(s)) \in Nat /\ Cardinality(Reached(s)) <= c
      /\ s.depth \in [Node -> Int]
  BY ReachedFinite DEF SearchState
<1>1. /\ Reached(s) \subseteq Node
      /\ \A w \in Reached(s) : s.depth[w] \in Nat /\ s.depth[w] < c
      /\ \A w \in Node \ Reached(s) : s.depth[w] = -1
  BY <1>0 DEF Reached, TreeFrom
<1>2. PICK ball : BallsOf(ball, root, within)
  BY <1>0, Balls DEF ListsTyped
<1>3. /\ ball \in [0 .. c -> SUBSET Node] /\ ball[0] = {root}
      /\ \A d \in 1 .. c :
           ball[d] = ball[d - 1] \cup (within \cap UNION {Neighbors(x) : x \in ball[d - 1]})
  BY <1>2 DEF BallsOf
<1> HIDE DEF c
<1> DEFINE Good == {d \in 0 .. c : ball[d] = Near(d)}
<1>4. 0 \in Good
  <2>1. \A w \in Reached(s) : s.depth[w] <= 0 => w = root
    <3>1. SUFFICES ASSUME NEW w \in Reached(s), s.depth[w] <= 0, w # root PROVE FALSE
      OBVIOUS
    <3>2. s.parent[w] \in Reached(s) /\ s.depth[w] = s.depth[s.parent[w]] + 1
      BY <3>1 DEF TreeFrom
    <3> QED
      BY <1>1, <3>1, <3>2
  <2>2. root \in Reached(s) /\ s.depth[root] = 0
    BY DEF TreeFrom
  <2> QED
    BY <1>0, <1>3, <2>1, <2>2
<1>5. ASSUME NEW d \in 1 .. c, d - 1 \in Good PROVE d \in Good
  <2>1. ball[d - 1] = Near(d - 1) /\ d \in Nat /\ d - 1 \in Nat /\ d \in 0 .. c
    BY <1>0, <1>5
  <2>2. ASSUME NEW w \in ball[d] PROVE w \in Near(d)
    <3>1. CASE w \in ball[d - 1]
      BY <1>1, <2>1, <3>1
    <3>2. CASE w \notin ball[d - 1]
      <4>1. PICK x \in ball[d - 1] : w \in Neighbors(x) /\ w \in within
        BY <1>3, <2>2, <3>2
      <4>2. x \in Reached(s) /\ s.depth[x] <= d - 1
        BY <2>1, <4>1
      <4>3. w \in Reached(s) /\ s.depth[w] <= s.depth[x] + 1
        BY <4>1, <4>2 DEF Seen
      <4> QED
        BY <1>1, <2>1, <4>2, <4>3
    <3> QED
      BY <3>1, <3>2
  <2>3. ASSUME NEW w \in Near(d) PROVE w \in ball[d]
    <3>1. w \in Reached(s) /\ s.depth[w] <= d /\ s.depth[w] \in Nat
      BY <1>1
    <3>2. CASE s.depth[w] <= d - 1
      BY <1>3, <2>1, <3>1, <3>2
    <3>3. CASE ~(s.depth[w] <= d - 1)
      <4>1. w # root
        BY <2>1, <3>3 DEF TreeFrom
      <4>2. /\ w \in within /\ s.parent[w] \in Reached(s) /\ w \in Neighbors(s.parent[w])
            /\ s.depth[w] = s.depth[s.parent[w]] + 1
        BY <3>1, <4>1 DEF TreeFrom
      <4>3. s.parent[w] \in ball[d - 1]
        BY <1>1, <2>1, <3>1, <4>2
      <4> QED
        BY <1>3, <4>2, <4>3
    <3> QED
      BY <3>2, <3>3
  <2> QED
    BY <2>1, <2>2, <2>3
<1>6. \A d \in 1 .. c : d - 1 \in Good => d \in Good
  BY <1>5
<1>7. \A d \in 0 .. c : d \in Good
  <2> HIDE DEF Good
  <2> QED
    BY <1>0, <1>4, <1>6, UpTo
<1>8. \A d \in 0 .. c - 1 : v \in ball[d] <=> v \in Reached(s) /\ s.depth[v] <= d
  <2>1. \A d \in 0 .. c - 1 : d \in 0 .. c
    BY <1>0
  <2> QED
    BY <1>7, <2>1
<1> DEFINE E == {e \in 0 .. c - 1 : v \in ball[e]}
<1>9. Distance(root, v, within) = IF E = {} THEN c ELSE CHOOSE e \in E : \A f \in E : e <= f
  BY <1>2 DEF BallsOf, c
<1>10. CASE v \in Reached(s)
  <2>1. s.depth[v] \in Nat /\ s.depth[v] \in 0 .. c - 1
    BY <1>0, <1>1, <1>10
  <2>2. s.depth[v] \in E /\ \A e \in E : e \in Nat /\ s.depth[v] <= e
    BY <1>8, <1>10, <2>1
  <2> HIDE DEF E
  <2>3. \A e \in E : (\A f \in E : e <= f) => e = s.depth[v]
    BY <2>1, <2>2
  <2>4. (CHOOSE e \in E : \A f \in E : e <= f) = s.depth[v]
    BY <2>2, <2>3
  <2>5. E # {}
    BY <2>2
  <2> QED
    BY <1>9, <1>10, <2>1, <2>4, <2>5 DEF c
<1>11. CASE v \notin Reached(s)
  <2>1. E = {}
    BY <1>8, <1>11
  <2> QED
    BY <1>1, <1>9, <1>11, <2>1 DEF c
<1> QED
  BY <1>10, <1>11

--------------------------------------------------------------------------------
\* Gamma's clusters.

\* A node that has no leader yet leads what it can grow.
Claimed(leader, i, k) ==
  LET free == {v \in Node : leader[v] = None}
      grown == Reached(Search(i, free, k))
  IN  IF i \notin free THEN leader ELSE [v \in Node |-> IF v \in grown THEN i ELSE leader[v]]

\* The nodes below i have leaders; a leader is the lowest of its cluster and leads
\* itself, and a tree inside the cluster reaches all of it.
Led(leader, i) ==
  /\ leader \in [Node -> Node \cup {None}]
  /\ \A v \in Node : v < i => leader[v] # None
  /\ \A v \in Node : leader[v] # None => leader[v] <= v /\ leader[leader[v]] = leader[v]
  /\ \A l \in Node : leader[l] = l =>
       \E s \in SearchState : Reached(s) = {u \in Node : leader[u] = l} /\ TreeFrom(s, l, Node)

\* One node more has a leader.
LEMMA ClaimLeads ==
  ASSUME ListsTyped, NEW k \in Nat, NEW i \in Node, NEW leader, Led(leader, i)
  PROVE  Led(Claimed(leader, i, k), i + 1)
<1> DEFINE free == {v \in Node : leader[v] = None}
           s == Search(i, free, k)
           next == Claimed(leader, i, k)
<1>0. i \in Nat /\ Node \subseteq Nat /\ None \notin Node /\ leader \in [Node -> Node \cup {None}]
  <2>1. Cardinality(Node) \in Nat /\ Node = 0 .. Cardinality(Node) - 1
    BY NodeAssumption, FS_CardinalityType
  <2>2. Node \subseteq Nat /\ -1 \notin Node
    BY <2>1
  <2> QED
    BY <2>2 DEF Led, None
<1>1. CASE i \notin free
  <2>1. next = leader /\ leader[i] # None
    BY <1>1 DEF Claimed
  <2>2. \A v \in Node : v < i + 1 => v < i \/ v = i
    BY <1>0
  <2>3. \A v \in Node : v < i + 1 => leader[v] # None
    BY <2>1, <2>2 DEF Led
  <2> QED
    BY <2>1, <2>3 DEF Led
<1>2. CASE i \in free
  <2>1. free \in SUBSET Node
    OBVIOUS
  <2>2. s \in SearchState /\ TreeFrom(s, i, free)
    BY <1>2, <2>1, SearchFinds
  <2>3. next = [v \in Node |-> IF v \in Reached(s) THEN i ELSE leader[v]]
    BY <1>2 DEF Claimed
  <2> HIDE DEF s, next
  <2>4. Reached(s) \subseteq free /\ i \in Reached(s)
    BY <1>2, <2>2 DEF TreeFrom
  <2>5. \A v \in Node : next[v] = IF v \in Reached(s) THEN i ELSE leader[v]
    BY <2>3
  <2>6. \A v \in free : v \in Node /\ leader[v] = None /\ i <= v
    BY <1>0 DEF Led
  <2>7. next \in [Node -> Node \cup {None}]
    BY <1>0, <2>3
  <2>8. \A v \in Node : v < i + 1 => next[v] # None
    <3>1. TAKE v \in Node
    <3>2. CASE v = i
      BY <1>0, <2>4, <2>5, <3>2
    <3>3. CASE v # i
      <4>1. v < i + 1 => v < i
        BY <1>0, <3>3
      <4> QED
        BY <1>0, <2>5, <4>1 DEF Led
    <3> QED
      BY <3>2, <3>3
  <2>9. ASSUME NEW v \in Node, next[v] # None PROVE next[v] <= v /\ next[next[v]] = next[v]
    <3>1. CASE v \in Reached(s)
      BY <2>4, <2>5, <2>6, <3>1
    <3>2. CASE v \notin Reached(s)
      <4>1. next[v] = leader[v] /\ leader[v] \in Node /\ leader[v] <= v /\ leader[leader[v]] = leader[v]
        BY <1>0, <2>5, <2>9, <3>2 DEF Led
      <4>2. leader[v] \notin Reached(s)
        BY <1>0, <2>4, <2>6, <4>1
      <4> QED
        BY <2>5, <4>1, <4>2
    <3> QED
      BY <3>1, <3>2
  <2>10. ASSUME NEW l \in Node, next[l] = l
         PROVE  \E t \in SearchState : Reached(t) = {u \in Node : next[u] = l} /\ TreeFrom(t, l, Node)
    <3>1. CASE l = i
      <4>1. \A u \in Node : leader[u] # i
        BY <1>0, <2>6, <1>2 DEF Led
      <4>2. Reached(s) = {u \in Node : next[u] = l}
        BY <2>4, <2>5, <2>6, <3>1, <4>1
      <4>3. TreeFrom(s, l, Node)
        BY <2>2, <3>1 DEF TreeFrom
      <4> QED
        BY <2>2, <4>2, <4>3
    <3>2. CASE l # i
      <4>1. leader[l] = l
        BY <2>5, <2>10, <3>2
      <4>2. \A u \in Node : next[u] = l <=> leader[u] = l
        BY <1>0, <2>4, <2>5, <2>6, <3>2
      <4>3. {u \in Node : next[u] = l} = {u \in Node : leader[u] = l}
        BY <4>2
      <4> QED
        BY <4>1, <4>3 DEF Led
    <3> QED
      BY <3>1, <3>2
  <2>11. Led(next, i + 1)
    BY <2>7, <2>8, <2>9, <2>10 DEF Led
  <2> QED
    BY <2>11 DEF next
<1> QED
  BY <1>1, <1>2

\* The partition leaves no node without a leader.
LEMMA PartitionLeads ==
  ASSUME ListsTyped, NEW k \in Nat
  PROVE  Led(ClusterLeaders(k), Cardinality(Node))
<1> DEFINE n == Cardinality(Node)
           S == [Node -> Node \cup {None}]
           start == [v \in Node |-> None]
           after[i \in 0 .. n] ==
             IF i = 0 THEN [v \in Node |-> None]
             ELSE LET leader == after[i - 1]
                      free == {v \in Node : leader[v] = None}
                      grown == Reached(Search(i - 1, free, k))
                  IN  IF i - 1 \notin free THEN leader
                      ELSE [v \in Node |-> IF v \in grown THEN i - 1 ELSE leader[v]]
<1>1. n \in Nat /\ Node = 0 .. n - 1 /\ n \in 0 .. n /\ None = -1
  BY NodeAssumption, FS_CardinalityType DEF None
<1>2. ClusterLeaders(k) = after[n]
  BY DEF ClusterLeaders
<1>3. PICK f : f = [i \in 0 .. n |-> IF i = 0 THEN start ELSE Claimed(f[i - 1], i - 1, k)]
  <2> DEFINE G == [i \in 1 .. n |-> [x \in S |-> Claimed(x, i - 1, k)]]
  <2>1. \A i \in 1 .. n, x \in S : Claimed(x, i - 1, k) \in S
    BY <1>1 DEF Claimed
  <2>2. G \in StepsOn(S, n) /\ start \in S
    BY <2>1 DEF StepsOn
  <2> HIDE DEF n, S, start
  <2>3. PICK f : Unfolds(f, S, start, n, G)
    <3> HIDE DEF G
    <3> QED
      BY <1>1, <2>2, Recursion
  <2>4. /\ f \in [0 .. n -> S] /\ f[0] = start
        /\ \A i \in 1 .. n : f[i] = G[i][f[i - 1]]
    BY <2>3 DEF Unfolds
  <2>5. \A i \in 1 .. n : i - 1 \in 0 .. n
    BY <1>1
  <2>6. \A i \in 1 .. n : \A x \in S : G[i][x] = Claimed(x, i - 1, k)
    OBVIOUS
  <2> HIDE DEF G
  <2>7. \A i \in 1 .. n : f[i] = Claimed(f[i - 1], i - 1, k)
    BY <2>4, <2>5, <2>6
  <2>8. /\ f \in [0 .. n -> S]
        /\ \A i \in 0 .. n : f[i] = IF i = 0 THEN start ELSE Claimed(f[i - 1], i - 1, k)
    BY <1>1, <2>4, <2>7
  <2>9. f = [i \in 0 .. n |-> IF i = 0 THEN start ELSE Claimed(f[i - 1], i - 1, k)]
    BY <2>8
  <2> QED
    BY <2>9
<1>4. after = [i \in 0 .. n |-> IF i = 0 THEN start ELSE Claimed(after[i - 1], i - 1, k)]
  BY <1>3 DEF Claimed
<1> DEFINE Good == {i \in 0 .. n : Led(after[i], i)}
<1> HIDE DEF after, n, start
<1>5. after[0] = start /\ \A i \in 1 .. n : after[i] = Claimed(after[i - 1], i - 1, k)
  BY <1>1, <1>4
<1>6. 0 \in Good
  <2>1. Led(start, 0)
    BY <1>1 DEF Led, start
  <2> QED
    BY <1>1, <1>5, <2>1
<1>7. ASSUME NEW i \in 1 .. n, i - 1 \in Good PROVE i \in Good
  <2>1. Led(after[i - 1], i - 1) /\ i - 1 \in Node /\ (i - 1) + 1 = i /\ i \in 0 .. n
    BY <1>1, <1>7
  <2>2. Led(Claimed(after[i - 1], i - 1, k), (i - 1) + 1)
    BY <2>1, ClaimLeads
  <2> QED
    BY <1>5, <2>1, <2>2
<1>8. \A i \in 1 .. n : i - 1 \in Good => i \in Good
  BY <1>7
<1>9. n \in Good
  <2> HIDE DEF Good
  <2>1. \A i \in 0 .. n : i \in Good
    BY <1>1, <1>6, <1>8, UpTo
  <2> QED
    BY <1>1, <2>1
<1> QED
  BY <1>2, <1>9 DEF n

\* The trees are built once: nodes of a tree below parents of the tree.
Wood ==
  /\ bfs_parent \in [Node -> Node \cup {None}] /\ depth \in [Node -> Node \cup {-1}]
  /\ cluster_leader \in [Node -> Node \cup {None}]
  /\ \A v \in Node : bfs_parent[v] # None =>
       InTree(v) /\ InTree(bfs_parent[v]) /\ depth[v] = depth[bfs_parent[v]] + 1

\* Edges join two different nodes, in both lists.
Edges ==
  /\ neighbors \in [Node -> Seq(Node)] /\ Symmetric
  /\ \A i \in Node : Neighbors(i) \subseteq Node \ {i}

\* Beta has one tree, of node 0.
OneTree ==
  /\ Wood
  /\ InTree(0) /\ bfs_parent[0] = None
  /\ \A v \in Node : InTree(v) /\ v # 0 => bfs_parent[v] # None

\* Gamma has a tree of each leader, and every node is in one.
Forest ==
  /\ Wood
  /\ \A v \in Node : InTree(v) /\ (v \in Leaders <=> bfs_parent[v] = None)
  /\ \A v \in Node : cluster_leader[v] \in Leaders

\* The lists of a graph join its nodes.
LEMMA GraphsHaveEdges ==
  ASSUME neighbors \in Graphs
  PROVE  Edges
<1>1. /\ neighbors \in [Node -> Seq(Node)]
      /\ \A i, j \in Node : (\E k \in DOMAIN neighbors[i] : neighbors[i][k] = j) =>
           i # j /\ (\E k \in DOMAIN neighbors[j] : neighbors[j][k] = i)
  BY SynchronizerAssumption
<1>2. \A i, j \in Node : j \in Neighbors(i) <=> \E k \in DOMAIN neighbors[i] : neighbors[i][k] = j
  BY DEF Neighbors
<1>3. \A i \in Node : Neighbors(i) \subseteq Node
  BY <1>1 DEF Neighbors
<1>4. \A i, j \in Node : j \in Neighbors(i) => i # j /\ i \in Neighbors(j)
  BY <1>1, <1>2
<1> QED
  BY <1>1, <1>3, <1>4 DEF Edges, Symmetric

\* The lists a network starts with.
LEMMA EdgesInitially ==
  ASSUME Init
  PROVE  Edges
BY GraphsHaveEdges DEF Init

\* Beta's tree spans what node 0 reaches, at the true distances.
LEMMA BetaSpans ==
  ASSUME Edges, BetaTrees, synchro_type = "BETA"
  PROVE  OneTree /\ TreesSpan
<1> DEFINE c == Cardinality(Node)
           s == Search(0, Node, c)
<1>0. c \in Nat /\ 0 \in Node /\ None = -1 /\ Node = 0 .. c - 1 /\ ListsTyped /\ Node \in SUBSET Node /\ c >= c
  BY NodeAssumption, FS_CardinalityType DEF None, Edges, ListsTyped
<1>1. s \in SearchState /\ TreeFrom(s, 0, Node) /\ \A u \in Reached(s) : Seen(s, u, Node)
  BY <1>0, SearchFinds
<1>2. bfs_parent = s.parent /\ depth = s.depth /\ cluster_leader = [i \in Node |-> None]
  BY DEF BetaTrees
<1> HIDE DEF s
<1>3. s.parent \in [Node -> Node \cup {None}] /\ s.depth \in [Node -> Int]
  BY <1>1 DEF SearchState
<1>4. \A v \in Node : IF v \in Reached(s)
                      THEN Distance(0, v, Node) = s.depth[v] /\ s.depth[v] \in 0 .. c - 1
                      ELSE Distance(0, v, Node) = c /\ s.depth[v] = -1
  BY <1>0, <1>1, DepthIsDistance
<1> HIDE DEF c
<1>5. \A v \in Node : InTree(v) <=> v \in Reached(s)
  BY <1>2 DEF InTree, Reached
<1>6. \A v \in Node : s.depth[v] \in Node \cup {-1}
  BY <1>0, <1>4
<1>7. depth \in [Node -> Node \cup {-1}] /\ bfs_parent \in [Node -> Node \cup {None}]
      /\ cluster_leader \in [Node -> Node \cup {None}]
  BY <1>2, <1>3, <1>6
<1>8. \A v \in Node : v \notin Reached(s) => bfs_parent[v] = None
  BY <1>1, <1>2, <1>4 DEF TreeFrom
<1>9. \A v \in Node : v # 0 /\ v \in Reached(s) =>
        /\ bfs_parent[v] \in Reached(s) /\ v \in Neighbors(bfs_parent[v])
        /\ depth[v] = depth[bfs_parent[v]] + 1
  BY <1>1, <1>2 DEF TreeFrom
<1>10. InTree(0) /\ bfs_parent[0] = None /\ depth[0] = 0
  BY <1>0, <1>1, <1>2, <1>5 DEF TreeFrom
<1>11. Reached(s) \subseteq Node /\ None \notin Node
  BY <1>0 DEF Reached
<1>12. Wood
  <2>1. ASSUME NEW v \in Node, bfs_parent[v] # None
        PROVE  InTree(v) /\ InTree(bfs_parent[v]) /\ depth[v] = depth[bfs_parent[v]] + 1
    <3>1. v \in Reached(s) /\ v # 0
      BY <1>8, <1>10, <2>1
    <3> QED
      BY <1>5, <1>9, <1>11, <3>1
  <2> QED
    BY <1>7, <2>1 DEF Wood
<1>13. OneTree
  BY <1>5, <1>9, <1>10, <1>11, <1>12 DEF OneTree
<1>14. \A v \in Node : depth[v] = IF Connected(0, v) THEN Distance(0, v, Node) ELSE -1
  <2>1. TAKE v \in Node
  <2>2. CASE v \in Reached(s)
    <3>1. Connected(0, v)
      BY <1>0, <1>4, <2>2 DEF Connected, c
    <3> QED
      BY <1>2, <1>4, <2>2, <3>1
  <2>3. CASE v \notin Reached(s)
    <3>1. ~Connected(0, v)
      BY <1>0, <1>4, <2>3 DEF Connected, c
    <3> QED
      BY <1>2, <1>4, <2>3, <3>1
  <2> QED
    BY <2>2, <2>3
<1>15. \A v \in Node : depth[v] > 0 => bfs_parent[v] \in Neighbors(v) /\ depth[bfs_parent[v]] = depth[v] - 1
  <2>1. SUFFICES ASSUME NEW v \in Node, depth[v] > 0
                 PROVE  bfs_parent[v] \in Neighbors(v) /\ depth[bfs_parent[v]] = depth[v] - 1
    OBVIOUS
  <2>2. v # 0 /\ v \in Reached(s)
    BY <1>2, <1>3, <1>10, <2>1 DEF Reached
  <2>3. bfs_parent[v] \in Node /\ v \in Neighbors(bfs_parent[v]) /\ depth[v] = depth[bfs_parent[v]] + 1
    BY <1>9, <1>11, <2>2
  <2>4. bfs_parent[v] \in Neighbors(v)
    BY <2>3 DEF Edges, Symmetric
  <2>5. depth[v] \in Int /\ depth[bfs_parent[v]] \in Int
    BY <1>2, <1>3, <2>3
  <2> QED
    BY <2>3, <2>4, <2>5
<1> QED
  BY <1>13, <1>14, <1>15 DEF TreesSpan

\* Gamma's clusters are led by their lowest node and spanned at their own distances.
LEMMA GammaSpans ==
  ASSUME Edges, NEW k \in Nat, GammaTrees(k), synchro_type = "GAMMA"
  PROVE  Forest /\ TreesSpan
<1> DEFINE c == Cardinality(Node)
           leader == ClusterLeaders(k)
           Cluster(l) == {v \in Node : leader[v] = l}
           s(l) == Search(l, Cluster(l), c)
           tree[i \in Node] == Search(i, {v \in Node : leader[v] = i}, c)
<1>0. c \in Nat /\ 0 \in Node /\ None = -1 /\ Node = 0 .. c - 1 /\ ListsTyped /\ c >= c /\ None \notin Node
  BY NodeAssumption, FS_CardinalityType DEF None, Edges, ListsTyped
<1>1. Led(leader, c)
  BY <1>0, PartitionLeads
<1>2. cluster_leader = leader
  BY DEF GammaTrees
<1>3. /\ bfs_parent = [v \in Node |-> tree[leader[v]].parent[v]]
      /\ depth = [v \in Node |-> tree[leader[v]].depth[v]]
  BY DEF GammaTrees
<1>4. \A l \in Node : tree[l] = s(l)
  OBVIOUS
<1> HIDE DEF tree, leader
<1>5. \A v \in Node : leader[v] \in Node /\ leader[v] <= v /\ leader[leader[v]] = leader[v]
  BY <1>0, <1>1 DEF Led
<1>6. ASSUME NEW l \in Node, leader[l] = l
      PROVE  /\ s(l) \in SearchState /\ TreeFrom(s(l), l, Cluster(l)) /\ Reached(s(l)) = Cluster(l)
             /\ \A v \in Cluster(l) :
                  Distance(l, v, Cluster(l)) = s(l).depth[v] /\ s(l).depth[v] \in 0 .. c - 1
  <2> DEFINE C == Cluster(l)
             t == s(l)
  <2>1. C \in SUBSET Node /\ l \in C
    BY <1>6
  <2> HIDE DEF C
  <2>2. t \in SearchState /\ TreeFrom(t, l, C) /\ \A u \in Reached(t) : Seen(t, u, C)
    BY <1>0, <2>1, SearchFinds DEF C
  <2> HIDE DEF t
  <2>3. Reached(t) \subseteq C
    BY <2>1, <2>2 DEF TreeFrom
  <2>4. PICK g \in SearchState : Reached(g) = C /\ TreeFrom(g, l, Node)
    BY <1>1, <1>6 DEF Led, C
  <2>5. C \subseteq Reached(t)
    <3> DEFINE Lost == {g.depth[v] : v \in C \ Reached(t)}
    <3>1. SUFFICES ASSUME C \ Reached(t) # {} PROVE FALSE
      OBVIOUS
    <3>2. \A v \in C : v \in Node /\ g.depth[v] \in Nat
      BY <2>4 DEF Reached, SearchState
    <3>3. Lost \subseteq Nat /\ Lost # {}
      BY <3>1, <3>2
    <3>4. PICK d \in Lost : \A e \in Lost : d <= e
      <4> HIDE DEF Lost
      <4> QED
        BY <3>3, LeastMember
    <3>5. PICK v \in C \ Reached(t) : g.depth[v] = d
      BY <3>4
    <3>6. v # l
      BY <2>2, <3>5 DEF TreeFrom
    <3>7. g.parent[v] \in C /\ v \in Neighbors(g.parent[v]) /\ g.depth[v] = g.depth[g.parent[v]] + 1
      BY <2>4, <3>5, <3>6 DEF TreeFrom
    <3>8. g.parent[v] \in Reached(t)
      <4>1. SUFFICES ASSUME g.parent[v] \notin Reached(t) PROVE FALSE
        OBVIOUS
      <4>2. g.depth[g.parent[v]] \in Lost /\ g.depth[g.parent[v]] \in Nat
        BY <3>2, <3>7, <4>1
      <4>3. d <= g.depth[g.parent[v]]
        BY <3>4, <4>2
      <4> QED
        BY <3>5, <3>7, <4>2, <4>3
    <3>9. v \in Reached(t)
      BY <2>2, <3>5, <3>7, <3>8 DEF Seen
    <3> QED
      BY <3>5, <3>9
  <2>6. Reached(t) = C
    BY <2>3, <2>5
  <2>7. \A v \in C : Distance(l, v, C) = t.depth[v] /\ t.depth[v] \in 0 .. c - 1
    BY <1>0, <2>1, <2>2, <2>6, DepthIsDistance
  <2> QED
    BY <2>2, <2>6, <2>7 DEF C, t
<1>7. ASSUME NEW v \in Node
      PROVE  LET l == leader[v] IN
             /\ l \in Node /\ leader[l] = l /\ v \in Cluster(l)
             /\ bfs_parent[v] = s(l).parent[v] /\ depth[v] = s(l).depth[v]
  BY <1>3, <1>4, <1>5
<1> HIDE DEF s
<1>8. ASSUME NEW v \in Node, NEW l \in Node, l = leader[v]
      PROVE  /\ depth[v] = Distance(l, v, Cluster(l)) /\ depth[v] \in 0 .. c - 1
             /\ bfs_parent[v] \in Node \cup {None}
             /\ v = l => bfs_parent[v] = None
             /\ v # l => bfs_parent[v] \in Cluster(l) /\ depth[v] = depth[bfs_parent[v]] + 1
  <2>1. /\ leader[l] = l /\ v \in Cluster(l)
        /\ bfs_parent[v] = s(l).parent[v] /\ depth[v] = s(l).depth[v]
    BY <1>7, <1>8
  <2>2. /\ s(l) \in SearchState /\ TreeFrom(s(l), l, Cluster(l)) /\ Reached(s(l)) = Cluster(l)
        /\ Distance(l, v, Cluster(l)) = s(l).depth[v] /\ s(l).depth[v] \in 0 .. c - 1
    BY <1>6, <2>1
  <2>3. bfs_parent[v] \in Node \cup {None}
    BY <2>1, <2>2 DEF SearchState
  <2>4. v = l => bfs_parent[v] = None
    BY <2>1, <2>2 DEF TreeFrom
  <2>5. ASSUME v # l PROVE bfs_parent[v] \in Cluster(l) /\ depth[v] = depth[bfs_parent[v]] + 1
    <3>1. s(l).parent[v] \in Cluster(l) /\ s(l).depth[v] = s(l).depth[s(l).parent[v]] + 1
      BY <2>1, <2>2, <2>5 DEF TreeFrom
    <3>2. depth[bfs_parent[v]] = s(l).depth[bfs_parent[v]]
      BY <1>7, <2>1, <3>1
    <3> QED
      BY <2>1, <3>1, <3>2
  <2> QED
    BY <2>1, <2>2, <2>3, <2>4, <2>5
<1>9. bfs_parent \in [Node -> Node \cup {None}] /\ depth \in [Node -> Node \cup {-1}]
      /\ cluster_leader \in [Node -> Node \cup {None}]
  <2>1. \A v \in Node : bfs_parent[v] \in Node \cup {None} /\ depth[v] \in Node /\ leader[v] \in Node
    BY <1>0, <1>5, <1>8
  <2>2. leader \in [Node -> Node \cup {None}]
    BY <1>1 DEF Led
  <2> QED
    BY <1>2, <1>3, <2>1, <2>2
<1>10. \A v \in Node : InTree(v)
  <2>1. \A v \in Node : depth[v] \in 0 .. c - 1
    BY <1>5, <1>8
  <2> QED
    BY <1>0, <2>1 DEF InTree
<1>11. \A v \in Node : v \in Leaders <=> leader[v] = v
  BY <1>2 DEF Leaders
<1>12. \A v \in Node : v \in Leaders <=> bfs_parent[v] = None
  <2>1. TAKE v \in Node
  <2>2. CASE leader[v] = v
    BY <1>8, <1>11, <2>2
  <2>3. CASE leader[v] # v
    <3>1. bfs_parent[v] \in Node
      BY <1>5, <1>8, <2>3
    <3> QED
      BY <1>0, <1>11, <2>3, <3>1
  <2> QED
    BY <2>2, <2>3
<1>13. Wood
  <2>1. ASSUME NEW v \in Node, bfs_parent[v] # None
        PROVE  InTree(v) /\ InTree(bfs_parent[v]) /\ depth[v] = depth[bfs_parent[v]] + 1
    <3>1. v # leader[v]
      BY <1>11, <1>12, <2>1
    <3>2. bfs_parent[v] \in Cluster(leader[v]) /\ depth[v] = depth[bfs_parent[v]] + 1
      BY <1>5, <1>8, <3>1
    <3> QED
      BY <1>10, <3>2
  <2> QED
    BY <1>9, <2>1 DEF Wood
<1>14. Forest
  BY <1>2, <1>5, <1>10, <1>11, <1>12, <1>13 DEF Forest
<1>15. ASSUME NEW v \in Node
       PROVE  LET cluster == {u \in Node : cluster_leader[u] = cluster_leader[v]}
              IN  /\ v \in Leaders <=> \A u \in cluster : v <= u
                  /\ depth[v] = Distance(cluster_leader[v], v, cluster)
                  /\ v \in Leaders <=> bfs_parent[v] = None
  <2> DEFINE l == leader[v]
  <2>1. {u \in Node : cluster_leader[u] = cluster_leader[v]} = Cluster(l)
    BY <1>2
  <2>2. l \in Node /\ l <= v /\ leader[l] = l /\ l \in Cluster(l)
    BY <1>5
  <2>3. depth[v] = Distance(l, v, Cluster(l))
    BY <1>8, <2>2
  <2>4. v \in Leaders => \A u \in Cluster(l) : v <= u
    BY <1>5, <1>11
  <2>5. (\A u \in Cluster(l) : v <= u) => v \in Leaders
    <3>1. SUFFICES ASSUME v <= l PROVE v \in Leaders
      BY <2>2
    <3>2. v = l
      BY <1>0, <2>2, <3>1
    <3> QED
      BY <1>11, <2>2, <3>2
  <2> QED
    BY <1>2, <1>12, <2>1, <2>3, <2>4, <2>5
<1>16. TreesSpan
  BY <1>15 DEF TreesSpan
<1> QED
  BY <1>14, <1>16

\* What the trees are does not change: nothing builds them again.
LEMMA SpanStays ==
  ASSUME UNCHANGED <<treeVars, neighbors, synchro_type>>, TreesSpan
  PROVE  TreesSpan'
<1>1. bfs_parent' = bfs_parent /\ depth' = depth /\ cluster_leader' = cluster_leader /\ neighbors' = neighbors
   /\ synchro_type' = synchro_type
  BY DEF treeVars
<1>2. ASSUME synchro_type = "BETA", NEW v \in Node
      PROVE  /\ depth'[v] = IF Connected(0, v)' THEN Distance(0, v, Node)' ELSE -1
             /\ depth'[v] > 0 => bfs_parent'[v] \in Neighbors(v)' /\ depth'[bfs_parent'[v]] = depth'[v] - 1
  <2>1. Distance(0, v, Node)' = Distance(0, v, Node) /\ Neighbors(v)' = Neighbors(v)
    BY <1>1, SMT DEF Distance, Neighbors
  <2>2. Connected(0, v)' <=> Connected(0, v)
    BY <2>1 DEF Connected
  <2> QED
    BY <1>1, <1>2, <2>1, <2>2 DEF TreesSpan
<1>3. ASSUME synchro_type = "GAMMA", NEW v \in Node
      PROVE  (LET cluster == {u \in Node : cluster_leader[u] = cluster_leader[v]}
              IN  /\ v \in Leaders <=> \A u \in cluster : v <= u
                  /\ depth[v] = Distance(cluster_leader[v], v, cluster)
                  /\ v \in Leaders <=> bfs_parent[v] = None)'
  <2>1. PICK cluster : cluster = {u \in Node : cluster_leader[u] = cluster_leader[v]}
    OBVIOUS
  <2>2. PICK l : l = cluster_leader[v]
    OBVIOUS
  <2>3. /\ v \in Leaders <=> \A u \in cluster : v <= u
        /\ depth[v] = Distance(l, v, cluster)
        /\ v \in Leaders <=> bfs_parent[v] = None
    BY <1>3, <2>1, <2>2 DEF TreesSpan
  <2>4. Distance(l, v, cluster)' = Distance(l, v, cluster)
    BY <1>1, SMT DEF Distance, Neighbors
  <2>5. Leaders' = Leaders
    BY <1>1 DEF Leaders
  <2>6. (l = cluster_leader[v])' /\ (cluster = {u \in Node : cluster_leader[u] = cluster_leader[v]})'
    BY <1>1, <2>1, <2>2
  <2>7. (/\ v \in Leaders <=> \A u \in cluster : v <= u
         /\ depth[v] = Distance(l, v, cluster)
         /\ v \in Leaders <=> bfs_parent[v] = None)'
    BY <1>1, <2>3, <2>4, <2>5
  <2> QED
    BY <2>6, <2>7
<1> QED
  BY <1>1, <1>2, <1>3 DEF TreesSpan

--------------------------------------------------------------------------------
\* The types of a network: what an execution sends.

\* The messages that an execution can send.
Postable == {m \in Message : m.round = current_round[m.sender] /\ m.sent_in = total_rounds_executed}

\* Finitely many messages are sent: one of a type for two nodes at most.
LEMMA PostableFinite ==
  ASSUME NEW sent \in SUBSET Postable
  PROVE  IsFiniteSet(sent) /\ Cardinality(sent) \in Nat
<1> DEFINE Types == {"SAFE", "ACK", "SAFE_SUBTREE", "NEXT_PULSE", "INTERCLUSTER"}
           Ways == Types \X (Node \X Node)
           f == [m \in Postable |-> <<m.type, <<m.sender, m.receiver>>>>]
<1>1. IsFiniteSet(Types)
  <2>1. IsFiniteSet({"SAFE"})
    BY FS_Singleton
  <2>2. IsFiniteSet({"SAFE"} \cup {"ACK"})
    BY <2>1, FS_AddElement
  <2>3. IsFiniteSet(({"SAFE"} \cup {"ACK"}) \cup {"SAFE_SUBTREE"})
    BY <2>2, FS_AddElement
  <2>4. IsFiniteSet((({"SAFE"} \cup {"ACK"}) \cup {"SAFE_SUBTREE"}) \cup {"NEXT_PULSE"})
    BY <2>3, FS_AddElement
  <2>5. IsFiniteSet(((({"SAFE"} \cup {"ACK"}) \cup {"SAFE_SUBTREE"}) \cup {"NEXT_PULSE"}) \cup {"INTERCLUSTER"})
    BY <2>4, FS_AddElement
  <2>6. Types = (((({"SAFE"} \cup {"ACK"}) \cup {"SAFE_SUBTREE"}) \cup {"NEXT_PULSE"}) \cup {"INTERCLUSTER"})
    OBVIOUS
  <2> QED
    BY <2>5, <2>6
<1>2. IsFiniteSet(Node)
  BY NodeAssumption
<1>3. IsFiniteSet(Node \X Node)
  BY <1>2, FS_Product
<1>4. IsFiniteSet(Ways)
  <2> HIDE DEF Types
  <2> QED
    BY <1>1, <1>3, FS_Product
<1>5. f \in Injection(Postable, Ways)
  <2>1. \A m \in Postable : m.type \in Types /\ m.sender \in Node /\ m.receiver \in Node
    BY DEF Postable, Message
  <2>2. f \in [Postable -> Ways]
    BY <2>1
  <2>3. ASSUME NEW m \in Postable, NEW n \in Postable, f[m] = f[n] PROVE m = n
    <3>1. m.type = n.type /\ m.sender = n.sender /\ m.receiver = n.receiver
      BY <2>3
    <3>2. m.round = n.round /\ m.sent_in = n.sent_in
      BY <3>1 DEF Postable
    <3>3. m \in Message /\ n \in Message
      BY DEF Postable
    <3> QED
      BY <3>1, <3>2, <3>3 DEF Message
  <2> HIDE DEF f, Ways
  <2> QED
    BY <2>2, <2>3 DEF Injection, IsInjective
<1> HIDE DEF f, Ways
<1>6. IsFiniteSet(Postable)
  BY <1>4, <1>5, FS_Injection
<1> QED
  BY <1>6, FS_Subset, FS_CardinalityType

\* What nodes send to nodes can be sent.
LEMMA MsgPostable ==
  ASSUME current_round \in [Node -> Nat], total_rounds_executed \in Nat,
         NEW type \in {"SAFE", "ACK", "SAFE_SUBTREE", "NEXT_PULSE", "INTERCLUSTER"},
         NEW i \in Node, NEW j \in Node
  PROVE  Msg(type, i, j) \in Postable
BY DEF Msg, Postable, Message

\* The end of an execution keeps the types, and the queues finite.
LEMMA FinishTyped ==
  ASSUME NetTypeOK, IsFiniteSet(incoming), NEW sent \in SUBSET Postable, NEW ready, NEW ran,
         NEW resting \in [Node -> {"UNSAFE", "SAFE", "WAITING", "CRASHED"}],
         FinishRound(sent, ready, resting, ran)
  PROVE  NetTypeOK' /\ IsFiniteSet(incoming')
<1>1. IsFiniteSet(sent) /\ Cardinality(sent) \in Nat /\ MaxExecutions \in Nat
  BY PostableFinite, NodeAssumption
<1>2. sent \subseteq Message
  BY DEF Postable
<1>3. /\ total_rounds_executed < MaxExecutions
      /\ total_rounds_executed' = total_rounds_executed + 1
      /\ total_messages_sent' = total_messages_sent + Cardinality(sent)
      /\ current_round' = [i \in Node |-> current_round[i] + IF i \in ready THEN 1 ELSE 0]
      /\ state' = [i \in Node |-> IF i \in ready THEN "UNSAFE" ELSE resting[i]]
      /\ incoming' \subseteq incoming \cup sent
      /\ completed' = [i \in Node |-> IF i \in ran THEN current_round[i] + 1 ELSE completed[i]]
  BY DEF FinishRound
<1>4. total_rounds_executed' \in 0 .. MaxExecutions /\ total_messages_sent' \in Nat
  BY <1>1, <1>3 DEF NetTypeOK
<1>5. current_round' \in [Node -> Nat] /\ completed' \in [Node -> Nat]
  BY <1>3 DEF NetTypeOK
<1>6. state' \in [Node -> {"UNSAFE", "SAFE", "WAITING", "CRASHED"}]
  BY <1>3
<1>7. incoming' \subseteq Message
  BY <1>2, <1>3 DEF NetTypeOK
<1>8. IsFiniteSet(incoming')
  BY <1>1, <1>3, FS_Union, FS_Subset
<1> QED
  BY <1>4, <1>5, <1>6, <1>7, <1>8 DEF NetTypeOK

\* Whom nodes send to: their neighbours, their parents and their children.
LEMMA SentPostable ==
  ASSUME NetTypeOK, Edges, Wood, NEW S \in SUBSET Node, NEW type \in {"SAFE", "ACK"}
  PROVE  /\ ToNeighbors(type, S) \subseteq Postable /\ ReportMessages(S) \subseteq Postable
         /\ PulseMessages(S) \subseteq Postable /\ InterclusterMessages(S) \subseteq Postable
<1>1. current_round \in [Node -> Nat] /\ total_rounds_executed \in Nat
  BY NodeAssumption DEF NetTypeOK
<1>2. \A i \in Node : Neighbors(i) \subseteq Node
  BY DEF Edges
<1>3. \A t \in {"SAFE", "ACK", "SAFE_SUBTREE", "NEXT_PULSE", "INTERCLUSTER"} : \A i, j \in Node :
        Msg(t, i, j) \in Postable
  BY <1>1, MsgPostable
<1>4. ToNeighbors(type, S) \subseteq Postable
  BY <1>2, <1>3 DEF ToNeighbors
<1>5. ReportMessages(S) \subseteq Postable
  <2>1. \A v \in S : bfs_parent[v] # None => bfs_parent[v] \in Node
    BY DEF Wood
  <2> QED
    BY <1>3, <2>1 DEF ReportMessages
<1>6. PulseMessages(S) \subseteq Postable
  BY <1>3 DEF PulseMessages, Children
<1>7. InterclusterMessages(S) \subseteq Postable
  BY <1>2, <1>3 DEF InterclusterMessages, InterclusterNeighbors
<1> QED
  BY <1>4, <1>5, <1>6, <1>7

\* Every step keeps the types, and the queues finite.
LEMMA StepTyped ==
  ASSUME TypeOK, IsFiniteSet(incoming), Edges, Wood, Next
  PROVE  TypeOK' /\ IsFiniteSet(incoming')
<1>1. UNCHANGED <<bfs_parent, depth, cluster_leader>>
  BY DEF Next, treeVars
<1>2. NetTypeOK /\ state \in [Node -> {"UNSAFE", "SAFE", "WAITING", "CRASHED"}]
  BY DEF TypeOK, NetTypeOK
<1>3. Reports \subseteq Node /\ \A S, R : Pulsed(S, R) \subseteq Node
  BY DEF Reports, Pulsed
<1>4. ASSUME NEW finished \in SUBSET Alive, AlphaExecuteRound(finished) PROVE NetTypeOK' /\ IsFiniteSet(incoming')
  <2> DEFINE st == AfterProtocol(finished)
             safes == SafeMessages(st)
             starting == StartWaiting(st, incoming \cup safes)
             acks == ToNeighbors("ACK", starting)
             waiting == starting \cup {i \in Node : st[i] = "WAITING"}
             resting == [i \in Node |-> IF i \in waiting THEN "WAITING" ELSE st[i]]
             ready == AlphaReady(waiting, incoming \cup acks)
  <2>1. st \in [Node -> {"UNSAFE", "SAFE", "WAITING", "CRASHED"}]
    BY <1>2 DEF AfterProtocol
  <2>2. resting \in [Node -> {"UNSAFE", "SAFE", "WAITING", "CRASHED"}]
    BY <2>1
  <2>3. starting \in SUBSET Node
    BY DEF StartWaiting
  <2>4. safes \subseteq Postable
    BY <1>2, SentPostable DEF SafeMessages
  <2>5. acks \subseteq Postable
    <3> HIDE DEF starting
    <3> QED
      BY <1>2, <2>3, SentPostable
  <2>6. FinishRound(safes \cup acks, ready, resting, finished)
    BY <1>4 DEF AlphaExecuteRound
  <2> HIDE DEF safes, acks, ready, resting
  <2>7. safes \cup acks \in SUBSET Postable
    BY <2>4, <2>5
  <2> QED
    BY <1>2, <2>2, <2>6, <2>7, FinishTyped
<1>5. ASSUME BetaExecuteRound PROVE NetTypeOK' /\ IsFiniteSet(incoming')
  <2> DEFINE pulsed == Pulsed(Reports, {v \in Reports : bfs_parent[v] = None})
             resting == [i \in Node |-> IF i \in Reports THEN "WAITING"
                                        ELSE IF i \in Alive THEN "SAFE" ELSE state[i]]
             sent == ReportMessages(Reports) \cup PulseMessages(pulsed)
  <2>1. resting \in [Node -> {"UNSAFE", "SAFE", "WAITING", "CRASHED"}]
    BY <1>2
  <2>2. pulsed \in SUBSET Node /\ Reports \in SUBSET Node
    BY <1>3
  <2>3. FinishRound(sent, pulsed, resting, Alive)
    BY <1>5 DEF BetaExecuteRound
  <2> HIDE DEF pulsed, resting
  <2>4. sent \in SUBSET Postable
    BY <1>2, <2>2, SentPostable
  <2> HIDE DEF sent
  <2> QED
    BY <1>2, <2>1, <2>3, <2>4, FinishTyped
<1>6. ASSUME GammaExecuteRound PROVE NetTypeOK' /\ IsFiniteSet(incoming')
  <2> DEFINE across == InterclusterMessages(Reports \cap Leaders)
             roots == StartPulse(Reports \cap Leaders, incoming \cup across)
             pulsed == Pulsed(Reports, roots)
             sent == ReportMessages(Reports) \cup across \cup PulseMessages(pulsed)
  <2>1. pulsed \in SUBSET Node /\ Reports \in SUBSET Node /\ Reports \cap Leaders \in SUBSET Node
    BY <1>3
  <2>2. FinishRound(sent, Alive, state, Alive)
    BY <1>6 DEF GammaExecuteRound
  <2> HIDE DEF pulsed
  <2>3. sent \in SUBSET Postable
    BY <1>2, <2>1, SentPostable
  <2> HIDE DEF sent
  <2> QED
    BY <1>2, <2>2, <2>3, FinishTyped
<1>7. ASSUME NEW i \in Node, Crash(i) PROVE NetTypeOK' /\ IsFiniteSet(incoming')
  BY <1>2, <1>7 DEF Crash, NetTypeOK
<1>8. NetTypeOK' /\ IsFiniteSet(incoming')
  BY <1>4, <1>5, <1>6, <1>7 DEF Next, ExecuteRound
<1> QED
  BY <1>1, <1>8 DEF TypeOK

--------------------------------------------------------------------------------
\* An execution without faults: every report and every pulse arrives.

\* A rule that asks for no more of a larger set has a set it agrees with.
LEMMA FixedPoint ==
  ASSUME NEW S, NEW G \in [SUBSET S -> SUBSET S],
         \A X, Y \in SUBSET S : X \subseteq Y => G[X] \subseteq G[Y]
  PROVE  \E X \in SUBSET S : G[X] = X
<1> DEFINE L == {w \in S : \A X \in SUBSET S : G[X] \subseteq X => w \in X}
<1>1. L \in SUBSET S /\ G[L] \in SUBSET S
  OBVIOUS
<1>2. \A X \in SUBSET S : G[X] \subseteq X => L \subseteq X
  OBVIOUS
<1>3. G[L] \subseteq L
  <2> SUFFICES ASSUME NEW X \in SUBSET S, G[X] \subseteq X PROVE G[L] \subseteq X
    BY <1>1
  <2>1. L \subseteq X
    BY <1>2
  <2> HIDE DEF L
  <2>2. G[L] \subseteq G[X]
    BY <1>1, <2>1
  <2> QED
    BY <2>2
<1> HIDE DEF L
<1>4. G[G[L]] \subseteq G[L]
  BY <1>1, <1>3
<1>5. L \subseteq G[L]
  BY <1>1, <1>2, <1>4
<1> QED
  BY <1>1, <1>3, <1>5

\* Who reports, as an equation: with more reports of its children a node has no
\* less reason to.
LEMMA ReportsRule ==
  ASSUME IsFiniteSet(incoming), NEW v \in Node
  PROVE  v \in Reports <=>
           /\ v \in Alive /\ InTree(v)
           /\ Cardinality(Delivered("SAFE_SUBTREE", v, incoming))
                + Cardinality({c \in Children(v) : c \in Reports /\ current_round[c] = current_round[v]})
              >= Cardinality(Children(v))
<1> DEFINE Told(w, X) == {c \in Children(w) : c \in X /\ current_round[c] = current_round[w]}
           ToldBy(w, f) == {c \in Children(w) : f[c] /\ current_round[c] = current_round[w]}
           Enough(w, told) == Cardinality(Delivered("SAFE_SUBTREE", w, incoming)) + Cardinality(told)
                                >= Cardinality(Children(w))
           Rule(w, told) ==
             /\ w \in Alive
             /\ InTree(w)
             /\ Enough(w, told)
           G == [X \in SUBSET Node |-> {w \in Node : Rule(w, Told(w, X))}]
           reports[w \in Node] ==
             /\ w \in Alive
             /\ InTree(w)
             /\ Cardinality(Delivered("SAFE_SUBTREE", w, incoming))
                  + Cardinality({c \in Children(w) : reports[c] /\ current_round[c] = current_round[w]})
                >= Cardinality(Children(w))
<1>1. \A w \in Node : Cardinality(Delivered("SAFE_SUBTREE", w, incoming)) \in Nat
  <2> TAKE w \in Node
  <2>1. Delivered("SAFE_SUBTREE", w, incoming) \in SUBSET incoming
    BY DEF Delivered
  <2> QED
    BY <2>1, FS_Subset, FS_CardinalityType
<1>2. \A w \in Node : \A X \in SUBSET Children(w) : IsFiniteSet(X) /\ Cardinality(X) \in Nat
  <2> TAKE w \in Node
  <2> TAKE X \in SUBSET Children(w)
  <2>1. IsFiniteSet(Node) /\ X \in SUBSET Node
    BY NodeAssumption DEF Children
  <2> QED
    BY <2>1, FS_Subset, FS_CardinalityType
<1>3. ASSUME NEW w \in Node, NEW X \in SUBSET Children(w), NEW Y \in SUBSET Children(w),
             X \subseteq Y, Enough(w, X)
      PROVE  Enough(w, Y)
  <2>1. Cardinality(X) <= Cardinality(Y)
    BY <1>2, <1>3, FS_Subset
  <2>2. Cardinality(X) \in Nat /\ Cardinality(Y) \in Nat /\ Cardinality(Children(w)) \in Nat
    BY <1>2
  <2> QED
    BY <1>1, <1>3, <2>1, <2>2
<1>4. ASSUME NEW X \in SUBSET Node, NEW Y \in SUBSET Node, X \subseteq Y
      PROVE  G[X] \subseteq G[Y]
  <2> SUFFICES ASSUME NEW w \in Node, Rule(w, Told(w, X)) PROVE Rule(w, Told(w, Y))
    BY <1>4
  <2>1. Told(w, X) \subseteq Told(w, Y) /\ Told(w, X) \in SUBSET Children(w) /\ Told(w, Y) \in SUBSET Children(w)
    BY <1>4
  <2> HIDE DEF Told, Enough
  <2> QED
    BY <1>3, <2>1
<1>5. PICK X \in SUBSET Node : G[X] = X
  <2>1. G \in [SUBSET Node -> SUBSET Node]
    OBVIOUS
  <2> HIDE DEF G
  <2> QED
    BY <1>4, <2>1, FixedPoint
<1>6. \A w \in Node : w \in X <=> Rule(w, Told(w, X))
  <2> HIDE DEF Rule, Told
  <2> QED
    BY <1>5
<1>7. \E f : f = [w \in Node |-> Rule(w, ToldBy(w, f))]
  <2> DEFINE f == [w \in Node |-> w \in X]
  <2>1. \A w \in Node : ToldBy(w, f) = Told(w, X)
    BY DEF Children
  <2> HIDE DEF Told
  <2>2. \A w \in Node : (w \in X) = Rule(w, Told(w, X))
    <3>1. \A w \in Node : (w \in X) \in BOOLEAN /\ Rule(w, Told(w, X)) \in BOOLEAN
      BY DEF InTree
    <3> HIDE DEF Rule
    <3> QED
      BY <1>6, <3>1
  <2>3. ASSUME NEW g, \A w \in Node : (w \in X) = Rule(w, ToldBy(w, g))
        PROVE  [w \in Node |-> w \in X] = [w \in Node |-> Rule(w, ToldBy(w, g))]
    <3> HIDE DEF Rule, ToldBy
    <3> QED
      BY <2>3
  <2>4. \A w \in Node : (w \in X) = Rule(w, ToldBy(w, f))
    <3> HIDE DEF Rule, ToldBy, f
    <3> QED
      BY <2>1, <2>2
  <2>5. f = [w \in Node |-> Rule(w, ToldBy(w, f))]
    BY <2>3, <2>4
  <2> QED
    BY <2>5
<1>8. reports = [w \in Node |-> Rule(w, ToldBy(w, reports))]
  BY <1>7
<1>9. Reports = {w \in Node : reports[w]}
  BY DEF Reports
<1> HIDE DEF reports
<1>10. \A w \in Node : reports[w] <=> Rule(w, ToldBy(w, reports))
  <2> HIDE DEF Rule, ToldBy
  <2> QED
    BY <1>8
<1>11. ToldBy(v, reports) = Told(v, Reports)
  BY <1>9 DEF Children
<1>12. v \in Reports <=> Rule(v, Told(v, Reports))
  <2> HIDE DEF Rule, ToldBy, Told
  <2> QED
    BY <1>9, <1>10, <1>11
<1> QED
  BY <1>12

\* No node is called None.
LEMMA NoneIsNoNode == None \notin Node
<1>1. Cardinality(Node) \in Nat /\ Node = 0 .. Cardinality(Node) - 1
  BY NodeAssumption, FS_CardinalityType
<1> QED
  BY <1>1 DEF None

Wooded == {v \in Node : InTree(v)}

\* Nobody has crashed, nothing is under way, and the trees are in one round.
Still(r) ==
  /\ Alive = Node /\ incoming = {}
  /\ \A v \in Wooded : current_round[v] = r

\* The convergecast: with its children in its round, every node of a tree reports.
LEMMA ReportsAll ==
  ASSUME Wood, NEW r, Still(r)
  PROVE  Reports = Wooded
<1> DEFINE Told(v) == {c \in Children(v) : c \in Reports /\ current_round[c] = current_round[v]}
<1>1. Alive = Node /\ incoming = {} /\ \A v \in Node : InTree(v) => current_round[v] = r
  BY DEF Still, Wooded
<1>2. IsFiniteSet(incoming)
  BY <1>1, FS_EmptySet
<1>3. Reports \subseteq Wooded
  <2>1. Reports \subseteq Node
    BY DEF Reports
  <2> QED
    BY <1>2, <2>1, ReportsRule DEF Wooded
<1>4. \A v \in Node : \A c \in Children(v) :
        /\ c \in Node /\ InTree(c) /\ depth[c] = depth[v] + 1 /\ current_round[c] = current_round[v]
  <2> TAKE v \in Node
  <2> TAKE c \in Children(v)
  <2>1. None \notin Node
    BY NoneIsNoNode
  <2>2. c \in Node /\ bfs_parent[c] = v /\ v # None
    BY <2>1 DEF Children
  <2>3. InTree(c) /\ InTree(v) /\ depth[c] = depth[v] + 1
    BY <2>2 DEF Wood
  <2> QED
    BY <1>1, <2>2, <2>3
<1>5. ASSUME NEW v \in Node, InTree(v), Children(v) \subseteq Reports
      PROVE  v \in Reports
  <2>1. {c \in Children(v) : c \in Reports /\ current_round[c] = current_round[v]} = Children(v)
    BY <1>4, <1>5
  <2>2. Delivered("SAFE_SUBTREE", v, incoming) = {}
    BY <1>1 DEF Delivered
  <2>3. IsFiniteSet(Node) /\ Children(v) \in SUBSET Node
    BY NodeAssumption DEF Children
  <2>4. Cardinality({}) = 0 /\ Cardinality(Children(v)) \in Nat
    BY <2>3, FS_EmptySet, FS_Subset, FS_CardinalityType
  <2> QED
    BY <1>1, <1>2, <1>5, <2>1, <2>2, <2>4, ReportsRule
<1> DEFINE Silent == Wooded \ Reports
           c == Cardinality(Node)
           Heights == {c - depth[w] : w \in Silent}
<1>6. SUFFICES ASSUME Silent # {} PROVE FALSE
  BY <1>3
<1>7. c \in Nat /\ Node = 0 .. c - 1
  BY NodeAssumption, FS_CardinalityType
<1>8. \A w \in Node : InTree(w) => depth[w] \in 0 .. c - 1
  BY <1>7 DEF Wood, InTree
<1> HIDE DEF c
<1>9. \A w \in Silent : w \in Node /\ InTree(w)
  BY DEF Wooded
<1>10. Heights \subseteq Nat /\ Heights # {}
  <2> HIDE DEF Silent
  <2> QED
    BY <1>6, <1>7, <1>8, <1>9
<1>11. PICK h \in Heights : \A x \in Heights : h <= x
  <2> HIDE DEF Heights
  <2> QED
    BY <1>10, LeastMember
<1>12. PICK w \in Silent : h = c - depth[w]
  BY <1>11
<1>13. PICK u \in Children(w) : u \notin Reports
  BY <1>5, <1>9, <1>12
<1>14. u \in Node /\ InTree(u) /\ depth[u] = depth[w] + 1
  BY <1>4, <1>9, <1>13
<1>15. c - depth[u] \in Heights
  BY <1>13, <1>14 DEF Wooded
<1>16. h <= c - depth[u] /\ depth[w] \in Nat
  BY <1>8, <1>9, <1>11, <1>15
<1> QED
  BY <1>7, <1>12, <1>14, <1>16

\* The broadcast: the pulses the roots start reach every node of a tree.
LEMMA PulsesAll ==
  ASSUME Wood, NEW r, Still(r), NEW roots, {v \in Wooded : bfs_parent[v] = None} \subseteq roots
  PROVE  Pulsed(Wooded, roots) = Wooded
<1> DEFINE P == Pulsed(Wooded, roots)
           Missed == Wooded \ P
           Depths == {depth[v] : v \in Missed}
<1>1. P \subseteq Wooded
  <2>1. \A v \in P : v \in Node
    BY DEF Pulsed
  <2> QED
    BY <2>1, PulsedRule DEF Wood
<1> HIDE DEF P
<1>2. SUFFICES ASSUME Missed # {} PROVE FALSE
  BY <1>1 DEF P
<1>3. \A v \in Missed : v \in Node /\ depth[v] \in Nat
  <2>1. \A v \in Node : depth[v] \in Node \cup {-1}
    BY DEF Wood
  <2>2. Cardinality(Node) \in Nat /\ Node = 0 .. Cardinality(Node) - 1
    BY NodeAssumption, FS_CardinalityType
  <2>3. \A x \in Node \cup {-1} : x >= 0 => x \in Nat
    BY <2>2
  <2>4. \A v \in Missed : v \in Node /\ depth[v] >= 0
    BY DEF Wooded, InTree
  <2> HIDE DEF Missed
  <2> QED
    BY <2>1, <2>3, <2>4
<1>4. Depths \subseteq Nat /\ Depths # {}
  BY <1>2, <1>3
<1>5. PICK d \in Depths : \A e \in Depths : d <= e
  <2> HIDE DEF Depths
  <2> QED
    BY <1>4, LeastMember
<1>6. PICK v \in Missed : depth[v] = d
  BY <1>5
<1>7. v \in Node /\ v \in Wooded /\ v \notin P
  BY <1>3, <1>6
<1>8. /\ bfs_parent[v] # None
      /\ ~(bfs_parent[v] \in P /\ current_round[bfs_parent[v]] = current_round[v])
  BY <1>7, PulsedRule DEF P, Wood
<1>9. bfs_parent[v] \in Node /\ InTree(bfs_parent[v]) /\ depth[v] = depth[bfs_parent[v]] + 1
  BY <1>7, <1>8 DEF Wood
<1>10. bfs_parent[v] \in Wooded /\ current_round[bfs_parent[v]] = current_round[v]
  BY <1>7, <1>9 DEF Wooded, Still
<1>11. bfs_parent[v] \in Missed
  BY <1>8, <1>10
<1>12. d <= depth[bfs_parent[v]] /\ depth[bfs_parent[v]] \in Nat
  BY <1>3, <1>5, <1>11
<1> QED
  BY <1>6, <1>9, <1>12

--------------------------------------------------------------------------------
\* What an execution without faults costs.

\* Two sets are of a size when a function pairs them off.
LEMMA PairedOff ==
  ASSUME NEW S, IsFiniteSet(S), NEW T, NEW f \in [S -> T],
         \A x, y \in S : f[x] = f[y] => x = y,
         \A t \in T : \E x \in S : f[x] = t
  PROVE  IsFiniteSet(T) /\ Cardinality(T) = Cardinality(S)
<1>1. f \in Surjection(S, T)
  BY DEF Surjection
<1>2. f \in Injection(S, T)
  BY DEF Injection, IsInjective
<1> QED
  BY <1>1, <1>2, FS_Surjection

\* One message up and one down each edge of a tree, so as many each way as it has
\* nodes without the root.
LEMMA TreeCost ==
  ASSUME Wood, NEW root \in Wooded, bfs_parent[root] = None,
         \A v \in Wooded \ {root} : bfs_parent[v] # None
  PROVE  LET sent == ReportMessages(Wooded) \cup PulseMessages(Wooded)
         IN  IsFiniteSet(sent) /\ Cardinality(sent) = 2 * (Cardinality(Wooded) - 1)
<1> DEFINE S == Wooded \ {root}
           up == ReportMessages(Wooded)
           down == PulseMessages(Wooded)
           f == [v \in S |-> Msg("SAFE_SUBTREE", v, bfs_parent[v])]
           g == [v \in S |-> Msg("NEXT_PULSE", bfs_parent[v], v)]
<1>1. IsFiniteSet(Wooded) /\ Cardinality(Wooded) \in Nat
  <2>1. IsFiniteSet(Node) /\ Wooded \in SUBSET Node
    BY NodeAssumption DEF Wooded
  <2> QED
    BY <2>1, FS_Subset, FS_CardinalityType
<1>2. IsFiniteSet(S) /\ Cardinality(S) = Cardinality(Wooded) - 1
  BY <1>1, FS_RemoveElement
<1>3. \A v \in S : v \in Node /\ bfs_parent[v] \in Wooded
  BY DEF Wood, Wooded
<1>4. \A v \in Wooded : bfs_parent[v] # None <=> v \in S
  OBVIOUS
<1>5. IsFiniteSet(up) /\ Cardinality(up) = Cardinality(S)
  <2>1. up = {Msg("SAFE_SUBTREE", v, bfs_parent[v]) : v \in S}
    <3>1. {u \in Wooded : bfs_parent[u] # None} = S
      BY <1>4
    <3> QED
      BY <3>1 DEF ReportMessages
  <2>2. f \in [S -> up] /\ \A t \in up : \E x \in S : f[x] = t
    BY <2>1
  <2>3. \A x, y \in S : f[x] = f[y] => x = y
    BY DEF Msg
  <2> HIDE DEF S, up, f
  <2> QED
    BY <1>2, <2>2, <2>3, PairedOff
<1>6. IsFiniteSet(down) /\ Cardinality(down) = Cardinality(S)
  <2>1. ASSUME NEW m \in down PROVE \E x \in S : g[x] = m
    <3>1. PICK p \in Wooded : \E c \in Children(p) : m = Msg("NEXT_PULSE", p, c)
      BY DEF PulseMessages
    <3> PICK c \in Children(p) : m = Msg("NEXT_PULSE", p, c)
      BY <3>1
    <3>2. c \in Node /\ bfs_parent[c] = p /\ p \in Node
      BY DEF Children, Wooded
    <3>3. p # None
      BY <3>2, NoneIsNoNode
    <3>4. c \in Wooded
      BY <3>2, <3>3 DEF Wood, Wooded
    <3>5. c \in S
      BY <1>4, <3>2, <3>3, <3>4
    <3> QED
      BY <3>2, <3>5
  <2>2. g \in [S -> down]
    <3>1. ASSUME NEW v \in S PROVE Msg("NEXT_PULSE", bfs_parent[v], v) \in down
      <4>1. bfs_parent[v] \in Wooded /\ v \in Children(bfs_parent[v])
        BY <1>3 DEF Children
      <4> QED
        BY <4>1 DEF PulseMessages
    <3> HIDE DEF down, S
    <3> QED
      BY <3>1
  <2>3. \A x, y \in S : g[x] = g[y] => x = y
    BY DEF Msg
  <2> HIDE DEF S, down, g
  <2> QED
    BY <1>2, <2>1, <2>2, <2>3, PairedOff
<1>7. up \cap down = {}
  <2>1. \A m \in up : m.type = "SAFE_SUBTREE"
    BY DEF ReportMessages, Msg
  <2>2. \A m \in down : m.type = "NEXT_PULSE"
    BY DEF PulseMessages, Msg
  <2> QED
    BY <2>1, <2>2
<1> HIDE DEF up, down
<1>8. Cardinality(up \cap down) = 0
  BY <1>7, FS_EmptySet
<1>9. IsFiniteSet(up \cup down) /\ Cardinality(up \cup down) = Cardinality(up) + Cardinality(down) - 0
  BY <1>5, <1>6, <1>8, FS_Union
<1>10. Cardinality(up \cup down) = 2 * (Cardinality(Wooded) - 1)
  BY <1>1, <1>2, <1>5, <1>6, <1>9
<1> QED
  BY <1>9, <1>10 DEF up, down

\* With every node a leader, a message each way over every edge.
LEMMA EdgesCost ==
  ASSUME Edges, Leaders = Node
  PROVE  LET E == {e \in Node \X Node : e[2] \in Neighbors(e[1])}
         IN  /\ IsFiniteSet(InterclusterMessages(Node))
             /\ Cardinality(InterclusterMessages(Node)) = Cardinality(E)
<1> DEFINE E == {e \in Node \X Node : e[2] \in Neighbors(e[1])}
           f == [e \in E |-> Msg("INTERCLUSTER", e[1], e[2])]
           M == InterclusterMessages(Node)
<1>1. IsFiniteSet(E)
  <2>1. IsFiniteSet(Node \X Node) /\ E \in SUBSET (Node \X Node)
    BY NodeAssumption, FS_Product
  <2> QED
    BY <2>1, FS_Subset
<1>2. \A i \in Node : InterclusterNeighbors(i) = Neighbors(i)
  <2> TAKE i \in Node
  <2>1. cluster_leader[i] = i
    BY DEF Leaders
  <2>2. \A j \in Neighbors(i) : j \in Node /\ j # i /\ cluster_leader[j] = j
    BY DEF Leaders, Edges
  <2> QED
    BY <2>1, <2>2 DEF InterclusterNeighbors
<1>3. \A i \in Node : Neighbors(i) \subseteq Node
  BY DEF Edges
<1>4. ASSUME NEW e \in E PROVE f[e] \in M
  <2>1. e[1] \in Node /\ e[2] \in InterclusterNeighbors(e[1])
    BY <1>2
  <2> QED
    BY <2>1 DEF InterclusterMessages
<1>5. ASSUME NEW m \in M PROVE \E e \in E : f[e] = m
  <2>1. PICK i \in Node : \E j \in InterclusterNeighbors(i) : m = Msg("INTERCLUSTER", i, j)
    BY DEF InterclusterMessages
  <2>2. PICK j \in InterclusterNeighbors(i) : m = Msg("INTERCLUSTER", i, j)
    BY <2>1
  <2>3. <<i, j>> \in E
    BY <1>2, <1>3
  <2> QED
    BY <2>2, <2>3
<1>6. ASSUME NEW d \in E, NEW e \in E, f[d] = f[e] PROVE d = e
  <2>1. d[1] = e[1] /\ d[2] = e[2]
    BY <1>6 DEF Msg
  <2> QED
    BY <2>1
<1>7. f \in [E -> M]
  <2> HIDE DEF M, E
  <2>1. \A e \in E : Msg("INTERCLUSTER", e[1], e[2]) \in M
    BY <1>4
  <2> QED
    BY <2>1
<1> HIDE DEF E, f, M
<1>8. IsFiniteSet(M) /\ Cardinality(M) = Cardinality(E)
  BY <1>1, <1>5, <1>6, <1>7, PairedOff
<1> QED
  BY <1>8 DEF M, E

\* An execution of beta while nobody has crashed moves the tree, for a message up
\* and one down each edge, and leaves nothing under way.
LEMMA BetaMoves ==
  ASSUME NetTypeOK, OneTree, NEW r, Still(r), BetaExecuteRound
  PROVE  /\ \A v \in Wooded : current_round'[v] = r + 1
         /\ total_messages_sent' = total_messages_sent + 2 * (Cardinality(Wooded) - 1)
         /\ incoming' = {}
<1> DEFINE pulsed == Pulsed(Reports, {v \in Reports : bfs_parent[v] = None})
           resting == [i \in Node |-> IF i \in Reports THEN "WAITING"
                                      ELSE IF i \in Alive THEN "SAFE" ELSE state[i]]
           sent == ReportMessages(Wooded) \cup PulseMessages(Wooded)
<1>1. Wood
  BY DEF OneTree
<1>2. Reports = Wooded
  BY <1>1, ReportsAll
<1>3. pulsed = Wooded
  BY <1>1, <1>2, PulsesAll
<1>4. FinishRound(ReportMessages(Reports) \cup PulseMessages(pulsed), pulsed, resting, Alive)
  BY DEF BetaExecuteRound
<1>5. FinishRound(sent, Wooded, resting, Alive)
  <2> HIDE DEF pulsed, resting
  <2> QED
    BY <1>2, <1>3, <1>4
<1> HIDE DEF sent, resting
<1>6. Cardinality(sent) = 2 * (Cardinality(Wooded) - 1)
  <2>1. 0 \in Wooded /\ bfs_parent[0] = None /\ \A v \in Wooded \ {0} : bfs_parent[v] # None
    BY NodeAssumption DEF OneTree, Wooded
  <2> QED
    BY <1>1, <2>1, TreeCost DEF sent
<1>7. \A v \in Wooded : v \in Node /\ current_round[v] = r /\ r \in Nat /\ current_round'[v] = r + 1
  <2>1. current_round' = [i \in Node |-> current_round[i] + IF i \in Wooded THEN 1 ELSE 0]
    BY <1>5 DEF FinishRound
  <2>2. \A v \in Wooded : v \in Node /\ current_round[v] = r
    BY DEF Still, Wooded
  <2> QED
    BY <2>1, <2>2 DEF NetTypeOK
<1>8. \A m \in sent : m.round = r /\ m.receiver \in Wooded
  <2>1. \A v \in Wooded : bfs_parent[v] # None => bfs_parent[v] \in Wooded
    BY <1>1 DEF Wood, Wooded
  <2>2. ASSUME NEW v \in Wooded, NEW c \in Children(v) PROVE c \in Wooded
    <3>1. c \in Node /\ bfs_parent[c] = v /\ v # None
      BY <1>7, NoneIsNoNode DEF Children
    <3> QED
      BY <1>1, <3>1 DEF Wood, Wooded
  <2>3. \A m \in ReportMessages(Wooded) : m.round = r /\ m.receiver \in Wooded
    BY <1>7, <2>1 DEF ReportMessages, Msg
  <2>4. \A m \in PulseMessages(Wooded) : m.round = r /\ m.receiver \in Wooded
    BY <1>7, <2>2 DEF PulseMessages, Msg
  <2> QED
    BY <2>3, <2>4 DEF sent
<1>9. incoming' = {}
  <2>1. incoming' = {m \in {} \cup sent : m.round >= current_round'[m.receiver]}
    BY <1>5 DEF FinishRound, Still
  <2>2. \A m \in sent : ~(m.round >= current_round'[m.receiver])
    BY <1>7, <1>8
  <2> QED
    BY <2>1, <2>2
<1>10. total_messages_sent' = total_messages_sent + Cardinality(sent)
  BY <1>5 DEF FinishRound
<1> QED
  BY <1>6, <1>7, <1>9, <1>10

\* An execution of gamma while nobody has crashed moves every node and leaves
\* nothing under way; at the two extremes it costs what alpha's edges and beta's
\* tree cost.
LEMMA GammaMoves ==
  ASSUME NetTypeOK, Edges, Forest, NEW r, Still(r), GammaExecuteRound
  PROVE  /\ \A v \in Wooded : current_round'[v] = r + 1
         /\ incoming' = {}
         /\ LET sent == total_messages_sent' - total_messages_sent
            IN  /\ Leaders = Node => sent = Cardinality({e \in Node \X Node : e[2] \in Neighbors(e[1])})
                /\ Cardinality(Leaders) = 1 => sent = 2 * (Cardinality(Node) - 1)
<1> DEFINE across == InterclusterMessages(Reports \cap Leaders)
           roots == StartPulse(Reports \cap Leaders, incoming \cup across)
           pulsed == Pulsed(Reports, roots)
           sent == ReportMessages(Reports) \cup across \cup PulseMessages(pulsed)
<1>1. Wood /\ Wooded = Node /\ Alive = Node /\ incoming = {}
  BY DEF Forest, Wooded, Still
<1>2. Reports = Node
  BY <1>1, ReportsAll
<1>3. pulsed \in SUBSET Node /\ Leaders \in SUBSET Node /\ Reports \cap Leaders = Leaders
  BY <1>2 DEF Pulsed, Leaders
<1>4. FinishRound(sent, Node, state, Node)
  BY <1>1 DEF GammaExecuteRound
<1>5. across = InterclusterMessages(Leaders)
  BY <1>3
<1> HIDE DEF across, roots
<1>6. sent \in SUBSET Postable
  <2> HIDE DEF pulsed
  <2> QED
    BY <1>1, <1>2, <1>3, <1>5, SentPostable
<1>7. \A v \in Node : current_round[v] = r /\ r \in Nat /\ current_round'[v] = r + 1
  <2>1. current_round' = [i \in Node |-> current_round[i] + IF i \in Node THEN 1 ELSE 0]
    BY <1>4 DEF FinishRound
  <2>2. \A v \in Node : current_round[v] = r
    BY <1>1 DEF Still
  <2> QED
    BY <2>1, <2>2 DEF NetTypeOK
<1>8. incoming' = {}
  <2> HIDE DEF sent
  <2>1. incoming' = {m \in {} \cup sent : m.round >= current_round'[m.receiver]}
    BY <1>1, <1>4 DEF FinishRound
  <2>2. \A m \in sent : m.round = r /\ m.receiver \in Node
    BY <1>6, <1>7 DEF Postable, Message
  <2>3. \A m \in sent : ~(m.round >= current_round'[m.receiver])
    BY <1>7, <2>2
  <2> QED
    BY <2>1, <2>3
<1>9. total_messages_sent' - total_messages_sent = Cardinality(sent)
  <2> HIDE DEF sent
  <2>1. total_messages_sent' = total_messages_sent + Cardinality(sent)
    BY <1>4 DEF FinishRound
  <2>2. Cardinality(sent) \in Nat /\ total_messages_sent \in Nat
    BY <1>6, PostableFinite DEF NetTypeOK
  <2> QED
    BY <2>1, <2>2
<1>10. ASSUME Leaders = Node
       PROVE  Cardinality(sent) = Cardinality({e \in Node \X Node : e[2] \in Neighbors(e[1])})
  <2>1. \A v \in Node : bfs_parent[v] = None
    BY <1>10 DEF Forest
  <2>2. ReportMessages(Reports) = {}
    BY <1>2, <2>1 DEF ReportMessages
  <2>3. PulseMessages(pulsed) = {}
    <3>1. \A p \in pulsed : p # None
      BY <1>3, NoneIsNoNode
    <3>2. \A p \in pulsed : Children(p) = {}
      BY <2>1, <3>1 DEF Children
    <3> HIDE DEF pulsed
    <3> QED
      BY <3>2 DEF PulseMessages
  <2>4. sent = InterclusterMessages(Node)
    <3> HIDE DEF pulsed
    <3> QED
      BY <1>5, <1>10, <2>2, <2>3
  <2> HIDE DEF sent
  <2> QED
    BY <1>10, <2>4, EdgesCost
<1>11. ASSUME Cardinality(Leaders) = 1
       PROVE  Cardinality(sent) = 2 * (Cardinality(Node) - 1)
  <2>1. IsFiniteSet(Leaders)
    BY <1>3, NodeAssumption, FS_Subset
  <2>2. PICK l : Leaders = {l}
    BY <1>11, <2>1, FS_Singleton
  <2>3. l \in Node /\ bfs_parent[l] = None /\ \A v \in Node \ {l} : bfs_parent[v] # None
    BY <1>3, <2>2 DEF Forest
  <2>4. \A i \in Node : InterclusterNeighbors(i) = {}
    <3>1. \A i \in Node : cluster_leader[i] = l
      BY <2>2 DEF Forest
    <3> QED
      BY <3>1 DEF InterclusterNeighbors, Edges
  <2>5. across = {}
    BY <1>3, <1>5, <2>4 DEF InterclusterMessages
  <2>6. l \in roots
    <3>1. Delivered("INTERCLUSTER", l, incoming \cup across) = {}
      BY <1>1, <2>5 DEF Delivered
    <3>2. Cardinality(InterclusterNeighbors(l)) = 0 /\ Cardinality({}) = 0
      BY <2>3, <2>4, FS_EmptySet
    <3> QED
      BY <1>3, <2>2, <3>1, <3>2 DEF StartPulse, roots
  <2>7. {v \in Wooded : bfs_parent[v] = None} \subseteq roots
    BY <1>1, <2>3, <2>6
  <2>8. pulsed = Node
    BY <1>1, <1>2, <2>7, PulsesAll
  <2>9. sent = ReportMessages(Wooded) \cup PulseMessages(Wooded)
    <3> HIDE DEF pulsed
    <3> QED
      BY <1>1, <1>2, <2>5, <2>8
  <2> HIDE DEF sent
  <2>10. l \in Wooded /\ \A v \in Wooded \ {l} : bfs_parent[v] # None
    BY <1>1, <2>3
  <2> QED
    BY <1>1, <2>3, <2>9, <2>10, TreeCost
<1> HIDE DEF sent
<1> QED
  BY <1>1, <1>7, <1>8, <1>9, <1>10, <1>11

--------------------------------------------------------------------------------
\* The trees carry the rounds.

\* No report and no pulse comes from a crashed node, so none comes back.
LEMMA CrashedStay ==
  ASSUME Alive # Node, IsFiniteSet(incoming), Wood, BetaExecuteRound \/ GammaExecuteRound
  PROVE  Alive' # Node
<1>1. PICK i \in Node : state[i] = "CRASHED"
  BY DEF Alive
<1>2. i \notin Alive
  BY <1>1 DEF Alive
<1>3. i \notin Reports
  BY <1>2, ReportsRule
<1>4. \A roots : i \notin Pulsed(Reports, roots)
  BY <1>3, PulsedRule DEF Wood
<1>5. state'[i] = "CRASHED"
  <2>1. CASE BetaExecuteRound
    <3>1. PICK pulsed : pulsed = Pulsed(Reports, {v \in Reports : bfs_parent[v] = None})
      OBVIOUS
    <3>2. state' = [j \in Node |-> IF j \in pulsed THEN "UNSAFE"
                                   ELSE [k \in Node |-> IF k \in Reports THEN "WAITING"
                                                        ELSE IF k \in Alive THEN "SAFE" ELSE state[k]][j]]
      BY <2>1, <3>1 DEF BetaExecuteRound, FinishRound
    <3> QED
      BY <1>1, <1>2, <1>3, <1>4, <3>1, <3>2
  <2>2. CASE GammaExecuteRound
    <3>1. state' = [j \in Node |-> IF j \in Alive THEN "UNSAFE" ELSE state[j]]
      BY <2>2 DEF GammaExecuteRound, FinishRound
    <3> QED
      BY <1>1, <1>2, <3>1
  <2> QED
    BY <2>1, <2>2
<1> QED
  BY <1>5 DEF Alive

\* The graph, and the trees and clusters built on it.
Grown ==
  /\ Edges /\ Wood /\ TreesSpan
  /\ synchro_type = "BETA" => OneTree
  /\ synchro_type = "GAMMA" => Forest

\* Nothing builds the trees again.
LEMMA GrownStays ==
  ASSUME Grown, UNCHANGED <<treeVars, neighbors, synchro_type>>
  PROVE  Grown' /\ Wooded' = Wooded /\ synchro_type' = synchro_type
<1>1. /\ bfs_parent' = bfs_parent /\ depth' = depth /\ cluster_leader' = cluster_leader
      /\ neighbors' = neighbors /\ synchro_type' = synchro_type
  BY DEF treeVars
<1>2. TreesSpan'
  BY SpanStays DEF Grown
<1>3. Edges' /\ Wood' /\ Wooded' = Wooded
  BY <1>1 DEF Grown, Edges, Symmetric, Neighbors, Wood, Wooded, InTree
<1>4. (synchro_type' = "BETA" => OneTree') /\ (synchro_type' = "GAMMA" => Forest')
  BY <1>1, <1>3 DEF Grown, OneTree, Forest, InTree, Leaders
<1> QED
  BY <1>1, <1>2, <1>3, <1>4 DEF Grown

\* Everything is typed, the trees are those that were built, and until a node
\* crashes their nodes are in one round, with nothing under way.
CarryInv ==
  /\ TypeOK /\ IsFiniteSet(incoming) /\ Grown
  /\ synchro_type # "ALPHA" /\ Alive = Node => \E r : Still(r)

\* The networks just initialised.
LEMMA CarryInitially ==
  ASSUME Init
  PROVE  CarryInv
<1>1. Edges
  BY EdgesInitially
<1>2. /\ incoming = {} /\ current_round = [i \in Node |-> 0] /\ state = [i \in Node |-> "UNSAFE"]
      /\ completed = [i \in Node |-> 0] /\ total_messages_sent = 0 /\ total_rounds_executed = 0
  BY DEF Init, NetInit
<1>3. NetTypeOK /\ IsFiniteSet(incoming) /\ Still(0)
  BY <1>2, NodeAssumption, FS_EmptySet DEF NetTypeOK, Still, Wooded, Alive
<1>4. /\ Wood /\ TreesSpan /\ (synchro_type = "BETA" => OneTree) /\ (synchro_type = "GAMMA" => Forest)
  <2>1. CASE synchro_type = "ALPHA" /\ NoTrees
    <3>1. Wood
      BY <2>1 DEF NoTrees, Wood, None
    <3> QED
      BY <2>1, <3>1 DEF TreesSpan
  <2>2. CASE synchro_type = "BETA" /\ BetaTrees
    BY <1>1, <2>2, BetaSpans DEF OneTree
  <2>3. CASE synchro_type = "GAMMA" /\ \E k \in ClusterSize : GammaTrees(k)
    <3>1. PICK k \in Nat : GammaTrees(k)
      BY <2>3, SynchronizerAssumption
    <3> QED
      BY <1>1, <2>3, <3>1, GammaSpans DEF Forest
  <2> QED
    BY <2>1, <2>2, <2>3 DEF Init
<1>5. TypeOK
  BY <1>3, <1>4 DEF TypeOK, Wood, None
<1> QED
  BY <1>1, <1>3, <1>4, <1>5 DEF CarryInv, Grown

\* Every step, with crashes.
LEMMA CarryKept ==
  ASSUME CarryInv, Next
  PROVE  CarryInv'
<1>1. TypeOK /\ NetTypeOK /\ IsFiniteSet(incoming) /\ Edges /\ Wood
  BY DEF CarryInv, Grown, TypeOK
<1>2. Grown' /\ Wooded' = Wooded /\ synchro_type' = synchro_type
  BY GrownStays DEF CarryInv, Next
<1>3. TypeOK' /\ IsFiniteSet(incoming')
  BY <1>1, StepTyped
<1>4. ASSUME synchro_type' # "ALPHA", Alive' = Node PROVE \E r : Still(r)'
  <2>1. ASSUME NEW i \in Node, Crash(i) PROVE FALSE
    <3>1. state'[i] = "CRASHED"
      BY <1>1, <2>1 DEF Crash, NetTypeOK
    <3> QED
      BY <1>4, <3>1 DEF Alive
  <2>2. \/ synchro_type = "BETA" /\ BetaExecuteRound
        \/ synchro_type = "GAMMA" /\ GammaExecuteRound
    BY <1>2, <1>4, <2>1 DEF Next, ExecuteRound
  <2>3. Alive = Node
    BY <1>1, <1>4, <2>2, CrashedStay
  <2>4. PICK r : Still(r)
    BY <1>2, <1>4, <2>3 DEF CarryInv
  <2>5. (\A v \in Wooded : current_round'[v] = r + 1) /\ incoming' = {}
    BY <1>1, <2>2, <2>4, BetaMoves, GammaMoves DEF CarryInv, Grown
  <2>6. PICK s : s = r + 1
    OBVIOUS
  <2>7. Still(s)'
    BY <1>2, <1>4, <2>5, <2>6 DEF Still
  <2> QED
    BY <2>7
<1> QED
  BY <1>2, <1>3, <1>4 DEF CarryInv

\* TreesCarryRounds, on every network: the trees span what they should, while
\* nobody has crashed an execution moves all of beta's tree for two messages an
\* edge, and gamma costs at its extremes what the others cost.
THEOREM TreesAlwaysCarryRounds == Spec => TreesCarryRounds
<1> DEFINE Beta == synchro_type = "BETA" /\ Alive = Node /\ BetaExecuteRound =>
                     /\ \A v \in Node : InTree(v) => current_round'[v] = current_round[v] + 1
                     /\ total_messages_sent' =
                          total_messages_sent + 2 * (Cardinality({v \in Node : InTree(v)}) - 1)
           Gamma == synchro_type = "GAMMA" /\ Alive = Node /\ GammaExecuteRound =>
                      LET sent == total_messages_sent' - total_messages_sent
                      IN  /\ Leaders = Node =>
                               sent = Cardinality({e \in Node \X Node : e[2] \in Neighbors(e[1])})
                          /\ Cardinality(Leaders) = 1 => sent = 2 * (Cardinality(Node) - 1)
<1>1. Init => CarryInv
  BY CarryInitially
<1>2. CarryInv /\ [Next]_vars => CarryInv'
  <2>1. CASE UNCHANGED vars
    <3>1. ASSUME CarryInv PROVE CarryInv'
      <4>1. Grown' /\ Wooded' = Wooded /\ synchro_type' = synchro_type
        BY <2>1, <3>1, GrownStays DEF CarryInv, vars
      <4>2. TypeOK' /\ IsFiniteSet(incoming')
        BY <2>1, <3>1 DEF CarryInv, TypeOK, NetTypeOK, vars, netVars, treeVars
      <4>3. ASSUME synchro_type' # "ALPHA", Alive' = Node PROVE \E r : Still(r)'
        <5>1. state' = state /\ incoming' = incoming /\ current_round' = current_round
          BY <2>1 DEF vars, netVars
        <5>2. PICK r : Still(r)
          BY <3>1, <4>1, <4>3, <5>1 DEF CarryInv, Alive
        <5>3. Still(r)'
          BY <4>1, <5>1, <5>2 DEF Still, Alive
        <5> QED
          BY <5>3
      <4> QED
        BY <4>1, <4>2, <4>3 DEF CarryInv
    <3> QED
      BY <3>1
  <2> QED
    BY <2>1, CarryKept
<1>3. CarryInv => TypeOK /\ TreesSpan
  BY DEF CarryInv, Grown
<1>4. CarryInv => Beta
  <2> SUFFICES ASSUME CarryInv, synchro_type = "BETA", Alive = Node, BetaExecuteRound
               PROVE  /\ \A v \in Wooded : current_round'[v] = current_round[v] + 1
                      /\ total_messages_sent' = total_messages_sent + 2 * (Cardinality(Wooded) - 1)
    BY DEF Wooded
  <2>1. PICK r : Still(r)
    BY DEF CarryInv
  <2>2. \A v \in Wooded : current_round[v] = r
    BY <2>1 DEF Still
  <2> QED
    BY <2>1, <2>2, BetaMoves DEF CarryInv, Grown, TypeOK
<1>5. CarryInv => Gamma
  <2>1. ASSUME CarryInv, synchro_type = "GAMMA", Alive = Node, GammaExecuteRound
        PROVE  LET sent == total_messages_sent' - total_messages_sent
               IN  /\ Leaders = Node =>
                        sent = Cardinality({e \in Node \X Node : e[2] \in Neighbors(e[1])})
                   /\ Cardinality(Leaders) = 1 => sent = 2 * (Cardinality(Node) - 1)
    <3>1. PICK r : Still(r)
      BY <2>1 DEF CarryInv
    <3> QED
      BY <2>1, <3>1, GammaMoves DEF CarryInv, Grown, TypeOK
  <2> QED
    BY <2>1
<1>6. CarryInv /\ [Next]_vars => [Beta]_vars /\ [Gamma]_vars
  BY <1>4, <1>5
<1> QED
  BY <1>1, <1>2, <1>3, <1>6, PTL DEF Spec, TreesCarryRounds, BetaLockStep, GammaExtremes

--------------------------------------------------------------------------------
\* The protocols: paths of rising identifiers.

\* The identifiers are the numbers below N.
LEMMA NodeNumbers == N \in Nat /\ N > 0 /\ Node = 0 .. N - 1
BY NodeAssumption, FS_CardinalityType DEF N

\* One edge further, to a higher identifier.
Climb(B) == UNION {{j \in Neighbors(i) : j > i} : i \in B}

RisingBy(f, S, d) ==
  /\ f \in [0 .. d -> SUBSET Node] /\ f[0] = S
  /\ \A k \in 1 .. d : f[k] = Climb(f[k - 1])
  /\ Rising(S, d) = f[d]

\* Rising climbs step by step.
LEMMA RisingUnfolds ==
  ASSUME ListsTyped, NEW S \in SUBSET Node, NEW d \in Nat
  PROVE  \E f : RisingBy(f, S, d)
<1> DEFINE nodes[k \in 0 .. d] ==
             IF k = 0 THEN S ELSE UNION {{j \in Neighbors(i) : j > i} : i \in nodes[k - 1]}
<1>1. Rising(S, d) = nodes[d]
  BY DEF Rising
<1>2. \A B \in SUBSET Node : Climb(B) \in SUBSET Node
  BY DEF Climb, Neighbors, ListsTyped
<1>3. PICK f \in [0 .. d -> SUBSET Node] :
        f = [k \in 0 .. d |-> IF k = 0 THEN S ELSE Climb(f[k - 1])]
  <2> DEFINE G == [k \in 1 .. d |-> [B \in SUBSET Node |-> Climb(B)]]
  <2>1. G \in StepsOn(SUBSET Node, d)
    BY <1>2 DEF StepsOn
  <2>2. PICK f : Unfolds(f, SUBSET Node, S, d, G)
    <3> HIDE DEF G
    <3> QED
      BY <2>1, Recursion
  <2>3. /\ f \in [0 .. d -> SUBSET Node] /\ f[0] = S
        /\ \A k \in 1 .. d : f[k] = G[k][f[k - 1]]
    BY <2>2 DEF Unfolds
  <2>4. \A k \in 1 .. d : k - 1 \in 0 .. d
    OBVIOUS
  <2>5. \A k \in 1 .. d : \A B \in SUBSET Node : G[k][B] = Climb(B)
    OBVIOUS
  <2> HIDE DEF G
  <2>6. \A k \in 1 .. d : f[k] = Climb(f[k - 1])
    BY <2>3, <2>4, <2>5
  <2>7. \A k \in 0 .. d : f[k] = IF k = 0 THEN S ELSE Climb(f[k - 1])
    BY <2>3, <2>6
  <2>8. f = [k \in 0 .. d |-> IF k = 0 THEN S ELSE Climb(f[k - 1])]
    BY <2>3, <2>7
  <2> QED
    BY <2>3, <2>8
<1>4. nodes = [k \in 0 .. d |-> IF k = 0 THEN S ELSE Climb(nodes[k - 1])]
  BY <1>3 DEF Climb
<1> HIDE DEF nodes
<1>5. nodes[0] = S /\ \A k \in 1 .. d : nodes[k] = Climb(nodes[k - 1])
  <2>1. \A k \in 0 .. d : nodes[k] = IF k = 0 THEN S ELSE Climb(nodes[k - 1])
    BY <1>4, Zenon
  <2>2. 0 \in 0 .. d /\ \A k \in 1 .. d : k \in 0 .. d /\ k # 0
    OBVIOUS
  <2> QED
    BY <2>1, <2>2
<1>6. nodes \in [0 .. d -> SUBSET Node]
  <2> DEFINE Good == {k \in 0 .. d : nodes[k] \in SUBSET Node}
  <2>1. 0 \in Good
    BY <1>5
  <2>2. \A k \in 1 .. d : k - 1 \in Good => k \in Good
    BY <1>2, <1>5
  <2> HIDE DEF Good
  <2>3. \A k \in 0 .. d : k \in Good
    BY <2>1, <2>2, UpTo
  <2>4. \A k \in 0 .. d : nodes[k] \in SUBSET Node
    BY <2>3 DEF Good
  <2>5. DOMAIN nodes = 0 .. d /\ nodes = [k \in DOMAIN nodes |-> nodes[k]]
    BY <1>4
  <2> QED
    BY <2>4, <2>5
<1>7. RisingBy(nodes, S, d)
  BY <1>1, <1>5, <1>6 DEF RisingBy
<1> QED
  BY <1>7

\* A path is one edge longer than the path to the node before its last.
LEMMA RisingRule ==
  ASSUME ListsTyped, NEW S \in SUBSET Node, NEW d \in Nat
  PROVE  /\ Rising(S, d) \subseteq Node
         /\ Rising(S, 0) = S
         /\ Rising(S, d + 1) = Climb(Rising(S, d))
<1>1. PICK f : RisingBy(f, S, d)
  BY RisingUnfolds
<1>2. PICK g : RisingBy(g, S, d + 1)
  BY RisingUnfolds
<1>3. PICK h : RisingBy(h, S, 0)
  BY RisingUnfolds
<1> DEFINE Good == {k \in 0 .. d : f[k] = g[k]}
<1>4. 0 \in Good
  BY <1>1, <1>2 DEF RisingBy
<1>5. \A k \in 1 .. d : k - 1 \in Good => k \in Good
  <2>1. \A k \in 1 .. d : k \in 1 .. d + 1
    OBVIOUS
  <2> QED
    BY <1>1, <1>2, <2>1 DEF RisingBy
<1> HIDE DEF Good
<1>6. \A k \in 0 .. d : k \in Good
  BY <1>4, <1>5, UpTo
<1>7. f[d] = g[d]
  BY <1>6 DEF Good
<1>8. d + 1 \in 1 .. d + 1 /\ (d + 1) - 1 = d /\ d \in 0 .. d
  OBVIOUS
<1>9. g[d + 1] = Climb(g[d])
  BY <1>2, <1>8 DEF RisingBy
<1> QED
  BY <1>1, <1>2, <1>3, <1>7, <1>8, <1>9 DEF RisingBy

\* A path with rising identifiers has at most as many edges as its last identifier,
\* so the lengths below N are all there are.
LEMMA RisingShort ==
  ASSUME ListsTyped, NEW S \in SUBSET Node, NEW d \in Nat, NEW v \in Rising(S, d)
  PROVE  d <= v /\ d \in 0 .. N - 1 /\ v \in Node
<1> DEFINE Good == {k \in 0 .. d : \A w \in Rising(S, k) : k <= w}
<1>1. N \in Nat /\ Node = 0 .. N - 1
  BY NodeNumbers
<1>2. 0 \in Good
  BY <1>1, RisingRule
<1>3. ASSUME NEW k \in 1 .. d, k - 1 \in Good PROVE k \in Good
  <2>1. k - 1 \in Nat /\ (k - 1) + 1 = k
    OBVIOUS
  <2>2. Rising(S, k) = Climb(Rising(S, k - 1)) /\ Rising(S, k - 1) \subseteq Node /\ Rising(S, k) \subseteq Node
    <3>1. PICK p \in Nat : p = k - 1 /\ k = p + 1 /\ k \in Nat
      BY <2>1
    <3>2. Rising(S, p + 1) = Climb(Rising(S, p)) /\ Rising(S, p) \subseteq Node /\ Rising(S, k) \subseteq Node
      BY <3>1, RisingRule
    <3> QED
      BY <3>1, <3>2
  <2>3. ASSUME NEW w \in Rising(S, k) PROVE k <= w
    <3>1. PICK u \in Rising(S, k - 1) : w > u
      BY <2>2 DEF Climb
    <3>2. k - 1 <= u /\ u \in Node /\ w \in Node
      BY <1>3, <2>2, <3>1
    <3> QED
      BY <1>1, <3>1, <3>2
  <2> QED
    BY <2>3
<1> HIDE DEF Good
<1>4. \A k \in 0 .. d : k \in Good
  BY <1>2, <1>3, UpTo
<1>5. d <= v /\ v \in Node
  BY <1>4, RisingRule DEF Good
<1> QED
  BY <1>1, <1>5

\* The paths depend on nothing but the graph.
LEMMA RisingStays ==
  ASSUME NEW S, NEW d, neighbors' = neighbors
  PROVE  Rising(S, d)' = Rising(S, d)
BY SMT DEF Rising, Neighbors

\* The nodes that such paths lead to, from one of S.
Flooded(S) == {v \in Node : \E d \in 0 .. N - 1 : v \in Rising(S, d)}

\* Flooded is closed under edges to higher identifiers, and nothing else is in it.
LEMMA FloodedRule ==
  ASSUME ListsTyped, NEW S \in SUBSET Node, NEW v \in Node
  PROVE  v \in Flooded(S) <=> v \in S \/ \E u \in Flooded(S) : v \in Neighbors(u) /\ u < v
<1>1. N \in Nat /\ N > 0
  BY NodeNumbers
<1>2. ASSUME v \in S PROVE v \in Flooded(S)
  <2>1. v \in Rising(S, 0) /\ 0 \in 0 .. N - 1
    BY <1>1, <1>2, RisingRule
  <2> QED
    BY <2>1 DEF Flooded
<1>3. ASSUME NEW u \in Flooded(S), v \in Neighbors(u), u < v PROVE v \in Flooded(S)
  <2>1. PICK d \in Nat : u \in Rising(S, d)
    BY <1>3 DEF Flooded
  <2>2. v \in Climb(Rising(S, d))
    BY <1>3, <2>1 DEF Climb
  <2>3. d + 1 \in Nat /\ v \in Rising(S, d + 1)
    BY <2>2, RisingRule
  <2> QED
    BY <2>3, RisingShort DEF Flooded
<1>4. ASSUME v \in Flooded(S), v \notin S
      PROVE  \E u \in Flooded(S) : v \in Neighbors(u) /\ u < v
  <2>1. PICK d \in Nat : v \in Rising(S, d)
    BY <1>4 DEF Flooded
  <2>2. d # 0
    BY <1>4, <2>1, RisingRule
  <2>3. PICK p \in Nat : d = p + 1
    <3>1. d - 1 \in Nat /\ d = (d - 1) + 1
      BY <2>2
    <3> QED
      BY <3>1
  <2>4. Rising(S, p + 1) = Climb(Rising(S, p))
    BY RisingRule
  <2>5. PICK u \in Rising(S, p) : v \in Neighbors(u) /\ v > u
    BY <2>1, <2>3, <2>4 DEF Climb
  <2>6. u \in Node /\ p \in 0 .. N - 1
    BY <2>5, RisingShort
  <2>7. u \in Flooded(S)
    BY <2>5, <2>6 DEF Flooded
  <2>8. u < v
    BY <2>5, <2>6, NodeNumbers
  <2> QED
    BY <2>5, <2>7, <2>8
<1> QED
  BY <1>2, <1>3, <1>4

\* The shortest path with rising identifiers from 0 to v has d edges.
Away(v, d) == v \in Rising({0}, d) /\ \A k \in 0 .. d - 1 : v \notin Rising({0}, k)

\* What is reached by some path is reached by a shortest one.
LEMMA AwaySome ==
  ASSUME NEW v, NEW d \in Nat, v \in Rising({0}, d)
  PROVE  \E k \in 0 .. d : Away(v, k)
<1> DEFINE T == {k \in 0 .. d : v \in Rising({0}, k)}
<1>1. T \subseteq Nat /\ d \in T
  OBVIOUS
<1> HIDE DEF T
<1>2. PICK k \in T : \A y \in T : k <= y
  BY <1>1, LeastMember
<1>3. k \in 0 .. d /\ v \in Rising({0}, k)
  BY DEF T
<1>4. \A j \in 0 .. k - 1 : j \notin T /\ j \in 0 .. d
  BY <1>2, <1>3
<1>5. Away(v, k)
  BY <1>3, <1>4 DEF Away, T
<1> QED
  BY <1>3, <1>5

\* Shortest paths have one length, and lead over shortest paths.
LEMMA AwayRule ==
  ASSUME ListsTyped, NEW v \in Node
  PROVE  /\ Away(v, 0) <=> v = 0
         /\ \A d, k \in Nat : Away(v, d) /\ Away(v, k) => d = k
         /\ \A d \in Nat : Away(v, d + 1) => \E u \in Node : Away(u, d) /\ v \in Neighbors(u) /\ u < v
         /\ \A d \in Nat : \A u \in Node :
              Away(u, d) /\ v \in Neighbors(u) /\ u < v => \E k \in 0 .. d + 1 : Away(v, k)
<1>0. {0} \in SUBSET Node
  BY NodeNumbers
<1>1. Away(v, 0) <=> v = 0
  <2>1. Rising({0}, 0) = {0} /\ 0 .. 0 - 1 = {}
    BY <1>0, RisingRule
  <2> QED
    BY <2>1 DEF Away
<1>2. ASSUME NEW d \in Nat, NEW k \in Nat, Away(v, d), Away(v, k) PROVE d = k
  <2>1. ~(k \in 0 .. d - 1) /\ ~(d \in 0 .. k - 1)
    BY <1>2 DEF Away
  <2> QED
    BY <2>1
<1>3. ASSUME NEW d \in Nat, Away(v, d + 1)
      PROVE  \E u \in Node : Away(u, d) /\ v \in Neighbors(u) /\ u < v
  <2>1. Rising({0}, d + 1) = Climb(Rising({0}, d)) /\ Rising({0}, d) \subseteq Node
    BY <1>0, RisingRule
  <2>2. PICK u \in Rising({0}, d) : v \in Neighbors(u) /\ v > u
    BY <1>3, <2>1 DEF Away, Climb
  <2>3. PICK k \in 0 .. d : Away(u, k)
    BY <2>2, AwaySome
  <2>4. k + 1 \in 0 .. d + 1 /\ k \in Nat
    OBVIOUS
  <2>5. v \in Rising({0}, k + 1)
    <3>1. u \in Rising({0}, k)
      BY <2>3 DEF Away
    <3>2. v \in Climb(Rising({0}, k))
      BY <2>2, <3>1 DEF Climb
    <3> QED
      BY <1>0, <2>4, <3>2, RisingRule
  <2>6. ~(k + 1 \in 0 .. (d + 1) - 1)
    BY <1>3, <2>5 DEF Away
  <2>7. k = d
    BY <2>4, <2>6
  <2>8. u \in Node /\ u < v
    BY <2>1, <2>2, NodeNumbers
  <2> QED
    BY <2>2, <2>3, <2>7, <2>8
<1>4. ASSUME NEW d \in Nat, NEW u \in Node, Away(u, d), v \in Neighbors(u), u < v
      PROVE  \E k \in 0 .. d + 1 : Away(v, k)
  <2>1. v > u
    BY <1>4, NodeNumbers
  <2>2. v \in Climb(Rising({0}, d))
    BY <1>4, <2>1 DEF Climb, Away
  <2>3. d + 1 \in Nat
    OBVIOUS
  <2>4. v \in Rising({0}, d + 1)
    BY <1>0, <2>2, RisingRule
  <2> QED
    BY <2>3, <2>4, AwaySome
<1> QED
  BY <1>1, <1>2, <1>3, <1>4

--------------------------------------------------------------------------------
\* Alpha's executions, as the protocols need them.

\* Every node is in its round with nothing under way.
Quiet == state = [i \in Node |-> "UNSAFE"] /\ incoming = {}

\* Nodes in one round whose protocols all return 0 leave it together.
LEMMA AllLeave ==
  ASSUME Edges, Quiet, NEW r \in Nat, current_round = [i \in Node |-> r], AlphaExecuteRound(Node)
  PROVE  current_round' = [i \in Node |-> r + 1] /\ Quiet'
<1> DEFINE st == AfterProtocol(Node)
           safes == SafeMessages(st)
           starting == StartWaiting(st, incoming \cup safes)
           acks == ToNeighbors("ACK", starting)
           waiting == starting \cup {i \in Node : st[i] = "WAITING"}
           resting == [i \in Node |-> IF i \in waiting THEN "WAITING" ELSE st[i]]
           ready == AlphaReady(waiting, incoming \cup acks)
<1>1. FinishRound(safes \cup acks, ready, resting, Node)
  BY DEF AlphaExecuteRound
<1>2. /\ \A i \in Node : current_round[i] = r /\ st[i] = "SAFE"
      /\ \A i \in Node : \A j \in Neighbors(i) : j \in Node /\ i \in Neighbors(j)
      /\ None \notin Node
  BY NoneIsNoNode DEF AfterProtocol, Edges, Symmetric
<1>3. \A i \in Node : Neighbors(i) \subseteq Heard("SAFE", i, incoming \cup safes)
  <2> TAKE i \in Node
  <2> SUFFICES ASSUME NEW j \in Neighbors(i) PROVE j \in Heard("SAFE", i, incoming \cup safes)
    OBVIOUS
  <2>1. Msg("SAFE", j, i) \in safes
    BY <1>2 DEF SafeMessages, ToNeighbors
  <2>2. /\ Msg("SAFE", j, i).type = "SAFE" /\ Msg("SAFE", j, i).receiver = i
        /\ Msg("SAFE", j, i).round = current_round[j] /\ Msg("SAFE", j, i).sender = j
    BY DEF Msg
  <2>3. current_round[j] = current_round[i]
    BY <1>2
  <2> HIDE DEF safes
  <2> QED
    BY <2>1, <2>2, <2>3 DEF Heard, Delivered
<1>4. \A i \in Node : Neighbors(i) # {} => i \in starting
  BY <1>2, <1>3 DEF StartWaiting
<1>5. \A i \in Node : Neighbors(i) \subseteq Heard("ACK", i, incoming \cup acks)
  <2> TAKE i \in Node
  <2> SUFFICES ASSUME NEW j \in Neighbors(i) PROVE j \in Heard("ACK", i, incoming \cup acks)
    OBVIOUS
  <2>0. j \in starting
    <3> HIDE DEF starting
    <3> QED
      BY <1>2, <1>4
  <2>1. Msg("ACK", j, i) \in acks
    <3> HIDE DEF starting
    <3> QED
      BY <1>2, <2>0 DEF ToNeighbors
  <2>2. /\ Msg("ACK", j, i).type = "ACK" /\ Msg("ACK", j, i).receiver = i
        /\ Msg("ACK", j, i).round = current_round[j] /\ Msg("ACK", j, i).sender = j
    BY DEF Msg
  <2>3. current_round[j] = current_round[i]
    BY <1>2
  <2> HIDE DEF acks
  <2> QED
    BY <2>1, <2>2, <2>3 DEF Heard, Delivered
<1>6. \A i \in Node : i \in ready
  <2> HIDE DEF starting, acks
  <2> QED
    BY <1>4, <1>5 DEF AlphaReady
<1>7. \A m \in safes \cup acks : m.round = r /\ m.receiver \in Node
  <2>1. starting \subseteq Node
    BY DEF StartWaiting
  <2> HIDE DEF starting
  <2>2. ASSUME NEW type, NEW senders \in SUBSET Node, NEW m \in ToNeighbors(type, senders)
        PROVE  m.round = r /\ m.receiver \in Node
    <3>1. PICK i \in senders : \E j \in Neighbors(i) : m = Msg(type, i, j)
      BY <2>2 DEF ToNeighbors
    <3>2. PICK j \in Neighbors(i) : m = Msg(type, i, j)
      BY <3>1
    <3>3. i \in Node /\ m.round = current_round[i] /\ m.receiver = j
      BY <3>2 DEF Msg
    <3> QED
      BY <1>2, <3>3
  <2>3. \A m \in safes : m.round = r /\ m.receiver \in Node
    <3>1. {i \in Node : st[i] = "SAFE"} \in SUBSET Node
      OBVIOUS
    <3> HIDE DEF st
    <3> QED
      BY <2>2, <3>1 DEF SafeMessages
  <2>4. \A m \in acks : m.round = r /\ m.receiver \in Node
    BY <2>1, <2>2
  <2> QED
    BY <2>3, <2>4
<1> HIDE DEF safes, acks, ready, resting
<1>8. /\ current_round' = [i \in Node |-> current_round[i] + IF i \in ready THEN 1 ELSE 0]
      /\ state' = [i \in Node |-> IF i \in ready THEN "UNSAFE" ELSE resting[i]]
      /\ incoming' = {m \in incoming \cup (safes \cup acks) : m.round >= current_round'[m.receiver]}
  BY <1>1 DEF FinishRound
<1>9. current_round' = [i \in Node |-> r + 1] /\ state' = [i \in Node |-> "UNSAFE"]
  BY <1>2, <1>6, <1>8
<1>10. incoming' = {}
  BY <1>7, <1>8, <1>9 DEF Quiet
<1> QED
  BY <1>9, <1>10 DEF Quiet

\* Nodes none of whose protocols returns 0 stay, except those without neighbours.
LEMMA NoneLeave ==
  ASSUME Edges, Quiet, current_round \in [Node -> Nat], AlphaExecuteRound({})
  PROVE  /\ Quiet'
         /\ current_round' = [i \in Node |-> current_round[i] + IF Neighbors(i) = {} THEN 1 ELSE 0]
<1> DEFINE st == AfterProtocol({})
           safes == SafeMessages(st)
           starting == StartWaiting(st, incoming \cup safes)
           acks == ToNeighbors("ACK", starting)
           waiting == starting \cup {i \in Node : st[i] = "WAITING"}
           resting == [i \in Node |-> IF i \in waiting THEN "WAITING" ELSE st[i]]
           ready == AlphaReady(waiting, incoming \cup acks)
<1>1. FinishRound(safes \cup acks, ready, resting, {})
  BY DEF AlphaExecuteRound
<1>2. st = [i \in Node |-> "UNSAFE"]
  BY DEF AfterProtocol, Quiet
<1> HIDE DEF st
<1>3. safes = {} /\ starting = {}
  BY <1>2 DEF SafeMessages, ToNeighbors, StartWaiting
<1> HIDE DEF safes, starting
<1>4. acks = {} /\ waiting = {}
  BY <1>2, <1>3 DEF ToNeighbors
<1>5. ready = {i \in Node : Neighbors(i) = {}} /\ resting = [i \in Node |-> "UNSAFE"]
  <2>1. resting = [i \in Node |-> "UNSAFE"]
    <3> HIDE DEF waiting
    <3> QED
      BY <1>2, <1>4
  <2> HIDE DEF waiting, acks
  <2> QED
    BY <1>4, <2>1 DEF AlphaReady
<1> HIDE DEF acks, ready, resting
<1>6. /\ current_round' = [i \in Node |-> current_round[i] + IF i \in ready THEN 1 ELSE 0]
      /\ state' = [i \in Node |-> IF i \in ready THEN "UNSAFE" ELSE resting[i]]
      /\ incoming' = {m \in incoming \cup (safes \cup acks) : m.round >= current_round'[m.receiver]}
  BY <1>1 DEF FinishRound
<1> QED
  BY <1>3, <1>4, <1>5, <1>6 DEF Quiet

\* Whatever is in the queues, a node that leaves its round saw each neighbour in it,
\* and no message is of a round its sender has not reached.
LEMMA LeavesNobodyBehind ==
  ASSUME Edges, current_round \in [Node -> Nat], NEW ran, AlphaExecuteRound(ran),
         \A m \in incoming : m.sender \in Node /\ m.round \in Nat /\ m.round <= current_round[m.sender]
  PROVE  /\ current_round' \in [Node -> Nat]
         /\ \A m \in incoming' : m.sender \in Node /\ m.round \in Nat /\ m.round <= current_round'[m.sender]
         /\ \A i \in Node : \/ current_round'[i] = current_round[i]
                            \/ /\ current_round'[i] = current_round[i] + 1
                               /\ \A j \in Neighbors(i) : current_round[j] >= current_round[i]
<1> DEFINE st == AfterProtocol(ran)
           safes == SafeMessages(st)
           starting == StartWaiting(st, incoming \cup safes)
           acks == ToNeighbors("ACK", starting)
           waiting == starting \cup {i \in Node : st[i] = "WAITING"}
           resting == [i \in Node |-> IF i \in waiting THEN "WAITING" ELSE st[i]]
           ready == AlphaReady(waiting, incoming \cup acks)
<1>1. FinishRound(safes \cup acks, ready, resting, ran)
  BY DEF AlphaExecuteRound
<1>2. \A m \in safes \cup acks : m.sender \in Node /\ m.round = current_round[m.sender]
  <2>1. starting \subseteq Node
    BY DEF StartWaiting
  <2> HIDE DEF starting
  <2>2. ASSUME NEW type, NEW senders \in SUBSET Node, NEW m \in ToNeighbors(type, senders)
        PROVE  m.sender \in Node /\ m.round = current_round[m.sender]
    <3>1. PICK i \in senders : \E j \in Neighbors(i) : m = Msg(type, i, j)
      BY <2>2 DEF ToNeighbors
    <3> QED
      BY <3>1 DEF Msg
  <2>3. \A m \in safes : m.sender \in Node /\ m.round = current_round[m.sender]
    <3>1. {i \in Node : st[i] = "SAFE"} \in SUBSET Node
      OBVIOUS
    <3> HIDE DEF st
    <3> QED
      BY <2>2, <3>1 DEF SafeMessages
  <2>4. \A m \in acks : m.sender \in Node /\ m.round = current_round[m.sender]
    BY <2>1, <2>2
  <2> QED
    BY <2>3, <2>4
<1> HIDE DEF safes, acks, resting, waiting
<1>3. \A m \in incoming \cup (safes \cup acks) :
        m.sender \in Node /\ m.round \in Nat /\ m.round <= current_round[m.sender]
  BY <1>2
<1>4. /\ current_round' = [i \in Node |-> current_round[i] + IF i \in ready THEN 1 ELSE 0]
      /\ incoming' = {m \in incoming \cup (safes \cup acks) : m.round >= current_round'[m.receiver]}
  BY <1>1 DEF FinishRound
<1>5. ASSUME NEW i \in Node, i \in ready, NEW j \in Neighbors(i)
      PROVE  current_round[j] >= current_round[i]
  <2>1. j \in Heard("ACK", i, incoming \cup acks)
    BY <1>5 DEF AlphaReady
  <2>2. PICK m \in incoming \cup acks : m.sender = j /\ m.round = current_round[i]
    BY <2>1 DEF Heard, Delivered
  <2>3. j \in Node /\ current_round[i] <= current_round[j]
    BY <1>3, <2>2
  <2> QED
    BY <2>3
<1> HIDE DEF ready
<1>6. \A i \in Node : /\ current_round'[i] \in Nat /\ current_round[i] \in Nat
                      /\ i \notin ready => current_round'[i] = current_round[i]
                      /\ i \in ready => current_round'[i] = current_round[i] + 1
  BY <1>4
<1>7. current_round' \in [Node -> Nat]
  BY <1>4
<1>8. \A m \in incoming' : m.sender \in Node /\ m.round \in Nat /\ m.round <= current_round'[m.sender]
  <2> TAKE m \in incoming'
  <2>1. m.sender \in Node /\ m.round \in Nat /\ m.round <= current_round[m.sender]
    BY <1>3, <1>4
  <2> QED
    BY <1>6, <2>1
<1> QED
  BY <1>5, <1>6, <1>7, <1>8

--------------------------------------------------------------------------------
\* The flood and the search: alpha moves all nodes together.

LockStep ==
  /\ Edges /\ Quiet /\ turn \in 0 .. N /\ total_rounds_executed \in Nat
  /\ current_round = [i \in Node |-> total_rounds_executed]
  /\ done = {i \in Node : i < turn}

\* A call of the protocol is the next node's.
LEMMA LockStepCalls ==
  ASSUME LockStep, protocol \in {"BFS", "FLOOD_SET"}, NEW i \in Node, Visit(i)
  PROVE  /\ LockStep' /\ turn = i /\ turn' = i + 1
         /\ total_rounds_executed' = total_rounds_executed /\ current_round[i] = total_rounds_executed
         /\ neighbors' = neighbors /\ \A j \in Node : Neighbors(j)' = Neighbors(j)
<1>1. /\ turn = i /\ turn' = i + 1 /\ incoming' = incoming /\ neighbors' = neighbors
      /\ total_rounds_executed' = total_rounds_executed /\ synchro_type' = synchro_type
      /\ done' = done \cup (IF Returns0(i) THEN {i} ELSE {})
  BY DEF Visit
<1>2. current_round' = current_round /\ state' = state
  BY DEF Visit, BfsRound, FloodSetRound
<1>3. Returns0(i)
  BY DEF Returns0
<1>4. N \in Nat /\ Node = 0 .. N - 1
  BY NodeNumbers
<1>5. done' = {j \in Node : j < turn'}
  BY <1>1, <1>3, <1>4 DEF LockStep
<1>6. turn' \in 0 .. N
  BY <1>1, <1>4
<1>7. Edges' /\ \A j \in Node : Neighbors(j)' = Neighbors(j)
  BY <1>1 DEF LockStep, Edges, Symmetric, Neighbors
<1> QED
  BY <1>1, <1>2, <1>5, <1>6, <1>7 DEF LockStep, Quiet

\* The end of an execution.
LEMMA LockStepEnds ==
  ASSUME LockStep, synchro_type = "ALPHA", Synchronize
  PROVE  /\ LockStep' /\ turn = N /\ turn' = 0
         /\ total_rounds_executed' = total_rounds_executed + 1
         /\ mail' = mail /\ UNCHANGED <<treeVars, neighbors, local_data, input>>
         /\ \A j \in Node : Neighbors(j)' = Neighbors(j)
<1>1. /\ turn = N /\ turn' = 0 /\ done' = {} /\ AlphaExecuteRound(done) /\ mail' = mail
      /\ UNCHANGED <<treeVars, neighbors, local_data, input>>
  BY DEF Synchronize
<1>2. N \in Nat /\ Node = 0 .. N - 1
  BY NodeNumbers
<1>3. done = Node
  <2>1. \A j \in Node : j < N
    BY <1>2
  <2>2. done = {j \in Node : j < N}
    BY <1>1 DEF LockStep
  <2> QED
    BY <2>1, <2>2
<1>4. PICK r \in Nat : r = total_rounds_executed
  BY DEF LockStep
<1>5. current_round' = [i \in Node |-> r + 1] /\ Quiet'
  BY <1>1, <1>3, <1>4, AllLeave DEF LockStep
<1>6. total_rounds_executed' = r + 1
  BY <1>1, <1>4 DEF AlphaExecuteRound, FinishRound
<1>7. Edges' /\ \A j \in Node : Neighbors(j)' = Neighbors(j)
  BY <1>1 DEF LockStep, Edges, Symmetric, Neighbors
<1>8. done' = {i \in Node : i < turn'} /\ turn' \in 0 .. N
  BY <1>1, <1>2
<1> QED
  BY <1>1, <1>4, <1>5, <1>6, <1>7, <1>8 DEF LockStep

\* A network whose rounds start at 0.
LEMMA LockStepBegins ==
  ASSUME ProtocolInit, protocol \in {"BFS", "FLOOD_SET", "LE_LANN"}
  PROVE  /\ LockStep /\ synchro_type = "ALPHA" /\ total_rounds_executed = 0 /\ turn = 0
         /\ mail = {} /\ input = local_data
<1>1. neighbors \in Graphs /\ NetInit /\ done = {} /\ turn = 0 /\ mail = {} /\ input = local_data
  BY DEF ProtocolInit
<1>2. synchro_type = "ALPHA"
  BY DEF ProtocolInit
<1>3. N \in Nat /\ Node = 0 .. N - 1
  BY NodeNumbers
<1>4. Edges
  BY <1>1, GraphsHaveEdges
<1>5. Quiet /\ total_rounds_executed = 0 /\ current_round = [i \in Node |-> 0]
  BY <1>1 DEF NetInit, Quiet
<1>6. done = {i \in Node : i < turn} /\ turn \in 0 .. N
  BY <1>1, <1>3
<1> QED
  BY <1>1, <1>2, <1>4, <1>5, <1>6 DEF LockStep

\* What every node sent to its neighbours in each call so far.
Heartbeats ==
  {m \in Mail : /\ m.receiver \in Neighbors(m.sender)
                /\ \/ m.round < total_rounds_executed
                   \/ m.round = total_rounds_executed /\ m.sender < turn}

\* After its first call a node holds a 1 if one floods to it.
FloodInv ==
  /\ LockStep /\ synchro_type = "ALPHA"
  /\ local_data \in [Node -> {0, 1}] /\ input \in [Node -> {0, 1}]
  /\ mail = Heartbeats
  /\ \A v \in Node :
       local_data[v] = 1 <=> IF total_rounds_executed > 0 \/ v < turn
                             THEN v \in Flooded({i \in Node : input[i] = 1}) ELSE input[v] = 1

\* A protocol that starts to flood.
LEMMA FloodBegins ==
  ASSUME ProtocolInit, protocol = "FLOOD_SET"
  PROVE  FloodInv
<1>1. /\ LockStep /\ synchro_type = "ALPHA" /\ total_rounds_executed = 0 /\ turn = 0
      /\ mail = {} /\ input = local_data
  BY LockStepBegins
<1>2. local_data \in [Node -> {0, 1}]
  BY DEF ProtocolInit, Data
<1>3. Node = 0 .. N - 1 /\ N \in Nat
  BY NodeNumbers
<1>4. Heartbeats = {}
  BY <1>1, <1>3 DEF Heartbeats, Mail
<1> QED
  BY <1>1, <1>2, <1>3, <1>4 DEF FloodInv

\* One call: it sees the neighbours called before it in this execution.
LEMMA FloodCalls ==
  ASSUME FloodInv, protocol = "FLOOD_SET", NEW i \in Node, Visit(i)
  PROVE  FloodInv'
<1> DEFINE S == {w \in Node : input[w] = 1}
           e == total_rounds_executed
<1>1. /\ LockStep' /\ turn = i /\ turn' = i + 1 /\ total_rounds_executed' = e
      /\ current_round[i] = e /\ neighbors' = neighbors /\ \A j \in Node : Neighbors(j)' = Neighbors(j)
  BY LockStepCalls DEF FloodInv
<1>2. FloodSetRound(i) /\ synchro_type' = synchro_type /\ input' = input
  BY DEF Visit
<1>3. /\ N \in Nat /\ Node = 0 .. N - 1 /\ e \in Nat
      /\ \A j \in Node : Neighbors(j) \subseteq Node \ {j}
      /\ \A j, k \in Node : k \in Neighbors(j) => j \in Neighbors(k)
      /\ ListsTyped /\ S \in SUBSET Node
  BY NodeNumbers DEF FloodInv, LockStep, Edges, Symmetric, ListsTyped
<1>4. mail' = Heartbeats'
  <2>1. mail' = mail \cup {[sender |-> i, receiver |-> j, round |-> e] : j \in Neighbors(i)}
    BY <1>1, <1>2 DEF FloodSetRound, SendTo
  <2>2. Heartbeats' = {m \in Mail : /\ m.receiver \in Neighbors(m.sender)
                                    /\ m.round < e \/ (m.round = e /\ m.sender < i + 1)}
    BY <1>1 DEF Heartbeats, Mail
  <2>3. mail = {m \in Mail : /\ m.receiver \in Neighbors(m.sender)
                             /\ m.round < e \/ (m.round = e /\ m.sender < i)}
    BY <1>1 DEF FloodInv, Heartbeats
  <2>4. ASSUME NEW m \in mail' PROVE m \in Heartbeats'
    <3>1. CASE m \in mail
      BY <1>3, <2>2, <2>3, <3>1 DEF Mail
    <3>2. CASE \E j \in Neighbors(i) : m = [sender |-> i, receiver |-> j, round |-> e]
      BY <1>3, <2>2, <3>2 DEF Mail
    <3> QED
      BY <2>1, <2>4, <3>1, <3>2
  <2>5. ASSUME NEW m \in Heartbeats' PROVE m \in mail'
    <3>1. m \in Mail /\ m.receiver \in Neighbors(m.sender) /\ m.sender \in Node /\ m.round \in Nat
      BY <2>2, <2>5 DEF Mail
    <3>2. CASE m.round < e \/ m.sender < i
      BY <2>1, <2>2, <2>3, <2>5, <3>1, <3>2
    <3>3. CASE ~(m.round < e \/ m.sender < i)
      <4>1. m.round = e /\ m.sender = i
        BY <1>3, <2>2, <2>5, <3>1, <3>3
      <4>2. m = [sender |-> i, receiver |-> m.receiver, round |-> e]
        BY <3>1, <4>1 DEF Mail
      <4> QED
        BY <2>1, <3>1, <4>1, <4>2
    <3> QED
      BY <3>2, <3>3
  <2> QED
    BY <2>4, <2>5
<1>5. \A m \in mail : m.receiver = i /\ m.round = current_round[i] =>
        m.sender \in Node /\ m.sender < i /\ i \in Neighbors(m.sender)
  BY <1>1, <1>3 DEF FloodInv, Heartbeats, Mail
<1>6. \A u \in Node : u < i /\ i \in Neighbors(u) =>
        \E m \in ThisRound(i) : m.sender = u
  <2> SUFFICES ASSUME NEW u \in Node, u < i, i \in Neighbors(u)
               PROVE  [sender |-> u, receiver |-> i, round |-> e] \in ThisRound(i)
    OBVIOUS
  <2>1. [sender |-> u, receiver |-> i, round |-> e] \in Mail
    BY <1>3 DEF Mail
  <2> QED
    BY <1>1, <2>1 DEF FloodInv, Heartbeats, ThisRound, From
<1>7. (\E m \in ThisRound(i) : local_data[m.sender] = 1)
        <=> \E u \in Flooded(S) : i \in Neighbors(u) /\ u < i
  <2>1. \A u \in Node : u < i => (local_data[u] = 1 <=> u \in Flooded(S))
    BY <1>1 DEF FloodInv
  <2>2. Flooded(S) \subseteq Node
    BY DEF Flooded
  <2> HIDE DEF S
  <2>3. ASSUME NEW m \in ThisRound(i), local_data[m.sender] = 1
        PROVE  \E u \in Flooded(S) : i \in Neighbors(u) /\ u < i
    <3>1. m.sender \in Node /\ m.sender < i /\ i \in Neighbors(m.sender)
      BY <1>5, <2>3 DEF ThisRound, From
    <3> QED
      BY <2>1, <2>3, <3>1
  <2>4. ASSUME NEW u \in Flooded(S), i \in Neighbors(u), u < i
        PROVE  \E m \in ThisRound(i) : local_data[m.sender] = 1
    <3>1. PICK m \in ThisRound(i) : m.sender = u
      BY <1>6, <2>2, <2>4
    <3> QED
      BY <2>1, <2>2, <2>4, <3>1
  <2> QED
    BY <2>3, <2>4
<1>8. local_data' = [local_data EXCEPT ![i] =
        IF \E m \in ThisRound(i) : local_data[m.sender] = 1 THEN 1 ELSE @]
  BY <1>2 DEF FloodSetRound
<1>9. local_data' \in [Node -> {0, 1}] /\ \A v \in Node : v # i => local_data'[v] = local_data[v]
  BY <1>8 DEF FloodInv
<1>10. local_data'[i] = 1 <=> i \in Flooded(S)
  <2>1. i \in Flooded(S) <=> i \in S \/ \E u \in Flooded(S) : i \in Neighbors(u) /\ u < i
    BY <1>3, FloodedRule
  <2>2. local_data[i] = 1 => i \in Flooded(S)
    BY <1>1, <2>1 DEF FloodInv
  <2>3. i \in S => local_data[i] = 1
    BY <1>1, <2>1 DEF FloodInv
  <2>4. local_data'[i] = IF \E m \in ThisRound(i) : local_data[m.sender] = 1 THEN 1 ELSE local_data[i]
    BY <1>8 DEF FloodInv
  <2> HIDE DEF S
  <2> QED
    BY <1>7, <2>1, <2>2, <2>3, <2>4
<1>11. Flooded(S)' = Flooded(S)
  <2>1. S' = S
    BY <1>2
  <2>2. PICK T : T = S
    OBVIOUS
  <2>3. \A d : Rising(T, d)' = Rising(T, d)
    BY <1>1, RisingStays
  <2>4. Flooded(T)' = Flooded(T)
    BY <2>3 DEF Flooded
  <2> HIDE DEF S
  <2> QED
    BY <2>1, <2>2, <2>4
<1>12. \A v \in Node :
         local_data'[v] = 1 <=> IF e > 0 \/ v < i + 1 THEN v \in Flooded(S) ELSE input[v] = 1
  <2> TAKE v \in Node
  <2>1. CASE v = i
    BY <1>3, <1>10, <2>1
  <2>2. CASE v # i
    <3>1. v < i + 1 <=> v < turn
      BY <1>1, <1>3, <2>2
    <3>2. local_data[v] = 1 <=> IF e > 0 \/ v < turn THEN v \in Flooded(S) ELSE input[v] = 1
      BY DEF FloodInv
    <3> QED
      BY <1>9, <2>2, <3>1, <3>2
  <2> QED
    BY <2>1, <2>2
<1> HIDE DEF S
<1>13. \A v \in Node :
         local_data'[v] = 1 <=> IF e' > 0 \/ v < turn' THEN v \in Flooded(S)' ELSE input'[v] = 1
  BY <1>1, <1>2, <1>11, <1>12
<1> QED
  BY <1>1, <1>2, <1>4, <1>9, <1>13 DEF FloodInv, S

\* Between two executions: all calls of the next one are still to come.
LEMMA HeartbeatsCarryOver ==
  ASSUME turn = N, turn' = 0, total_rounds_executed \in Nat, neighbors' = neighbors,
         total_rounds_executed' = total_rounds_executed + 1
  PROVE  Heartbeats' = Heartbeats
<1>1. N \in Nat /\ Node = 0 .. N - 1
  BY NodeNumbers
<1>2. PICK e \in Nat : e = total_rounds_executed
  OBVIOUS
<1>3. Heartbeats = {m \in Mail : /\ m.receiver \in Neighbors(m.sender)
                                 /\ m.round < e \/ (m.round = e /\ m.sender < N)}
  BY <1>2 DEF Heartbeats
<1>4. Heartbeats' = {m \in Mail : /\ m.receiver \in Neighbors(m.sender)
                                  /\ m.round < e + 1 \/ (m.round = e + 1 /\ m.sender < 0)}
  <2>1. \A i : Neighbors(i)' = Neighbors(i)
    BY DEF Neighbors
  <2> QED
    BY <1>2, <2>1 DEF Heartbeats, Mail
<1>5. \A m \in Mail : /\ m.round \in Nat /\ m.sender \in 0 .. N - 1
  BY <1>1 DEF Mail
<1>6. \A m \in Mail : (m.round < e \/ (m.round = e /\ m.sender < N))
                        <=> (m.round < e + 1 \/ (m.round = e + 1 /\ m.sender < 0))
  BY <1>1, <1>5
<1> QED
  BY <1>3, <1>4, <1>6

\* The end of an execution.
LEMMA FloodEnds ==
  ASSUME FloodInv, protocol = "FLOOD_SET", Synchronize
  PROVE  FloodInv'
<1> DEFINE S == {w \in Node : input[w] = 1}
           e == total_rounds_executed
<1>1. /\ LockStep' /\ turn = N /\ turn' = 0 /\ e' = e + 1 /\ mail' = mail
      /\ UNCHANGED <<treeVars, neighbors, local_data, input>>
  BY LockStepEnds DEF FloodInv
<1>2. synchro_type' = synchro_type
  BY DEF Synchronize
<1>3. mail' = Heartbeats'
  BY <1>1, HeartbeatsCarryOver DEF FloodInv, LockStep
<1>4. Flooded(S)' = Flooded(S)
  <2>1. S' = S
    BY <1>1
  <2>2. PICK T : T = S
    OBVIOUS
  <2>3. \A d : Rising(T, d)' = Rising(T, d)
    BY <1>1, RisingStays
  <2>4. Flooded(T)' = Flooded(T)
    BY <2>3 DEF Flooded
  <2> HIDE DEF S
  <2> QED
    BY <2>1, <2>2, <2>4
<1>5. \A v \in Node : v < turn
  BY <1>1, NodeNumbers
<1>6. \A v \in Node : local_data[v] = 1 <=> v \in Flooded(S)
  BY <1>5 DEF FloodInv
<1>7. e' > 0
  BY <1>1 DEF FloodInv, LockStep
<1> HIDE DEF S
<1>8. \A v \in Node :
        local_data'[v] = 1 <=> IF e' > 0 \/ v < turn' THEN v \in Flooded(S)' ELSE input'[v] = 1
  BY <1>1, <1>4, <1>6, <1>7
<1> QED
  BY <1>1, <1>2, <1>3, <1>8 DEF FloodInv, S

\* A step that changes nothing.
LEMMA FloodRests ==
  ASSUME FloodInv, UNCHANGED allVars
  PROVE  FloodInv'
<1> DEFINE S == {w \in Node : input[w] = 1}
<1>1. UNCHANGED <<neighbors, state, incoming, turn, total_rounds_executed, current_round, done,
                  synchro_type, local_data, input, mail>>
  BY DEF allVars, vars, netVars, protocolVars
<1>2. \A i : Neighbors(i)' = Neighbors(i)
  BY <1>1 DEF Neighbors
<1>3. LockStep'
  BY <1>1, <1>2 DEF FloodInv, LockStep, Quiet, Edges, Symmetric
<1>4. Heartbeats' = Heartbeats
  BY <1>1, <1>2 DEF Heartbeats, Mail
<1>5. Flooded(S)' = Flooded(S)
  <2>1. S' = S
    BY <1>1
  <2>2. PICK T : T = S
    OBVIOUS
  <2>3. \A d : Rising(T, d)' = Rising(T, d)
    BY <1>1, RisingStays
  <2>4. Flooded(T)' = Flooded(T)
    BY <2>3 DEF Flooded
  <2> HIDE DEF S
  <2> QED
    BY <2>1, <2>2, <2>4
<1> HIDE DEF S
<1>6. \A v \in Node :
        local_data[v] = 1 <=> IF total_rounds_executed > 0 \/ v < turn THEN v \in Flooded(S) ELSE input[v] = 1
  BY DEF FloodInv, S
<1>7. \A v \in Node :
        local_data'[v] = 1 <=> IF total_rounds_executed' > 0 \/ v < turn' THEN v \in Flooded(S)' ELSE input'[v] = 1
  BY <1>1, <1>5, <1>6
<1> QED
  BY <1>1, <1>3, <1>4, <1>7 DEF FloodInv, S

\* What the flood reaches.
LEMMA FloodConcludes ==
  ASSUME FloodInv, total_rounds_executed > 0, NEW v \in Node
  PROVE  local_data[v] = 1 <=> \E d \in 0 .. N - 1 : v \in Rising({i \in Node : input[i] = 1}, d)
BY DEF FloodInv, Flooded

--------------------------------------------------------------------------------
\* The ring election: after the first round every node takes itself for the leader.

ElectInv ==
  /\ Edges /\ Quiet /\ synchro_type = "ALPHA"
  /\ turn \in 0 .. N /\ total_rounds_executed \in Nat
  /\ local_data = [i \in Node |-> i]
  /\ \A m \in mail : m.round = 0
  /\ current_round \in [Node -> Nat]
  /\ total_rounds_executed = 0 => /\ current_round = [i \in Node |-> 0]
                                  /\ done = {i \in Node : i < turn}
  /\ total_rounds_executed > 0 => /\ done = {}
                                  /\ \A i \in Node : /\ current_round[i] > 0
                                                     /\ Neighbors(i) # {} => current_round[i] = 1

\* A protocol that starts to elect.
LEMMA ElectBegins ==
  ASSUME ProtocolInit, protocol = "LE_LANN"
  PROVE  ElectInv
<1>1. /\ LockStep /\ synchro_type = "ALPHA" /\ total_rounds_executed = 0 /\ turn = 0 /\ mail = {}
  BY LockStepBegins
<1>2. local_data = [i \in Node |-> i]
  BY DEF ProtocolInit, Data
<1> QED
  BY <1>1, <1>2 DEF ElectInv, LockStep

\* One call: no identifier but the node's own is ever of the round it reads.
LEMMA ElectCalls ==
  ASSUME ElectInv, protocol = "LE_LANN", NEW i \in Node, Visit(i)
  PROVE  ElectInv'
<1> DEFINE seen == {local_data[m.sender] : m \in ThisRound(i)} \cup {local_data[i]}
           leads == current_round[i] > 0 /\ Highest(seen) = i /\ local_data[i] = i
<1>1. /\ turn = i /\ turn' = i + 1 /\ LeLannRound(i) /\ UNCHANGED <<incoming, total_rounds_executed, neighbors, synchro_type>>
      /\ done' = done \cup (IF Returns0(i) THEN {i} ELSE {})
  BY DEF Visit
<1>2. /\ current_round' = current_round /\ state' = state
      /\ local_data' = [local_data EXCEPT ![i] = IF current_round[i] = 0 THEN i ELSE Highest(seen)]
      /\ SendTo(i, IF leads \/ Neighbors(i) = {} THEN {} ELSE {neighbors[i][1]},
                   IF current_round[i] = 0 THEN 0 ELSE current_round[i] + 1)
  BY <1>1 DEF LeLannRound
<1>3. current_round[i] \in Nat /\ local_data[i] = i /\ N \in Nat /\ Node = 0 .. N - 1
  BY NodeNumbers DEF ElectInv
<1>4. ASSUME current_round[i] > 0 PROVE Highest(seen) = i /\ leads
  <2>1. ThisRound(i) = {}
    BY <1>4 DEF ThisRound, From, ElectInv
  <2>2. seen = {i}
    BY <1>3, <2>1
  <2> HIDE DEF seen
  <2>3. Highest(seen) = i
    BY <1>3, <2>2 DEF Highest
  <2> QED
    BY <1>3, <1>4, <2>3
<1> HIDE DEF seen, leads
<1>5. local_data' = local_data
  <2>1. local_data' = [local_data EXCEPT ![i] = i]
    <3>1. CASE current_round[i] = 0
      BY <1>2, <3>1
    <3>2. CASE current_round[i] > 0
      <4>1. Highest(seen) = i /\ current_round[i] # 0
        BY <1>4, <3>2
      <4> QED
        BY <1>2, <4>1
    <3> QED
      BY <1>3, <3>1, <3>2
  <2> QED
    BY <2>1 DEF ElectInv
<1>6. \A m \in mail' : m.round = 0
  <2>1. CASE current_round[i] = 0
    <3>1. PICK R : mail' = mail \cup {[sender |-> i, receiver |-> j, round |-> 0] : j \in R}
      BY <1>2, <2>1 DEF SendTo
    <3> QED
      BY <3>1 DEF ElectInv
  <2>2. CASE current_round[i] > 0
    <3>1. mail' = mail
      BY <1>2, <1>4, <2>2 DEF SendTo
    <3> QED
      BY <3>1 DEF ElectInv
  <2> QED
    BY <1>3, <2>1, <2>2
<1>7. Returns0(i) <=> current_round[i] = 0
  BY <1>3, <1>5 DEF Returns0
<1>8. turn' \in 0 .. N /\ \A j \in Node : Neighbors(j)' = Neighbors(j)
  BY <1>1, <1>3 DEF Neighbors
<1>9. Edges' /\ Quiet'
  BY <1>1, <1>2, <1>8 DEF ElectInv, Edges, Symmetric, Quiet
<1>10. ASSUME total_rounds_executed = 0
       PROVE  current_round' = [j \in Node |-> 0] /\ done' = {j \in Node : j < turn'}
  <2>1. current_round = [j \in Node |-> 0] /\ done = {j \in Node : j < turn}
    BY <1>10 DEF ElectInv
  <2>2. done' = done \cup {i}
    BY <1>1, <1>7, <2>1
  <2> QED
    BY <1>1, <1>2, <1>3, <2>1, <2>2
<1>11. ASSUME total_rounds_executed > 0
       PROVE  done' = {} /\ \A j \in Node : /\ current_round'[j] > 0
                                            /\ Neighbors(j)' # {} => current_round'[j] = 1
  <2>1. done = {} /\ \A j \in Node : current_round[j] > 0 /\ (Neighbors(j) # {} => current_round[j] = 1)
    BY <1>11 DEF ElectInv
  <2>2. ~Returns0(i)
    <3>1. current_round[i] # 0
      BY <1>3, <2>1
    <3> QED
      BY <1>7, <3>1, Zenon
  <2>3. done' = {}
    BY <1>1, <2>1, <2>2
  <2>4. \A j \in Node : Neighbors(j)' # {} => Neighbors(j) # {}
    BY <1>8, Zenon
  <2> QED
    BY <1>2, <2>1, <2>3, <2>4, Zenon
<1> QED
  BY <1>1, <1>2, <1>5, <1>6, <1>8, <1>9, <1>10, <1>11 DEF ElectInv

\* The end of an execution: the first one moves all, the later ones only nodes
\* without neighbours.
LEMMA ElectEnds ==
  ASSUME ElectInv, protocol = "LE_LANN", Synchronize
  PROVE  ElectInv'
<1>1. /\ turn = N /\ turn' = 0 /\ done' = {} /\ AlphaExecuteRound(done) /\ mail' = mail
      /\ UNCHANGED <<treeVars, neighbors, synchro_type, local_data>>
  BY DEF Synchronize, ElectInv
<1>2. N \in Nat /\ Node = 0 .. N - 1
  BY NodeNumbers
<1>3. /\ total_rounds_executed \in Nat
      /\ total_rounds_executed' = total_rounds_executed + 1
  BY <1>1 DEF ElectInv, AlphaExecuteRound, FinishRound
<1>4. Edges' /\ \A j \in Node : Neighbors(j)' = Neighbors(j)
  BY <1>1 DEF ElectInv, Edges, Symmetric, Neighbors
<1>5. CASE total_rounds_executed = 0
  <2>1. \A j \in Node : j < N
    BY <1>2
  <2>2. done = Node
    BY <1>1, <1>5, <2>1 DEF ElectInv
  <2>3. current_round = [j \in Node |-> 0] /\ 0 \in Nat
    BY <1>5 DEF ElectInv
  <2>4. current_round' = [j \in Node |-> 0 + 1] /\ Quiet'
    BY <1>1, <2>2, <2>3, AllLeave DEF ElectInv
  <2> QED
    BY <1>1, <1>2, <1>3, <1>4, <1>5, <2>4 DEF ElectInv
<1>6. CASE total_rounds_executed > 0
  <2>1. done = {}
    BY <1>6 DEF ElectInv
  <2>2. Quiet' /\ current_round' = [j \in Node |-> current_round[j] + IF Neighbors(j) = {} THEN 1 ELSE 0]
    BY <1>1, <2>1, NoneLeave DEF ElectInv
  <2>3. \A j \in Node : current_round[j] \in Nat /\ current_round[j] > 0 /\ (Neighbors(j) # {} => current_round[j] = 1)
    BY <1>6 DEF ElectInv
  <2>4. \A j \in Node : current_round'[j] > 0 /\ (Neighbors(j) # {} => current_round'[j] = 1)
    BY <2>2, <2>3
  <2>5. current_round' \in [Node -> Nat]
    BY <2>2, <2>3
  <2> QED
    BY <1>1, <1>2, <1>3, <1>4, <1>6, <2>2, <2>4, <2>5 DEF ElectInv
<1> QED
  BY <1>3, <1>5, <1>6

\* A step that changes nothing.
LEMMA ElectRests ==
  ASSUME ElectInv, UNCHANGED allVars
  PROVE  ElectInv'
<1>1. UNCHANGED <<neighbors, state, incoming, turn, total_rounds_executed, current_round, done,
                  synchro_type, local_data, mail>>
  BY DEF allVars, vars, netVars, protocolVars
<1>2. \A i : Neighbors(i)' = Neighbors(i)
  BY <1>1 DEF Neighbors
<1> QED
  BY <1>1, <1>2 DEF ElectInv, Quiet, Edges, Symmetric

--------------------------------------------------------------------------------
\* The search: a node is found in the round that is its distance along rising paths.

\* Whether the search has come to a node v that is d edges away.
Come(v, d) ==
  d = 0 \/ d < total_rounds_executed \/ (d = total_rounds_executed /\ v < turn)

\* What the nodes found so far have sent, each in the round after it was found.
Searches ==
  {m \in Mail : /\ m.receiver \in Neighbors(m.sender)
                /\ local_data[m.sender] = 1 /\ m.round = depth[m.sender] + 1
                /\ \/ m.round < total_rounds_executed
                   \/ m.round = total_rounds_executed /\ m.sender < turn}

SeekInv ==
  /\ LockStep /\ synchro_type = "ALPHA"
  /\ local_data \in [Node -> {0, 1}] /\ depth \in [Node -> Int]
  /\ \A v \in Node : local_data[v] = 1 <=> \E d \in Nat : Away(v, d) /\ Come(v, d)
  /\ \A v \in Node : \A d \in Nat : local_data[v] = 1 /\ Away(v, d) => depth[v] = d
  /\ mail = Searches

\* The distances depend on nothing but the graph.
LEMMA AwayStays ==
  ASSUME neighbors' = neighbors, NEW v, NEW d
  PROVE  Away(v, d)' <=> Away(v, d)
<1>1. \A k : Rising({0}, k)' = Rising({0}, k)
  BY RisingStays
<1> QED
  BY <1>1 DEF Away

\* A protocol that starts to search.
LEMMA SearchBegins ==
  ASSUME ProtocolInit, protocol = "BFS"
  PROVE  SeekInv
<1>1. /\ LockStep /\ synchro_type = "ALPHA" /\ total_rounds_executed = 0 /\ turn = 0 /\ mail = {}
  BY LockStepBegins
<1>2. local_data = [i \in Node |-> IF i = 0 THEN 1 ELSE 0]
  BY DEF ProtocolInit, Data
<1>3. depth = [i \in Node |-> IF i = 0 THEN 0 ELSE -1]
  BY <1>1 DEF ProtocolInit
<1>4. Node = 0 .. N - 1 /\ N \in Nat /\ ListsTyped
  BY <1>1, NodeNumbers DEF LockStep, Edges, ListsTyped
<1>5. ASSUME NEW v \in Node
      PROVE  /\ local_data[v] = 1 <=> v = 0
             /\ local_data[v] = 1 <=> \E d \in Nat : Away(v, d) /\ Come(v, d)
             /\ \A d \in Nat : local_data[v] = 1 /\ Away(v, d) => depth[v] = d
  <2>1. local_data[v] = 1 <=> v = 0
    BY <1>2
  <2>2. Away(v, 0) <=> v = 0
    BY <1>4, AwayRule
  <2>3. \A d \in Nat : Come(v, d) <=> d = 0
    BY <1>1, <1>4 DEF Come
  <2>4. ASSUME NEW d \in Nat, local_data[v] = 1, Away(v, d) PROVE depth[v] = d
    <3>1. Away(v, 0) /\ 0 \in Nat
      BY <2>1, <2>2, <2>4
    <3>2. d = 0
      BY <1>4, <2>4, <3>1, AwayRule
    <3> QED
      BY <1>3, <2>1, <2>4, <3>2
  <2>5. 0 \in Nat
    OBVIOUS
  <2>6. (\E d \in Nat : Away(v, d) /\ Come(v, d)) <=> Away(v, 0)
    BY <2>3, <2>5
  <2> QED
    BY <2>1, <2>2, <2>4, <2>6
<1>6. Searches = {}
  <2>1. \A m \in Mail : local_data[m.sender] = 1 => m.sender = 0
    BY <1>5 DEF Mail
  <2>2. \A m \in Mail : ~(local_data[m.sender] = 1 /\ m.round = depth[m.sender] + 1 /\ m.round <= 0)
    BY <1>3, <1>4, <2>1 DEF Mail
  <2>3. \A m \in Mail : m.round \in Nat /\ (m.round < 0 \/ m.round = 0 => m.round <= 0)
    BY DEF Mail
  <2> QED
    BY <1>1, <2>2, <2>3 DEF Searches
<1>7. local_data \in [Node -> {0, 1}] /\ depth \in [Node -> Int]
  BY <1>2, <1>3
<1> QED
  BY <1>1, <1>5, <1>6, <1>7 DEF SeekInv

\* One call at i: it finds i if a neighbour before i, found one round ago, has sent.
LEMMA SearchCalls ==
  ASSUME SeekInv, protocol = "BFS", NEW i \in Node, Visit(i)
  PROVE  SeekInv'
<1> DEFINE sends == current_round[i] > 0 /\ local_data[i] = 1 /\ depth[i] = current_round[i] - 1
           finds == current_round[i] > 0 /\ local_data[i] = 0 /\ ThisRound(i) # {}
<1>1. /\ LockStep' /\ turn = i /\ turn' = i + 1 /\ total_rounds_executed' = total_rounds_executed
      /\ current_round[i] = total_rounds_executed
      /\ neighbors' = neighbors /\ \A j \in Node : Neighbors(j)' = Neighbors(j)
  BY LockStepCalls DEF SeekInv
<1>2. /\ synchro_type' = synchro_type /\ BfsRound(i)
  BY DEF Visit
<1>3. PICK e \in Nat : e = total_rounds_executed /\ e' = e
  <2>1. total_rounds_executed \in Nat
    BY DEF SeekInv, LockStep
  <2> QED
    BY <1>1, <2>1
<1>4. /\ N \in Nat /\ Node = 0 .. N - 1
      /\ \A j \in Node : Neighbors(j) \subseteq Node \ {j}
      /\ ListsTyped /\ i \in Nat
  BY NodeNumbers DEF SeekInv, LockStep, Edges, Symmetric, ListsTyped
<1>5. mail' = mail \cup {[sender |-> i, receiver |-> j, round |-> e] : j \in IF sends THEN Neighbors(i) ELSE {}}
  BY <1>1, <1>2, <1>3 DEF BfsRound, SendTo
<1>6. /\ finds => /\ local_data' = [local_data EXCEPT ![i] = 1]
                  /\ depth' = [depth EXCEPT ![i] = e]
      /\ ~finds => local_data' = local_data /\ depth' = depth
  <2>1. ThisRound(i) # {} => From(i) # {}
    BY DEF ThisRound
  <2> QED
    BY <1>1, <1>2, <1>3, <2>1 DEF BfsRound
<1>7. finds => ~sends
  OBVIOUS
<1>8. sends <=> e > 0 /\ local_data[i] = 1 /\ depth[i] + 1 = e
  BY <1>1, <1>3 DEF SeekInv
<1>9. /\ mail = {m \in Mail : /\ m.receiver \in Neighbors(m.sender)
                              /\ local_data[m.sender] = 1 /\ m.round = depth[m.sender] + 1
                              /\ m.round < e \/ (m.round = e /\ m.sender < i)}
      /\ \A v \in Node : local_data[v] \in {0, 1} /\ depth[v] \in Int
      /\ \A v \in Node : local_data[v] = 1 <=> \E d \in Nat : Away(v, d) /\ Come(v, d)
      /\ \A v \in Node : \A d \in Nat : local_data[v] = 1 /\ Away(v, d) => depth[v] = d
  BY <1>1, <1>3 DEF SeekInv, Searches
<1>10. \A v \in Node : \A d \in Nat : Come(v, d) <=> d = 0 \/ d < e \/ (d = e /\ v < i)
  BY <1>1, <1>3 DEF Come
<1>11. \A v \in Node : \A d \in Nat : Come(v, d)' <=> d = 0 \/ d < e \/ (d = e /\ v < i + 1)
  BY <1>1, <1>3 DEF Come
<1>12. e > 0 => (ThisRound(i) # {} <=> \E u \in Node : Away(u, e - 1) /\ i \in Neighbors(u) /\ u < i)
  <2> SUFFICES ASSUME e > 0
               PROVE  ThisRound(i) # {} <=> \E u \in Node : Away(u, e - 1) /\ i \in Neighbors(u) /\ u < i
    OBVIOUS
  <2>1. e - 1 \in Nat
    OBVIOUS
  <2>2. ASSUME NEW m \in ThisRound(i)
        PROVE  \E u \in Node : Away(u, e - 1) /\ i \in Neighbors(u) /\ u < i
    <3>1. m \in mail /\ m.receiver = i /\ m.round = e
      BY <1>1, <1>3, <2>2 DEF ThisRound, From
    <3>2. /\ m.sender \in Node /\ i \in Neighbors(m.sender) /\ local_data[m.sender] = 1
          /\ e = depth[m.sender] + 1 /\ m.sender < i
      BY <1>9, <3>1 DEF Mail
    <3>3. PICK d \in Nat : Away(m.sender, d)
      BY <1>9, <3>2
    <3>4. depth[m.sender] = d /\ d = e - 1
      BY <1>9, <3>2, <3>3
    <3> QED
      BY <3>2, <3>3, <3>4
  <2>3. ASSUME NEW u \in Node, Away(u, e - 1), i \in Neighbors(u), u < i
        PROVE  [sender |-> u, receiver |-> i, round |-> e] \in ThisRound(i)
    <3>1. Come(u, e - 1)
      BY <1>10, <2>1
    <3>2. local_data[u] = 1 /\ depth[u] = e - 1
      BY <1>9, <2>1, <2>3, <3>1
    <3>3. [sender |-> u, receiver |-> i, round |-> e] \in Mail
      BY DEF Mail
    <3>4. [sender |-> u, receiver |-> i, round |-> e] \in mail
      BY <1>9, <2>3, <3>2, <3>3
    <3> QED
      BY <1>1, <1>3, <3>4 DEF ThisRound, From
  <2> QED
    BY <2>2, <2>3
<1>13. finds => Away(i, e)
  <2> SUFFICES ASSUME finds PROVE Away(i, e)
    OBVIOUS
  <2>1. e > 0 /\ e - 1 \in Nat /\ (e - 1) + 1 = e
    BY <1>1, <1>3
  <2>2. PICK u \in Node : Away(u, e - 1) /\ i \in Neighbors(u) /\ u < i
    BY <1>12, <2>1
  <2>3. PICK d \in Nat : d = e - 1
    BY <2>1
  <2>4. PICK k \in 0 .. d + 1 : Away(i, k)
    BY <1>4, <2>2, <2>3, AwayRule
  <2>5. k \in 0 .. e /\ k \in Nat
    BY <2>1, <2>3
  <2>6. ~Come(i, k)
    BY <1>9, <2>4, <2>5
  <2>7. k = e
    BY <1>10, <2>5, <2>6
  <2> QED
    BY <2>4, <2>7
<1>14. ASSUME local_data[i] = 0, Away(i, e), e > 0 PROVE finds
  <2>1. e - 1 \in Nat /\ (e - 1) + 1 = e
    BY <1>14
  <2>2. PICK d \in Nat : d = e - 1 /\ e = d + 1
    BY <2>1
  <2>3. \E u \in Node : Away(u, d) /\ i \in Neighbors(u) /\ u < i
    <3>1. Away(i, d + 1)
      BY <1>14, <2>2
    <3>2. \A k \in Nat : Away(i, k + 1) => \E u \in Node : Away(u, k) /\ i \in Neighbors(u) /\ u < i
      BY <1>4, AwayRule
    <3> QED
      BY <3>1, <3>2
  <2> QED
    BY <1>1, <1>3, <1>12, <1>14, <2>2, <2>3
<1> HIDE DEF sends, finds
<1>15. mail' = Searches'
  <2>1. Searches' = {m \in Mail : /\ m.receiver \in Neighbors(m.sender)
                                  /\ local_data'[m.sender] = 1 /\ m.round = depth'[m.sender] + 1
                                  /\ m.round < e \/ (m.round = e /\ m.sender < i + 1)}
    BY <1>1, <1>3 DEF Searches, Mail
  <2>2. \A m \in Mail : m.sender \in Node /\ m.receiver \in Node /\ m.round \in Nat
                        /\ m = [sender |-> m.sender, receiver |-> m.receiver, round |-> m.round]
    BY DEF Mail
  <2>3. \A v \in Node : v # i => local_data'[v] = local_data[v] /\ depth'[v] = depth[v] /\ (v < i + 1 <=> v < i)
    BY <1>4, <1>6 DEF SeekInv
  <2>4. ASSUME NEW m \in Mail, m.sender # i PROVE m \in mail' <=> m \in Searches'
    <3>1. m \in mail' <=> m \in mail
      BY <1>5, <2>4
    <3> QED
      BY <1>9, <2>1, <2>2, <2>3, <2>4, <3>1
  <2>5. ASSUME NEW m \in Mail, m.sender = i, finds PROVE m \in mail' <=> m \in Searches'
    <3>1. m \notin mail'
      BY <1>5, <1>7, <1>9, <2>5 DEF finds
    <3>2. depth'[i] = e
      BY <1>4, <1>6, <2>5 DEF SeekInv
    <3>3. m \notin Searches'
      BY <2>1, <2>2, <2>5, <3>2
    <3> QED
      BY <3>1, <3>3
  <2>6. ASSUME NEW m \in Mail, m.sender = i, ~finds PROVE m \in mail' <=> m \in Searches'
    <3>1. m \in Searches' <=> /\ m.receiver \in Neighbors(i) /\ local_data[i] = 1
                              /\ m.round = depth[i] + 1 /\ m.round <= e
      BY <1>4, <1>6, <2>1, <2>2, <2>6
    <3>2. m \in mail <=> /\ m.receiver \in Neighbors(i) /\ local_data[i] = 1
                         /\ m.round = depth[i] + 1 /\ m.round < e
      BY <1>4, <1>9, <2>2, <2>6
    <3>3. (\E j \in IF sends THEN Neighbors(i) ELSE {} : m = [sender |-> i, receiver |-> j, round |-> e])
            <=> sends /\ m.receiver \in Neighbors(i) /\ m.round = e
      BY <2>2, <2>6
    <3>4. m \in mail' <=> m \in mail \/ (sends /\ m.receiver \in Neighbors(i) /\ m.round = e)
      BY <1>5, <3>3
    <3>5. m.round = e /\ m.round = depth[i] + 1 /\ local_data[i] = 1 /\ m.receiver \in Neighbors(i) => sends
      <4>1. local_data[i] = 1 /\ m.round = e /\ m.round = depth[i] + 1 => e > 0
        <5> SUFFICES ASSUME local_data[i] = 1, m.round = e, m.round = depth[i] + 1 PROVE e > 0
          OBVIOUS
        <5>1. PICK d \in Nat : Away(i, d)
          BY <1>9
        <5>2. depth[i] = d
          BY <1>9, <5>1
        <5> QED
          BY <5>2
      <4> QED
        BY <1>8, <4>1
    <3>6. m.round \in Nat /\ (m.round <= e <=> m.round < e \/ m.round = e)
      BY <2>2
    <3>7. sends => local_data[i] = 1 /\ depth[i] + 1 = e
      BY <1>8
    <3> QED
      BY <3>1, <3>2, <3>4, <3>5, <3>6, <3>7
  <2>7. mail' \subseteq Mail
    <3>1. \A j \in Neighbors(i) : [sender |-> i, receiver |-> j, round |-> e] \in Mail
      BY <1>4 DEF Mail
    <3> QED
      BY <1>5, <1>9, <3>1
  <2>8. Searches' \subseteq Mail
    BY <2>1
  <2> QED
    BY <2>4, <2>5, <2>6, <2>7, <2>8
<1>16. ASSUME NEW v \in Node
       PROVE  local_data'[v] = 1 <=> \E d \in Nat : Away(v, d)' /\ Come(v, d)'
  <2>1. \A d : Away(v, d)' <=> Away(v, d)
    BY <1>1, AwayStays
  <2>2. CASE v # i
    <3>1. \A d \in Nat : Come(v, d)' <=> Come(v, d)
      BY <1>4, <1>10, <1>11, <2>2
    <3>2. local_data'[v] = local_data[v]
      BY <1>6, <2>2 DEF SeekInv
    <3> QED
      BY <1>9, <2>1, <3>1, <3>2
  <2>3. CASE v = i
    <3>1. \A d \in Nat : Come(i, d)' <=> Come(i, d) \/ d = e
      BY <1>4, <1>10, <1>11
    <3>2. local_data'[i] = 1 <=> local_data[i] = 1 \/ finds
      BY <1>6 DEF SeekInv
    <3>3. local_data[i] # 1 /\ Away(i, e) /\ ~Come(i, e) => finds
      <4>1. local_data[i] # 1 => local_data[i] = 0
        BY <1>9
      <4>2. ~Come(i, e) => e > 0
        BY <1>10
      <4> QED
        BY <1>14, <4>1, <4>2
    <3>4. local_data[i] = 1 <=> \E d \in Nat : Away(i, d) /\ Come(i, d)
      BY <1>9
    <3> QED
      BY <1>13, <2>1, <2>3, <3>1, <3>2, <3>3, <3>4
  <2> QED
    BY <2>2, <2>3
<1>17. ASSUME NEW v \in Node, NEW d \in Nat, local_data'[v] = 1, Away(v, d)'
       PROVE  depth'[v] = d
  <2>1. Away(v, d)
    BY <1>1, <1>17, AwayStays
  <2>2. CASE finds /\ v = i
    <3>1. d = e
      BY <1>4, <1>13, <2>1, <2>2, AwayRule
    <3> QED
      BY <1>6, <2>2, <3>1 DEF SeekInv
  <2>3. CASE ~(finds /\ v = i)
    <3>1. local_data'[v] = local_data[v] /\ depth'[v] = depth[v]
      BY <1>6, <2>3 DEF SeekInv
    <3> QED
      BY <1>9, <1>17, <2>1, <3>1
  <2> QED
    BY <2>2, <2>3
<1>18. local_data' \in [Node -> {0, 1}] /\ depth' \in [Node -> Int]
  BY <1>6 DEF SeekInv
<1>19. synchro_type' = "ALPHA"
  BY <1>2 DEF SeekInv
<1> QED
  BY <1>1, <1>15, <1>16, <1>17, <1>18, <1>19 DEF SeekInv

\* The end of an execution: the search is as far as before.
LEMMA SearchEnds ==
  ASSUME SeekInv, protocol = "BFS", Synchronize
  PROVE  SeekInv'
<1> DEFINE e == total_rounds_executed
<1>1. /\ LockStep' /\ turn = N /\ turn' = 0 /\ e' = e + 1 /\ mail' = mail
      /\ UNCHANGED <<treeVars, neighbors, local_data>>
      /\ \A j \in Node : Neighbors(j)' = Neighbors(j)
  BY LockStepEnds DEF SeekInv
<1>2. synchro_type' = synchro_type /\ depth' = depth
  BY <1>1 DEF Synchronize, treeVars
<1>3. N \in Nat /\ Node = 0 .. N - 1 /\ e \in Nat
  BY NodeNumbers DEF SeekInv, LockStep
<1>4. \A v \in Node : \A d \in Nat : Come(v, d)' <=> Come(v, d)
  BY <1>1, <1>3 DEF Come
<1>5. \A v, d : Away(v, d)' <=> Away(v, d)
  BY <1>1, AwayStays
<1>6. Searches' = Searches
  <2>1. Searches = {m \in Mail : /\ m.receiver \in Neighbors(m.sender)
                                 /\ local_data[m.sender] = 1 /\ m.round = depth[m.sender] + 1
                                 /\ m.round < e \/ (m.round = e /\ m.sender < N)}
    BY <1>1 DEF Searches
  <2>2. Searches' = {m \in Mail : /\ m.receiver \in Neighbors(m.sender)
                                  /\ local_data[m.sender] = 1 /\ m.round = depth[m.sender] + 1
                                  /\ m.round < e + 1 \/ (m.round = e + 1 /\ m.sender < 0)}
    BY <1>1, <1>2 DEF Searches, Mail
  <2>3. \A m \in Mail : m.round \in Nat /\ m.sender \in 0 .. N - 1
    BY <1>3 DEF Mail
  <2>4. \A m \in Mail : (m.round < e \/ (m.round = e /\ m.sender < N))
                          <=> (m.round < e + 1 \/ (m.round = e + 1 /\ m.sender < 0))
    BY <1>3, <2>3
  <2> QED
    BY <2>1, <2>2, <2>4
<1> HIDE DEF e
<1> QED
  BY <1>1, <1>2, <1>4, <1>5, <1>6 DEF SeekInv

\* A step that changes nothing.
LEMMA SearchRests ==
  ASSUME SeekInv, UNCHANGED allVars
  PROVE  SeekInv'
<1>1. UNCHANGED <<neighbors, state, incoming, turn, total_rounds_executed, current_round, done,
                  synchro_type, local_data, depth, mail>>
  BY DEF allVars, vars, netVars, treeVars, protocolVars
<1>2. \A i : Neighbors(i)' = Neighbors(i)
  BY <1>1 DEF Neighbors
<1>3. LockStep'
  BY <1>1, <1>2 DEF SeekInv, LockStep, Quiet, Edges, Symmetric
<1>4. Searches' = Searches
  BY <1>1, <1>2 DEF Searches, Mail
<1>5. \A v, d : (Away(v, d)' <=> Away(v, d)) /\ (Come(v, d)' <=> Come(v, d))
  <2>1. \A v, d : Away(v, d)' <=> Away(v, d)
    BY <1>1, AwayStays
  <2>2. \A v, d : Come(v, d)' <=> Come(v, d)
    BY <1>1 DEF Come
  <2> QED
    BY <2>1, <2>2
<1> QED
  BY <1>1, <1>3, <1>4, <1>5 DEF SeekInv

\* What the search has found between two executions.
LEMMA SearchConcludes ==
  ASSUME SeekInv, turn = 0, NEW v \in Node
  PROVE  LET lengths == {d \in 0 .. N - 1 : v \in Rising({0}, d)}
         IN  /\ local_data[v] = 1 <=> \E d \in lengths : d < total_rounds_executed \/ d = 0
             /\ local_data[v] = 1 => depth[v] = CHOOSE d \in lengths : \A k \in lengths : d <= k
<1> DEFINE lengths == {d \in 0 .. N - 1 : v \in Rising({0}, d)}
<1>1. /\ N \in Nat /\ Node = 0 .. N - 1 /\ ListsTyped /\ total_rounds_executed \in Nat
      /\ {0} \in SUBSET Node
  BY NodeNumbers DEF SeekInv, LockStep, Edges, ListsTyped
<1>2. /\ local_data[v] = 1 <=> \E d \in Nat : Away(v, d) /\ Come(v, d)
      /\ \A d \in Nat : local_data[v] = 1 /\ Away(v, d) => depth[v] = d
      /\ \A d \in Nat : Come(v, d) <=> d < total_rounds_executed \/ d = 0
  BY <1>1 DEF SeekInv, Come
<1>3. ASSUME NEW d \in Nat, Away(v, d)
      PROVE  d \in lengths /\ \A k \in lengths : d <= k
  <2>1. v \in Rising({0}, d)
    BY <1>3 DEF Away
  <2>2. d \in 0 .. N - 1
    BY <1>1, <2>1, RisingShort
  <2>3. \A k \in lengths : ~(k \in 0 .. d - 1)
    BY <1>3 DEF Away
  <2> QED
    BY <2>1, <2>2, <2>3
<1>4. ASSUME NEW d \in lengths PROVE \E k \in Nat : Away(v, k) /\ k <= d
  <2>1. PICK k \in 0 .. d : Away(v, k)
    BY <1>4, AwaySome
  <2> QED
    BY <2>1
<1>5. lengths \subseteq Nat
  OBVIOUS
<1> HIDE DEF lengths
<1>6. local_data[v] = 1 <=> \E d \in lengths : d < total_rounds_executed \/ d = 0
  <2>1. ASSUME NEW d \in lengths, d < total_rounds_executed \/ d = 0 PROVE local_data[v] = 1
    <3>1. PICK k \in Nat : Away(v, k) /\ k <= d
      BY <1>4
    <3>2. k < total_rounds_executed \/ k = 0
      BY <1>1, <1>5, <2>1, <3>1
    <3> QED
      BY <1>2, <3>1, <3>2
  <2> QED
    BY <1>2, <1>3, <2>1
<1>7. ASSUME local_data[v] = 1 PROVE depth[v] = CHOOSE d \in lengths : \A k \in lengths : d <= k
  <2>1. PICK d \in Nat : Away(v, d)
    BY <1>2, <1>7
  <2>2. d \in lengths /\ \A k \in lengths : d <= k
    BY <1>3, <2>1
  <2>3. \A j \in lengths : (\A k \in lengths : j <= k) => j = d
    BY <1>5, <2>2
  <2>4. (CHOOSE j \in lengths : \A k \in lengths : j <= k) = d
    BY <2>2, <2>3
  <2> QED
    BY <1>2, <1>7, <2>1, <2>4
<1> QED
  BY <1>6, <1>7 DEF lengths

--------------------------------------------------------------------------------
\* The broadcast and the convergecast: beta moves its tree together.

TreeWalk ==
  /\ CarryInv /\ synchro_type = "BETA" /\ Still(total_rounds_executed)
  /\ turn \in 0 .. N

\* A protocol that starts on a tree.
LEMMA WalkBegins ==
  ASSUME ProtocolInit, protocol \in {"BROADCAST", "CONVERGECAST"}
  PROVE  /\ TreeWalk /\ total_rounds_executed = 0 /\ turn = 0 /\ mail = {} /\ reported = {}
         /\ local_data = [i \in Node |-> 0]
<1>1. /\ synchro_type = "BETA" /\ neighbors \in Graphs /\ NetInit /\ turn = 0 /\ mail = {} /\ reported = {}
      /\ local_data \in Data
  BY DEF ProtocolInit
<1>2. BetaTrees
  BY <1>1 DEF ProtocolInit
<1>3. local_data = [i \in Node |-> 0]
  BY <1>1 DEF Data
<1>4. Edges
  BY <1>1, GraphsHaveEdges
<1>5. OneTree /\ TreesSpan /\ Wood
  BY <1>1, <1>2, <1>4, BetaSpans DEF OneTree
<1>6. /\ incoming = {} /\ current_round = [i \in Node |-> 0] /\ state = [i \in Node |-> "UNSAFE"]
      /\ completed = [i \in Node |-> 0] /\ total_messages_sent = 0 /\ total_rounds_executed = 0
  BY <1>1 DEF NetInit
<1>7. NetTypeOK /\ IsFiniteSet(incoming) /\ Still(0)
  BY <1>6, NodeAssumption, FS_EmptySet DEF NetTypeOK, Still, Wooded, Alive
<1>8. TypeOK
  BY <1>5, <1>7 DEF TypeOK, Wood, None
<1>9. CarryInv
  BY <1>1, <1>4, <1>5, <1>7, <1>8 DEF CarryInv, Grown
<1>10. turn \in 0 .. N
  BY <1>1, NodeNumbers
<1> QED
  BY <1>1, <1>3, <1>6, <1>7, <1>9, <1>10 DEF TreeWalk

\* A call of a protocol that leaves the network alone, messages apart.
LEMMA WalkCalls ==
  ASSUME TreeWalk, NEW i \in Node, Visit(i), total_messages_sent' \in Nat,
         UNCHANGED <<current_round, state, bfs_parent, depth>>
  PROVE  /\ TreeWalk' /\ turn = i /\ turn' = i + 1 /\ total_rounds_executed' = total_rounds_executed
         /\ UNCHANGED treeVars /\ Wooded' = Wooded
<1>1. /\ turn = i /\ turn' = i + 1
      /\ UNCHANGED <<incoming, total_rounds_executed, completed, neighbors, cluster_leader, synchro_type>>
  BY DEF Visit
<1>2. UNCHANGED treeVars
  BY <1>1 DEF treeVars
<1>3. Grown' /\ Wooded' = Wooded /\ synchro_type' = synchro_type
  BY <1>1, <1>2, GrownStays DEF TreeWalk, CarryInv
<1>4. NetTypeOK'
  BY <1>1 DEF TreeWalk, CarryInv, TypeOK, NetTypeOK
<1>5. TypeOK' /\ IsFiniteSet(incoming')
  BY <1>1, <1>2, <1>4 DEF TreeWalk, CarryInv, TypeOK, treeVars
<1>6. Still(total_rounds_executed)'
  BY <1>1, <1>3 DEF TreeWalk, Still, Alive
<1>7. \E r : Still(r)'
  BY <1>1, <1>3, <1>6 DEF Still, Alive
<1>8. turn' \in 0 .. N
  BY <1>1, NodeNumbers
<1> QED
  BY <1>1, <1>2, <1>3, <1>5, <1>6, <1>7, <1>8 DEF TreeWalk, CarryInv

\* The end of an execution: the tree has moved, and the old messages are dropped.
LEMMA WalkEnds ==
  ASSUME TreeWalk, Synchronize
  PROVE  /\ TreeWalk' /\ turn = N /\ turn' = 0 /\ total_rounds_executed' = total_rounds_executed + 1
         /\ UNCHANGED <<treeVars, local_data, reported>> /\ Wooded' = Wooded
         /\ mail' = {m \in mail : m.round >= current_round[m.receiver]}
<1>1. /\ turn = N /\ turn' = 0 /\ BetaExecuteRound /\ UNCHANGED <<treeVars, neighbors, synchro_type>>
      /\ UNCHANGED <<local_data, reported>>
      /\ mail' = {m \in mail : m.round >= current_round[m.receiver]}
  BY DEF Synchronize, TreeWalk
<1>2. Next
  BY <1>1 DEF Next, ExecuteRound, TreeWalk
<1>3. CarryInv'
  BY <1>2, CarryKept DEF TreeWalk
<1>4. Grown' /\ Wooded' = Wooded /\ synchro_type' = synchro_type
  BY <1>1, GrownStays DEF TreeWalk, CarryInv
<1>5. PICK r : r = total_rounds_executed /\ Still(r)
  BY DEF TreeWalk
<1>6. (\A v \in Wooded : current_round'[v] = r + 1) /\ incoming' = {}
  BY <1>1, <1>5, BetaMoves DEF TreeWalk, CarryInv, TypeOK, Grown
<1>7. PICK pulsed : state' = [j \in Node |-> IF j \in pulsed THEN "UNSAFE"
                                   ELSE [k \in Node |-> IF k \in Reports THEN "WAITING"
                                                        ELSE IF k \in Alive THEN "SAFE" ELSE state[k]][j]]
  BY <1>1 DEF BetaExecuteRound, FinishRound
<1>8. Alive' = Node
  <2>1. Alive = Node
    BY DEF TreeWalk, Still
  <2> QED
    BY <1>7, <2>1 DEF Alive
<1>9. total_rounds_executed' = r + 1
  BY <1>1, <1>5 DEF BetaExecuteRound, FinishRound
<1>10. Still(total_rounds_executed)'
  BY <1>4, <1>6, <1>8, <1>9 DEF Still
<1>11. turn' \in 0 .. N
  BY <1>1, NodeNumbers
<1> QED
  BY <1>1, <1>3, <1>4, <1>5, <1>9, <1>10, <1>11 DEF TreeWalk

\* A step that changes nothing.
LEMMA WalkRests ==
  ASSUME TreeWalk, UNCHANGED allVars
  PROVE  TreeWalk' /\ Wooded' = Wooded
<1>1. /\ UNCHANGED <<treeVars, neighbors, synchro_type>> /\ UNCHANGED netVars /\ turn' = turn
      /\ UNCHANGED <<state, current_round, incoming, total_messages_sent, total_rounds_executed, completed>>
      /\ UNCHANGED <<bfs_parent, depth, cluster_leader>>
  BY DEF allVars, vars, protocolVars, netVars, treeVars
<1>2. Grown' /\ Wooded' = Wooded /\ synchro_type' = synchro_type
  BY <1>1, GrownStays DEF TreeWalk, CarryInv
<1>3. TypeOK' /\ IsFiniteSet(incoming')
  BY <1>1 DEF TreeWalk, CarryInv, TypeOK, NetTypeOK
<1>4. Still(total_rounds_executed)'
  BY <1>1, <1>2 DEF TreeWalk, Still, Alive
<1>5. \E r : Still(r)'
  BY <1>1, <1>2, <1>4 DEF Still, Alive
<1> QED
  BY <1>1, <1>2, <1>3, <1>4, <1>5 DEF TreeWalk, CarryInv

\* What the tree looks like to a node of it.
LEMMA TreeShape ==
  ASSUME TreeWalk, NEW v \in Wooded
  PROVE  /\ v \in Node /\ depth[v] \in Nat /\ current_round[v] = total_rounds_executed
         /\ v = 0 <=> bfs_parent[v] = None
         /\ v = 0 <=> depth[v] = 0
         /\ v # 0 => /\ bfs_parent[v] \in Wooded /\ bfs_parent[v] # v
                     /\ depth[v] = depth[bfs_parent[v]] + 1 /\ v \in Children(bfs_parent[v])
<1>1. Grown /\ OneTree /\ Wood /\ Edges /\ TreesSpan
  BY DEF TreeWalk, CarryInv, Grown
<1>2. v \in Node /\ InTree(v)
  BY DEF Wooded
<1>3. N \in Nat /\ Node = 0 .. N - 1 /\ None \notin Node
  BY NodeNumbers, NoneIsNoNode
<1>4. depth[v] \in Nat
  BY <1>1, <1>2, <1>3 DEF Wood, InTree
<1>5. v = 0 <=> bfs_parent[v] = None
  BY <1>1, <1>2 DEF OneTree
<1>6. v # 0 => /\ bfs_parent[v] \in Wooded
               /\ depth[v] = depth[bfs_parent[v]] + 1 /\ v \in Children(bfs_parent[v])
  <2> SUFFICES ASSUME v # 0 PROVE /\ bfs_parent[v] \in Wooded
                                  /\ depth[v] = depth[bfs_parent[v]] + 1 /\ v \in Children(bfs_parent[v])
    OBVIOUS
  <2>1. bfs_parent[v] # None
    BY <1>5
  <2>2. bfs_parent[v] \in Node
    BY <1>1, <1>2, <2>1 DEF Wood
  <2> QED
    BY <1>1, <1>2, <2>1, <2>2 DEF Wood, Wooded, Children
<1>7. v # 0 => depth[bfs_parent[v]] \in Nat
  BY <1>1, <1>3, <1>6 DEF Wood, InTree, Wooded
<1>8. v = 0 => depth[v] = 0
  <2> SUFFICES ASSUME v = 0, depth[v] > 0 PROVE FALSE
    BY <1>4
  <2>1. bfs_parent[v] \in Neighbors(v)
    BY <1>1, <1>2 DEF TreesSpan, TreeWalk
  <2>2. bfs_parent[v] \in Node
    BY <1>1, <1>2, <2>1 DEF Edges
  <2> QED
    BY <1>3, <1>5, <2>2
<1>9. current_round[v] = total_rounds_executed
  BY DEF TreeWalk, Still
<1> QED
  BY <1>2, <1>4, <1>5, <1>6, <1>7, <1>8, <1>9

\* The broadcast is never more than one execution late: who is told has told its
\* children, in this execution or in the last.
Told(v) == \E m \in mail : /\ m.sender = bfs_parent[v] /\ m.receiver = v
                           /\ \/ m.round = total_rounds_executed
                              \/ m.round + 1 = total_rounds_executed /\ v >= turn

CastInv ==
  /\ TreeWalk /\ local_data \in [Node -> {0, 1}]
  /\ \A v \in Wooded :
       depth[v] < total_rounds_executed \/ (depth[v] = total_rounds_executed /\ v < turn) => local_data[v] = 1
  /\ \A v \in Wooded : v # 0 /\ local_data[bfs_parent[v]] = 1 /\ local_data[v] = 0 => Told(v)

\* A protocol that starts to broadcast.
LEMMA CastBegins ==
  ASSUME ProtocolInit, protocol = "BROADCAST"
  PROVE  CastInv
<1>1. /\ TreeWalk /\ total_rounds_executed = 0 /\ turn = 0 /\ local_data = [i \in Node |-> 0]
  BY WalkBegins
<1>2. \A v \in Wooded : ~(depth[v] < 0) /\ ~(v < 0)
  BY <1>1, TreeShape, NodeNumbers
<1>3. \A v \in Wooded : v # 0 => bfs_parent[v] \in Node
  BY <1>1, TreeShape DEF Wooded
<1> QED
  BY <1>1, <1>2, <1>3 DEF CastInv

\* One call: a node whose turn has come and whose parent was called at this depth finds
\* its parent's message, and passes it on.
LEMMA CastCalls ==
  ASSUME CastInv, protocol = "BROADCAST", NEW i \in Node, Visit(i)
  PROVE  CastInv'
<1> DEFINE e == total_rounds_executed
           starts == i = 0 /\ current_round[i] = 0
           told == local_data[i] = 0 /\ \E m \in From(i) : m.sender = bfs_parent[i]
<1>1. /\ SendTo(i, IF starts \/ told THEN Children(i) ELSE {}, current_round[i])
      /\ local_data' = [local_data EXCEPT ![i] = IF starts \/ told THEN 1 ELSE @]
      /\ UNCHANGED <<bfs_parent, depth, reported, current_round, state>>
  BY DEF Visit, BroadcastRound
<1>2. total_messages_sent' \in Nat
  <2>1. PICK R : R \in SUBSET Node /\ total_messages_sent' = total_messages_sent + Cardinality(R)
    BY <1>1 DEF SendTo, Children
  <2>2. Cardinality(R) \in Nat
    BY <2>1, NodeAssumption, FS_Subset, FS_CardinalityType
  <2> QED
    BY <2>1, <2>2 DEF CastInv, TreeWalk, CarryInv, TypeOK, NetTypeOK
<1>3. /\ TreeWalk' /\ turn = i /\ turn' = i + 1 /\ e' = e /\ Wooded' = Wooded /\ TreeWalk
  BY <1>1, <1>2, WalkCalls DEF CastInv
<1>4. /\ mail' = mail \cup {[sender |-> i, receiver |-> j, round |-> current_round[i]] :
                              j \in IF starts \/ told THEN Children(i) ELSE {}}
  BY <1>1 DEF SendTo
<1>5. \A v \in Node : local_data'[v] = IF v = i /\ (starts \/ told) THEN 1 ELSE local_data[v]
  BY <1>1 DEF CastInv
<1>6. i \in Nat /\ e \in Nat /\ \A v \in Wooded : v \in Nat
  BY NodeNumbers DEF CastInv, TreeWalk, CarryInv, TypeOK, NetTypeOK, Wooded
<1>7. ASSUME i \in Wooded, i # 0, local_data[bfs_parent[i]] = 1, local_data[i] = 0 PROVE told
  <2>1. Told(i)
    BY <1>7 DEF CastInv
  <2> QED
    BY <1>7, <2>1 DEF Told, From
<1>8. ASSUME NEW v \in Wooded, depth'[v] < e' \/ (depth'[v] = e' /\ v < turn') PROVE local_data'[v] = 1
  <2>1. v \in Node /\ depth'[v] = depth[v] /\ depth[v] \in Nat /\ v \in Nat
    BY <1>1, <1>3, <1>6, TreeShape
  <2>2. CASE depth[v] < e \/ (depth[v] = e /\ v < turn)
    BY <1>5, <2>1, <2>2 DEF CastInv
  <2>3. CASE ~(depth[v] < e \/ (depth[v] = e /\ v < turn))
    <3>1. depth[v] = e /\ v = i
      BY <1>3, <1>6, <1>8, <2>1, <2>3
    <3>2. CASE i = 0
      <4>1. starts
        BY <1>3, <3>1, <3>2, TreeShape
      <4> QED
        BY <1>5, <3>1, <4>1
    <3>3. CASE i # 0
      <4>1. bfs_parent[i] \in Wooded /\ depth[i] = depth[bfs_parent[i]] + 1
        BY <1>3, <3>1, <3>3, TreeShape
      <4>2. depth[bfs_parent[i]] \in Nat
        BY <1>3, <4>1, TreeShape
      <4>3. depth[bfs_parent[i]] < e
        BY <3>1, <4>1, <4>2
      <4>4. local_data[bfs_parent[i]] = 1
        BY <4>1, <4>3 DEF CastInv
      <4>5. local_data[i] # 0 => local_data[i] = 1
        BY DEF CastInv
      <4>6. local_data[i] = 0 => told
        BY <1>7, <3>1, <3>3, <4>4
      <4> HIDE DEF told
      <4> QED
        BY <1>5, <3>1, <4>5, <4>6
    <3> QED
      BY <3>2, <3>3
  <2> QED
    BY <2>2, <2>3
<1>9. ASSUME NEW v \in Wooded, v # 0, local_data'[bfs_parent[v]] = 1, local_data'[v] = 0 PROVE Told(v)'
  <2>1. /\ v \in Node /\ v \in Nat /\ bfs_parent[v] \in Wooded /\ bfs_parent[v] \in Node /\ bfs_parent[v] # v
        /\ v \in Children(bfs_parent[v])
    BY <1>3, <1>6, <1>9, TreeShape
  <2>2. local_data[v] = 0 /\ ~(v = i /\ (starts \/ told))
    <3>1. local_data'[v] # 1
      BY <1>9
    <3> QED
      BY <1>5, <1>9, <2>1, <3>1
  <2>3. local_data[bfs_parent[v]] = 1 => v # i
    BY <1>7, <1>9, <2>2
  <2>4. CASE local_data[bfs_parent[v]] = 1
    <3>1. PICK m \in mail : /\ m.sender = bfs_parent[v] /\ m.receiver = v
                            /\ m.round = e \/ (m.round + 1 = e /\ v >= turn)
      BY <1>9, <2>2, <2>4 DEF CastInv, Told
    <3>2. v >= turn => v >= i + 1
      BY <1>3, <1>6, <2>1, <2>3, <2>4
    <3>3. m \in mail' /\ m.sender = bfs_parent'[v] /\ m.receiver = v
          /\ (m.round = e' \/ (m.round + 1 = e' /\ v >= turn'))
      BY <1>1, <1>3, <1>4, <3>1, <3>2
    <3> QED
      BY <3>3 DEF Told
  <2>5. CASE local_data[bfs_parent[v]] # 1
    <3>1. bfs_parent[v] = i /\ (starts \/ told)
      BY <1>5, <1>9, <2>1, <2>5
    <3>2. current_round[i] = e
      BY <1>3, <2>1, <3>1, TreeShape
    <3>3. [sender |-> i, receiver |-> v, round |-> e] \in mail'
      BY <1>4, <2>1, <3>1, <3>2
    <3> QED
      BY <1>1, <1>3, <3>1, <3>3 DEF Told
  <2> QED
    BY <2>4, <2>5
<1>10. local_data' \in [Node -> {0, 1}]
  BY <1>1 DEF CastInv
<1> HIDE DEF e, starts, told
<1>11. \A v \in Wooded' : v # 0 /\ (local_data')[bfs_parent'[v]] = 1 /\ (local_data')[v] = 0 => Told(v)'
  BY <1>1, <1>3, <1>9
<1> QED
  BY <1>3, <1>8, <1>10, <1>11 DEF CastInv, e

\* The end of an execution.
LEMMA CastEnds ==
  ASSUME CastInv, protocol = "BROADCAST", Synchronize
  PROVE  CastInv'
<1>1. /\ TreeWalk /\ TreeWalk' /\ turn = N /\ turn' = 0 /\ total_rounds_executed' = total_rounds_executed + 1
      /\ UNCHANGED <<treeVars, local_data>> /\ Wooded' = Wooded
      /\ mail' = {m \in mail : m.round >= current_round[m.receiver]}
  BY WalkEnds DEF CastInv
<1>2. bfs_parent' = bfs_parent /\ depth' = depth
  BY <1>1 DEF treeVars
<1>3. PICK e \in Nat : e = total_rounds_executed
  BY DEF CastInv, TreeWalk, CarryInv, TypeOK, NetTypeOK
<1>4. \A v \in Wooded : v \in Nat /\ v < N /\ depth[v] \in Nat /\ current_round[v] = e
  BY <1>1, <1>3, TreeShape, NodeNumbers
<1>5. ASSUME NEW v \in Wooded, depth[v] < e + 1 \/ (depth[v] = e + 1 /\ v < 0) PROVE local_data[v] = 1
  <2>1. depth[v] < e \/ (depth[v] = e /\ v < N)
    BY <1>4, <1>5
  <2> QED
    BY <1>1, <1>3, <2>1 DEF CastInv
<1>6. ASSUME NEW v \in Wooded, v # 0, local_data[bfs_parent[v]] = 1, local_data[v] = 0 PROVE Told(v)'
  <2>1. PICK m \in mail : /\ m.sender = bfs_parent[v] /\ m.receiver = v
                          /\ m.round = e \/ (m.round + 1 = e /\ v >= N)
    BY <1>1, <1>3, <1>6 DEF CastInv, Told
  <2>2. m.round = e
    BY <1>4, <2>1, NodeNumbers
  <2>3. m \in mail'
    BY <1>1, <1>4, <2>1, <2>2
  <2>4. m.round + 1 = total_rounds_executed' /\ v >= turn'
    BY <1>1, <1>3, <1>4, <2>2
  <2> QED
    BY <1>2, <2>1, <2>3, <2>4 DEF Told
<1>7. local_data' \in [Node -> {0, 1}]
  BY <1>1 DEF CastInv
<1>8. \A v \in Wooded' : v # 0 /\ (local_data')[bfs_parent'[v]] = 1 /\ (local_data')[v] = 0 => Told(v)'
  BY <1>1, <1>2, <1>6
<1> QED
  BY <1>1, <1>2, <1>3, <1>5, <1>7, <1>8 DEF CastInv

\* A step that changes nothing.
LEMMA CastRests ==
  ASSUME CastInv, UNCHANGED allVars
  PROVE  CastInv'
<1>1. TreeWalk' /\ Wooded' = Wooded
  BY WalkRests DEF CastInv
<1>2. UNCHANGED <<bfs_parent, depth, local_data, mail, total_rounds_executed, turn>>
  BY DEF allVars, vars, netVars, treeVars, protocolVars
<1>3. \A v : Told(v)' <=> Told(v)
  BY <1>2 DEF Told
<1> QED
  BY <1>1, <1>2, <1>3 DEF CastInv

--------------------------------------------------------------------------------
\* The convergecast: when a node reports.

\* The execution in which p = bfs_parent[c] can read the report of c.
Arrival(c, p) == IF c < p THEN ReportsIn(c) ELSE ReportsIn(c) + 1

\* The rule of ReportsIn, for any values of the children.
ReportsBy(u, f) ==
  LET arrivals == {IF c < u THEN f[c] ELSE f[c] + 1 : c \in Children(u)}
  IN  IF arrivals = {} THEN 0
      ELSE IF Cardinality(arrivals) = 1 /\ arrivals \subseteq 0 .. MaxExecutions
           THEN CHOOSE t \in arrivals : TRUE ELSE MaxExecutions

\* Nothing counts but the values of the children.
LEMMA ReportsByChildren ==
  ASSUME NEW u, NEW g, NEW h, \A c \in Children(u) : g[c] = h[c]
  PROVE  ReportsBy(u, g) = ReportsBy(u, h)
<1> DEFINE A(f) == {IF c < u THEN f[c] ELSE f[c] + 1 : c \in Children(u)}
<1>1. \A c \in Children(u) :
        (IF c < u THEN g[c] ELSE g[c] + 1) = (IF c < u THEN h[c] ELSE h[c] + 1)
  OBVIOUS
<1>2. A(g) = A(h)
  BY <1>1
<1> DEFINE R(B) == IF B = {} THEN 0
                   ELSE IF Cardinality(B) = 1 /\ B \subseteq 0 .. MaxExecutions
                        THEN CHOOSE t \in B : TRUE ELSE MaxExecutions
<1>3. ReportsBy(u, g) = R(A(g)) /\ ReportsBy(u, h) = R(A(h))
  BY DEF ReportsBy
<1> HIDE DEF A, R
<1> QED
  BY <1>2, <1>3

\* The rule is one: its values stabilise from the deepest nodes up.
LEMMA ReportsInRule ==
  ASSUME Wood
  PROVE  \E f \in [Node -> Nat] : \A u \in Node : ReportsIn(u) = f[u] /\ f[u] = ReportsBy(u, f)
<1> DEFINE S == [Node -> Nat]
           n == N + 2
           zero == [u \in Node |-> 0]
           G == [k \in 1 .. n |-> [g \in S |-> [u \in Node |-> ReportsBy(u, g)]]]
<1>1. N \in Nat /\ Node = 0 .. N - 1 /\ MaxExecutions \in Nat /\ n \in Nat /\ zero \in S
  BY NodeNumbers, NodeAssumption
<1>2. \A g \in S : \A u \in Node : ReportsBy(u, g) \in Nat
  <2> TAKE g \in S
  <2> TAKE u \in Node
  <2> DEFINE arrivals == {IF c < u THEN g[c] ELSE g[c] + 1 : c \in Children(u)}
  <2>1. arrivals # {} => (CHOOSE t \in arrivals : TRUE) \in arrivals
    <3> HIDE DEF arrivals
    <3> QED
      OBVIOUS
  <2>2. ReportsBy(u, g) = IF arrivals = {} THEN 0
                          ELSE IF Cardinality(arrivals) = 1 /\ arrivals \subseteq 0 .. MaxExecutions
                               THEN CHOOSE t \in arrivals : TRUE ELSE MaxExecutions
    BY DEF ReportsBy
  <2> HIDE DEF arrivals
  <2> QED
    BY <1>1, <2>1, <2>2
<1>3. G \in StepsOn(S, n)
  BY <1>2 DEF StepsOn
<1>4. PICK f : Unfolds(f, S, zero, n, G)
  <2> HIDE DEF G, S, n, zero
  <2> QED
    BY <1>1, <1>3, Recursion
<1>5. \A k \in 0 .. n : f[k] \in S
  BY <1>4 DEF Unfolds
<1>6. \A k \in 1 .. n : \A u \in Node : f[k][u] = ReportsBy(u, f[k - 1])
  <2> TAKE k \in 1 .. n
  <2>1. \A g \in S : G[k][g] = [u \in Node |-> ReportsBy(u, g)]
    OBVIOUS
  <2> HIDE DEF G
  <2>2. f[k] = G[k][f[k - 1]]
    BY <1>4 DEF Unfolds
  <2>3. k - 1 \in 0 .. n
    BY <1>1
  <2>4. f[k] = [u \in Node |-> ReportsBy(u, f[k - 1])]
    BY <1>5, <2>1, <2>2, <2>3
  <2> QED
    BY <2>4
<1> HIDE DEF G
<1>7. \A u \in Node : \A c \in Children(u) : c \in Node /\ depth[c] = depth[u] + 1
  BY NoneIsNoNode DEF Wood, Children
<1>8. \A u \in Node : depth[u] \in Int /\ depth[u] >= -1 /\ depth[u] < N
  BY <1>1 DEF Wood
<1> DEFINE Good == {k \in 0 .. N + 1 : \A u \in Node : depth[u] >= N - k => f[k + 1][u] = f[k][u]}
<1>9. 0 \in Good
  BY <1>1, <1>8
<1>10. \A k \in 1 .. N + 1 : k - 1 \in Good => k \in Good
  <2> SUFFICES ASSUME NEW k \in 1 .. N + 1, k - 1 \in Good,
                      NEW u \in Node, depth[u] >= N - k
               PROVE  f[k + 1][u] = f[k][u]
    BY <1>1
  <2>1. k \in 1 .. n /\ k + 1 \in 1 .. n /\ (k + 1) - 1 = k /\ (k - 1) + 1 = k
    BY <1>1
  <2>2. f[k + 1][u] = ReportsBy(u, f[k]) /\ f[k][u] = ReportsBy(u, f[k - 1])
    BY <1>6, <2>1
  <2>3. \A c \in Children(u) : f[k][c] = f[k - 1][c]
    <3> TAKE c \in Children(u)
    <3>1. c \in Node /\ depth[c] >= N - (k - 1)
      BY <1>1, <1>7, <1>8
    <3> QED
      BY <2>1, <3>1
  <2>4. PICK g : g = f[k]
    OBVIOUS
  <2>5. PICK h : h = f[k - 1]
    OBVIOUS
  <2>6. ReportsBy(u, g) = ReportsBy(u, h)
    BY <2>3, <2>4, <2>5, ReportsByChildren
  <2> QED
    BY <2>2, <2>4, <2>5, <2>6
<1> HIDE DEF Good
<1>11. N + 1 \in Good
  <2>1. N + 1 \in Nat
    BY <1>1
  <2>2. \A k \in 0 .. N + 1 : k \in Good
    BY <1>9, <1>10, <2>1, UpTo
  <2> QED
    BY <2>1, <2>2
<1>12. \A u \in Node : f[n][u] = f[N + 1][u]
  <2>1. (N + 1) + 1 = n /\ \A u \in Node : depth[u] >= N - (N + 1)
    BY <1>1, <1>8
  <2> QED
    BY <1>11, <2>1 DEF Good
<1>13. PICK g : g = f[N + 1] /\ g \in S /\ \A u \in Node : g[u] = ReportsBy(u, g)
  <2>1. N + 1 \in 0 .. n /\ n \in 1 .. n /\ n - 1 = N + 1
    BY <1>1
  <2>2. \A u \in Node : f[n][u] = ReportsBy(u, f[N + 1])
    BY <1>6, <2>1
  <2> QED
    BY <1>5, <1>12, <2>1, <2>2
<1> DEFINE in[u \in Node] ==
             LET arrivals == {IF c < u THEN in[c] ELSE in[c] + 1 : c \in Children(u)}
             IN  IF arrivals = {} THEN 0
                 ELSE IF Cardinality(arrivals) = 1 /\ arrivals \subseteq 0 .. MaxExecutions
                      THEN CHOOSE t \in arrivals : TRUE ELSE MaxExecutions
<1>14. \A u : ReportsIn(u) = in[u]
  BY DEF ReportsIn
<1>15. g = [u \in Node |-> ReportsBy(u, g)]
  BY <1>13
<1>16. in = [u \in Node |-> ReportsBy(u, in)]
  BY <1>15 DEF ReportsBy
<1> HIDE DEF in
<1>17. \A u \in Node : in[u] = ReportsBy(u, in)
  BY <1>16
<1> DEFINE Same == {k \in 0 .. N + 1 : \A u \in Node : depth[u] >= N - k => in[u] = g[u]}
<1>18. 0 \in Same
  BY <1>1, <1>8
<1>19. \A k \in 1 .. N + 1 : k - 1 \in Same => k \in Same
  <2> SUFFICES ASSUME NEW k \in 1 .. N + 1, k - 1 \in Same,
                      NEW u \in Node, depth[u] >= N - k
               PROVE  in[u] = g[u]
    BY <1>1
  <2>1. \A c \in Children(u) : in[c] = g[c]
    <3> TAKE c \in Children(u)
    <3>1. c \in Node /\ depth[c] >= N - (k - 1)
      BY <1>1, <1>7, <1>8
    <3> QED
      BY <3>1
  <2>2. ReportsBy(u, in) = ReportsBy(u, g)
    BY <2>1, ReportsByChildren
  <2> QED
    BY <1>13, <1>17, <2>2
<1> HIDE DEF Same
<1>20. N + 1 \in Same
  <2>1. N + 1 \in Nat
    BY <1>1
  <2>2. \A k \in 0 .. N + 1 : k \in Same
    BY <1>18, <1>19, <2>1, UpTo
  <2> QED
    BY <2>1, <2>2
<1>21. \A u \in Node : in[u] = g[u]
  <2>1. \A u \in Node : depth[u] >= N - (N + 1)
    BY <1>1, <1>8
  <2> QED
    BY <1>20, <2>1 DEF Same
<1>22. \A u \in Node : ReportsIn(u) = g[u]
  BY <1>14, <1>21
<1> QED
  BY <1>13, <1>22

\* A node reports in execution e if it has no children and e is 0, or if the reports of
\* all its children can be read in e.
LEMMA ReportsInAt ==
  ASSUME Wood, NEW u \in Node, NEW e \in Nat, e < MaxExecutions
  PROVE  /\ ReportsIn(u) \in Nat
         /\ ReportsIn(u) = e <=> /\ \A c \in Children(u) : Arrival(c, u) = e
                                 /\ Children(u) = {} => e = 0
<1>1. PICK f \in [Node -> Nat] : \A w \in Node : ReportsIn(w) = f[w] /\ f[w] = ReportsBy(w, f)
  BY ReportsInRule
<1>2. PICK arrivals : arrivals = {IF c < u THEN f[c] ELSE f[c] + 1 : c \in Children(u)}
  OBVIOUS
<1>3. f[u] = IF arrivals = {} THEN 0
             ELSE IF Cardinality(arrivals) = 1 /\ arrivals \subseteq 0 .. MaxExecutions
                  THEN CHOOSE t \in arrivals : TRUE ELSE MaxExecutions
  BY <1>1, <1>2 DEF ReportsBy
<1>4. \A c \in Children(u) : c \in Node
  BY DEF Children
<1>5. arrivals = {Arrival(c, u) : c \in Children(u)}
  BY <1>1, <1>2, <1>4 DEF Arrival
<1>6. arrivals = {} <=> Children(u) = {}
  BY <1>2
<1>7. MaxExecutions \in Nat
  BY NodeAssumption
<1>8. CASE arrivals = {}
  <2>1. ReportsIn(u) = 0 /\ Children(u) = {}
    BY <1>1, <1>3, <1>6, <1>8
  <2> QED
    BY <2>1
<1>9. CASE arrivals # {} /\ \E t \in 0 .. MaxExecutions : arrivals = {t}
  <2>1. PICK t \in 0 .. MaxExecutions : arrivals = {t}
    BY <1>9
  <2>2. Cardinality(arrivals) = 1
    BY <2>1, FS_Singleton
  <2>3. f[u] = t
    BY <1>3, <2>1, <2>2
  <2>4. t = e <=> \A c \in Children(u) : Arrival(c, u) = e
    BY <1>5, <1>6, <1>9, <2>1
  <2> QED
    BY <1>1, <1>6, <1>9, <2>3, <2>4
<1>10. CASE arrivals # {} /\ ~\E t \in 0 .. MaxExecutions : arrivals = {t}
  <2>1. ~(Cardinality(arrivals) = 1 /\ arrivals \subseteq 0 .. MaxExecutions)
    <3> SUFFICES ASSUME Cardinality(arrivals) = 1, arrivals \subseteq 0 .. MaxExecutions PROVE FALSE
      OBVIOUS
    <3>1. IsFiniteSet(0 .. MaxExecutions)
      BY <1>7, FS_Interval
    <3>2. IsFiniteSet(arrivals)
      BY <3>1, FS_Subset
    <3>3. PICK t : arrivals = {t}
      BY <3>2, FS_Singleton
    <3> QED
      BY <1>10, <3>3
  <2>2. f[u] = MaxExecutions
    BY <1>3, <1>10, <2>1
  <2>3. ~(\A c \in Children(u) : Arrival(c, u) = e)
    <3> SUFFICES ASSUME \A c \in Children(u) : Arrival(c, u) = e PROVE FALSE
      OBVIOUS
    <3>1. arrivals = {e}
      BY <1>5, <1>6, <1>10
    <3>2. e \in 0 .. MaxExecutions
      BY <1>7
    <3> QED
      BY <1>10, <3>1, <3>2
  <2> QED
    BY <1>1, <1>7, <2>2, <2>3
<1> QED
  BY <1>8, <1>9, <1>10

\* When a node reports depends on nothing but the tree.
LEMMA ReportsInStays ==
  ASSUME bfs_parent' = bfs_parent, NEW v
  PROVE  ReportsIn(v)' = ReportsIn(v)
BY SMT DEF ReportsIn, Children

\* Whether the report of c is still to be read by p = bfs_parent[c].
Pending(c, p) ==
  Arrival(c, p) > total_rounds_executed \/ (Arrival(c, p) = total_rounds_executed /\ p >= turn)

\* A report waits in the queue until its reader is called in the execution it arrives
\* in, and then leaves it, unless the reader has reported.
GatherInv ==
  /\ TreeWalk
  /\ reported = {v \in Node : /\ bfs_parent[v] # None
                              /\ \/ ReportsIn(v) < total_rounds_executed
                                 \/ ReportsIn(v) = total_rounds_executed /\ v < turn}
  /\ \A m \in mail : /\ m.sender \in reported /\ m.receiver = bfs_parent[m.sender]
                     /\ m.round = ReportsIn(m.sender) + 1
                     /\ m.receiver \notin reported => Pending(m.sender, m.receiver)
  /\ \A c \in reported : Pending(c, bfs_parent[c]) => \E m \in mail : m.sender = c

\* A protocol that starts to collect.
LEMMA GatherBegins ==
  ASSUME ProtocolInit, protocol = "CONVERGECAST"
  PROVE  GatherInv
<1>1. /\ TreeWalk /\ total_rounds_executed = 0 /\ turn = 0 /\ mail = {} /\ reported = {}
  BY WalkBegins
<1>2. Wood
  BY <1>1 DEF TreeWalk, CarryInv, Grown
<1>3. \A v \in Node : ReportsIn(v) \in Nat /\ v \in Nat
  BY <1>2, ReportsInRule, NodeNumbers
<1> QED
  BY <1>1, <1>3 DEF GatherInv

\* What a node with a parent has above it.
LEMMA ParentsAbove ==
  ASSUME TreeWalk, NEW c \in Node, bfs_parent[c] # None
  PROVE  /\ bfs_parent[c] \in Node /\ bfs_parent[c] # c /\ c \in Children(bfs_parent[c])
         /\ current_round[c] = total_rounds_executed
         /\ current_round[bfs_parent[c]] = total_rounds_executed
<1>1. Wood
  BY DEF TreeWalk, CarryInv, Grown
<1>2. c \in Wooded
  BY <1>1 DEF Wood, Wooded
<1>3. c # 0
  BY <1>2, TreeShape
<1>4. bfs_parent[c] \in Wooded
  BY <1>2, <1>3, TreeShape
<1> QED
  BY <1>2, <1>3, <1>4, TreeShape

\* One call: a node finds the reports that arrive in this execution, and reports if
\* all its children's do.
LEMMA GatherCalls ==
  ASSUME GatherInv, protocol = "CONVERGECAST", NEW i \in Node, Visit(i)
  PROVE  GatherInv'
<1> DEFINE heard == {c \in Children(i) : \E m \in From(i) : m.sender = c}
           reports == i \notin reported /\ heard = Children(i) /\ bfs_parent[i] # None
<1>1. /\ mail' = {m \in mail : ~(i \notin reported /\ m.receiver = i /\ m.sender \in heard)}
                   \cup IF reports THEN {[sender |-> i, receiver |-> bfs_parent[i],
                                           round |-> current_round[i] + 1]} ELSE {}
      /\ total_messages_sent' = total_messages_sent + IF reports THEN 1 ELSE 0
      /\ reported' = reported \cup IF reports THEN {i} ELSE {}
      /\ UNCHANGED <<local_data, bfs_parent, depth, current_round, state>>
  BY DEF Visit, ConvergecastRound
<1>2. total_messages_sent' \in Nat
  BY <1>1 DEF GatherInv, TreeWalk, CarryInv, TypeOK, NetTypeOK
<1>3. /\ TreeWalk' /\ turn = i /\ turn' = i + 1 /\ total_rounds_executed' = total_rounds_executed /\ TreeWalk
  BY <1>1, <1>2, WalkCalls DEF GatherInv
<1>4. PICK e \in Nat : e = total_rounds_executed /\ e' = e /\ e < MaxExecutions
  BY <1>3 DEF Visit, TreeWalk, CarryInv, TypeOK, NetTypeOK
<1>5. Wood
  BY <1>3 DEF TreeWalk, CarryInv, Grown
<1>6. /\ \A v \in Node : ReportsIn(v) \in Nat /\ v \in Nat
      /\ \A v : ReportsIn(v)' = ReportsIn(v)
  BY <1>1, <1>5, ReportsInRule, ReportsInStays, NodeNumbers
<1>7. \A c, p \in Node : /\ Arrival(c, p) \in Nat
                         /\ Arrival(c, p) = IF c < p THEN ReportsIn(c) ELSE ReportsIn(c) + 1
                         /\ Arrival(c, p)' = Arrival(c, p)
                         /\ Pending(c, p) <=> Arrival(c, p) > e \/ (Arrival(c, p) = e /\ p >= i)
                         /\ Pending(c, p)' <=> Arrival(c, p) > e \/ (Arrival(c, p) = e /\ p >= i + 1)
  BY <1>3, <1>4, <1>6 DEF Arrival, Pending
<1>8. reported = {v \in Node : /\ bfs_parent[v] # None
                               /\ ReportsIn(v) < e \/ (ReportsIn(v) = e /\ v < i)}
  BY <1>3, <1>4 DEF GatherInv
<1>9. \A m \in mail : /\ m.sender \in reported /\ m.receiver = bfs_parent[m.sender]
                      /\ m.round = ReportsIn(m.sender) + 1
                      /\ m.receiver \notin reported => Pending(m.sender, m.receiver)
  BY DEF GatherInv
<1>10. \A c \in reported : Pending(c, bfs_parent[c]) => \E m \in mail : m.sender = c
  BY DEF GatherInv
<1>11. \A c \in reported : /\ c \in Node /\ bfs_parent[c] \in Node /\ bfs_parent[c] # c
                           /\ c \in Children(bfs_parent[c])
  BY <1>3, <1>8, ParentsAbove
<1>12. \A c \in Children(i) : c \in Node /\ bfs_parent[c] = i /\ bfs_parent[c] # None /\ c # i
  <2> TAKE c \in Children(i)
  <2>1. c \in Node /\ bfs_parent[c] = i /\ bfs_parent[c] # None
    BY NoneIsNoNode DEF Children
  <2> QED
    BY <1>3, <2>1, ParentsAbove
<1>13. ASSUME i \notin reported, NEW c \in Children(i) PROVE c \in heard <=> Arrival(c, i) = e
  <2>1. ASSUME c \in heard PROVE Arrival(c, i) = e
    <3>1. PICK m \in mail : m.receiver = i /\ m.sender = c
      BY <2>1 DEF From
    <3>2. c \in reported /\ Pending(c, i)
      BY <1>9, <1>13, <3>1
    <3>3. ReportsIn(c) < e \/ (ReportsIn(c) = e /\ c < i)
      BY <1>8, <3>2
    <3>4. Arrival(c, i) <= e
      BY <1>6, <1>7, <1>12, <3>3
    <3> QED
      BY <1>7, <1>12, <3>2, <3>4
  <2>2. ASSUME Arrival(c, i) = e PROVE c \in heard
    <3>1. IF c < i THEN ReportsIn(c) = e ELSE ReportsIn(c) + 1 = e
      BY <1>7, <1>12, <2>2
    <3>2. ReportsIn(c) < e \/ (ReportsIn(c) = e /\ c < i)
      BY <1>6, <1>12, <3>1
    <3>3. c \in reported
      BY <1>8, <1>12, <3>2
    <3>4. Pending(c, i)
      BY <1>6, <1>7, <1>12, <2>2
    <3>5. PICK m \in mail : m.sender = c
      BY <1>10, <1>12, <3>3, <3>4
    <3>6. m.receiver = i
      BY <1>9, <1>12, <3>5
    <3> QED
      BY <1>13, <3>5, <3>6 DEF From
  <2> QED
    BY <2>1, <2>2
<1>14. reports <=> bfs_parent[i] # None /\ ReportsIn(i) = e
  <2>1. ReportsIn(i) = e <=> /\ \A c \in Children(i) : Arrival(c, i) = e
                             /\ Children(i) = {} => e = 0
    BY <1>4, <1>5, ReportsInAt
  <2>2. CASE i \in reported
    <3>1. ReportsIn(i) < e
      BY <1>6, <1>8, <2>2
    <3> QED
      BY <1>6, <2>2, <3>1
  <2>3. CASE i \notin reported
    <3>1. heard = Children(i) <=> \A c \in Children(i) : Arrival(c, i) = e
      BY <1>13, <2>3
    <3>2. bfs_parent[i] # None => ~(ReportsIn(i) < e)
      BY <1>8, <2>3
    <3>3. ASSUME bfs_parent[i] # None, Children(i) = {} PROVE e = 0
      <4>1. 0 < MaxExecutions /\ 0 \in Nat
        BY <1>4, NodeAssumption
      <4>2. ReportsIn(i) = 0
        BY <1>5, <3>3, <4>1, ReportsInAt
      <4> QED
        BY <1>4, <3>2, <3>3, <4>2
    <3> HIDE DEF heard
    <3> QED
      BY <2>1, <2>3, <3>1, <3>3
  <2> QED
    BY <2>2, <2>3
<1> HIDE DEF reports
<1>15. reported' = {v \in Node : /\ bfs_parent[v] # None
                                 /\ ReportsIn(v) < e \/ (ReportsIn(v) = e /\ v < i + 1)}
  <2>1. \A v \in Node : v < i + 1 <=> v < i \/ v = i
    BY <1>6
  <2>2. reported' = reported \cup IF bfs_parent[i] # None /\ ReportsIn(i) = e THEN {i} ELSE {}
    BY <1>1, <1>14
  <2> QED
    BY <1>8, <2>1, <2>2
<1>16. ASSUME NEW m \in mail'
       PROVE  /\ m.sender \in reported' /\ m.receiver = bfs_parent[m.sender]
              /\ m.round = ReportsIn(m.sender) + 1
              /\ m.receiver \notin reported' => Pending(m.sender, m.receiver)'
  <2>1. CASE m \in mail
    <3>1. /\ m.sender \in reported /\ m.receiver = bfs_parent[m.sender] /\ m.round = ReportsIn(m.sender) + 1
          /\ m.sender \in reported' /\ m.receiver \in Node /\ m.sender \in Node
      BY <1>1, <1>9, <1>11, <2>1
    <3>2. ASSUME m.receiver \notin reported' PROVE Pending(m.sender, m.receiver)'
      <4>1. Pending(m.sender, m.receiver) /\ m.receiver \notin reported
        BY <1>1, <1>9, <2>1, <3>2
      <4>2. CASE m.receiver = i
        <5>1. m.sender \in heard
          BY <1>11, <2>1, <3>1, <4>2 DEF From
        <5> HIDE DEF heard
        <5>2. m \notin mail' \/ (reports /\ m.sender = i)
          BY <1>1, <4>1, <4>2, <5>1
        <5>3. m.sender # i
          BY <1>11, <3>1, <4>2
        <5> QED
          BY <1>16, <5>2, <5>3
      <4>3. CASE m.receiver # i
        BY <1>6, <1>7, <3>1, <4>1, <4>3
      <4> QED
        BY <4>2, <4>3
    <3> QED
      BY <3>1, <3>2
  <2>2. CASE m \notin mail
    <3>1. reports /\ m = [sender |-> i, receiver |-> bfs_parent[i], round |-> current_round[i] + 1]
      BY <1>1, <1>16, <2>2
    <3>2. bfs_parent[i] # None /\ ReportsIn(i) = e
      BY <1>14, <3>1
    <3>3. bfs_parent[i] \in Node /\ bfs_parent[i] # i /\ current_round[i] = e
      BY <1>3, <1>4, <3>2, ParentsAbove
    <3>4. i \in reported'
      BY <1>1, <3>1
    <3>5. Pending(i, bfs_parent[i])'
      <4>1. PICK p \in Node : p = bfs_parent[i] /\ p # i
        BY <3>3
      <4>2. Pending(i, p)'
        BY <1>6, <1>7, <3>2, <4>1
      <4> QED
        BY <1>1, <4>1, <4>2
    <3>6. m.sender = i /\ m.receiver = bfs_parent[i] /\ m.round = e + 1
      BY <3>1, <3>3
    <3> QED
      BY <1>1, <3>2, <3>4, <3>5, <3>6
  <2> QED
    BY <2>1, <2>2
<1>17. ASSUME NEW c \in reported', Pending(c, bfs_parent[c])'
       PROVE  \E m \in mail' : m.sender = c
  <2>1. CASE c \in reported
    <3>1. PICK p \in Node : p = bfs_parent[c] /\ c \in Node /\ c \in Children(p)
      BY <1>11, <2>1
    <3>2. Pending(c, p)'
      BY <1>1, <1>17, <3>1
    <3>3. Arrival(c, p) > e \/ (Arrival(c, p) = e /\ p >= i + 1)
      BY <1>7, <3>1, <3>2
    <3>4. Pending(c, bfs_parent[c])
      BY <1>6, <1>7, <3>1, <3>3
    <3>5. PICK m \in mail : m.sender = c
      BY <1>10, <2>1, <3>4
    <3>6. ~(i \notin reported /\ m.receiver = i /\ m.sender \in heard)
      <4> SUFFICES ASSUME i \notin reported, m.receiver = i, m.sender \in heard PROVE FALSE
        OBVIOUS
      <4>1. c \in heard /\ c \in Children(i)
        BY <3>5
      <4> HIDE DEF heard
      <4>2. Arrival(c, i) = e /\ p = i
        BY <1>12, <1>13, <3>1, <4>1
      <4> QED
        BY <1>6, <3>3, <4>2
    <3> HIDE DEF heard
    <3> QED
      BY <1>1, <3>5, <3>6
  <2>2. CASE c \notin reported
    <3>1. reports /\ c = i
      BY <1>1, <2>2
    <3>2. [sender |-> i, receiver |-> bfs_parent[i], round |-> current_round[i] + 1] \in mail'
      BY <1>1, <3>1
    <3> QED
      BY <3>1, <3>2
  <2> QED
    BY <2>1, <2>2
<1>18. \A m \in mail' : /\ m.sender \in reported' /\ m.receiver = bfs_parent'[m.sender]
                        /\ m.round = ReportsIn(m.sender)' + 1
                        /\ m.receiver \notin reported' => Pending(m.sender, m.receiver)'
  BY <1>1, <1>6, <1>16
<1> HIDE DEF heard
<1>19. reported' = {v \in Node : /\ bfs_parent'[v] # None
                                 /\ \/ ReportsIn(v)' < total_rounds_executed'
                                    \/ ReportsIn(v)' = total_rounds_executed' /\ v < turn'}
  BY <1>1, <1>3, <1>4, <1>6, <1>15
<1> QED
  BY <1>3, <1>17, <1>18, <1>19 DEF GatherInv

\* The end of an execution: what can no longer be read is dropped.
LEMMA GatherEnds ==
  ASSUME GatherInv, protocol = "CONVERGECAST", Synchronize
  PROVE  GatherInv'
<1>1. /\ TreeWalk /\ TreeWalk' /\ turn = N /\ turn' = 0 /\ total_rounds_executed' = total_rounds_executed + 1
      /\ UNCHANGED <<treeVars, reported>>
      /\ mail' = {m \in mail : m.round >= current_round[m.receiver]}
  BY WalkEnds DEF GatherInv
<1>2. bfs_parent' = bfs_parent
  BY <1>1 DEF treeVars
<1>3. PICK e \in Nat : e = total_rounds_executed
  BY DEF GatherInv, TreeWalk, CarryInv, TypeOK, NetTypeOK
<1>4. Wood
  BY <1>1 DEF TreeWalk, CarryInv, Grown
<1>5. /\ \A v \in Node : ReportsIn(v) \in Nat /\ v \in Nat /\ v < N
      /\ \A v : ReportsIn(v)' = ReportsIn(v)
  BY <1>2, <1>4, ReportsInRule, ReportsInStays, NodeNumbers
<1>6. \A c, p \in Node : /\ Arrival(c, p) \in Nat /\ Arrival(c, p) <= ReportsIn(c) + 1
                         /\ Pending(c, p) <=> Arrival(c, p) > e
                         /\ Pending(c, p)' <=> Arrival(c, p) > e
  <2> SUFFICES ASSUME NEW c \in Node, NEW p \in Node
               PROVE  /\ Arrival(c, p) \in Nat /\ Arrival(c, p) <= ReportsIn(c) + 1
                      /\ Pending(c, p) <=> Arrival(c, p) > e
                      /\ Pending(c, p)' <=> Arrival(c, p) > e
    OBVIOUS
  <2>1. Arrival(c, p) \in Nat /\ Arrival(c, p) <= ReportsIn(c) + 1 /\ Arrival(c, p)' = Arrival(c, p)
    BY <1>5 DEF Arrival
  <2>2. Pending(c, p) <=> Arrival(c, p) > e \/ (Arrival(c, p) = e /\ p >= N)
    BY <1>1, <1>3 DEF Pending
  <2>3. Pending(c, p)' <=> Arrival(c, p) > e + 1 \/ (Arrival(c, p) = e + 1 /\ p >= 0)
    BY <1>1, <1>3, <2>1 DEF Pending
  <2>4. p \in Nat /\ p < N /\ N \in Nat
    BY <1>5, NodeNumbers
  <2> QED
    BY <2>1, <2>2, <2>3, <2>4
<1>7. reported = {v \in Node : bfs_parent[v] # None /\ (ReportsIn(v) < e \/ (ReportsIn(v) = e /\ v < N))}
  BY <1>1, <1>3 DEF GatherInv
<1>8. reported' = {v \in Node : bfs_parent[v] # None /\ (ReportsIn(v) < e + 1 \/ (ReportsIn(v) = e + 1 /\ v < 0))}
  <2>1. \A v \in Node : (ReportsIn(v) < e \/ (ReportsIn(v) = e /\ v < N))
                          <=> (ReportsIn(v) < e + 1 \/ (ReportsIn(v) = e + 1 /\ v < 0))
    BY <1>5
  <2> QED
    BY <1>1, <1>7, <2>1
<1>9. \A c \in reported : c \in Node /\ bfs_parent[c] \in Node /\ current_round[bfs_parent[c]] = e
  BY <1>1, <1>3, <1>7, ParentsAbove
<1>10. ASSUME NEW m \in mail'
       PROVE  /\ m.sender \in reported /\ m.receiver = bfs_parent[m.sender]
              /\ m.round = ReportsIn(m.sender) + 1
              /\ m.receiver \notin reported => Pending(m.sender, m.receiver)'
  <2>1. /\ m \in mail /\ m.sender \in reported /\ m.receiver = bfs_parent[m.sender] /\ m.round = ReportsIn(m.sender) + 1
        /\ m.receiver \notin reported => Pending(m.sender, m.receiver)
    BY <1>1, <1>10 DEF GatherInv
  <2>2. m.sender \in Node /\ m.receiver \in Node
    BY <1>9, <2>1
  <2> QED
    BY <1>6, <2>1, <2>2
<1>11. ASSUME NEW c \in reported, Pending(c, bfs_parent[c])'
       PROVE  \E m \in mail' : m.sender = c
  <2>1. PICK p \in Node : p = bfs_parent[c] /\ c \in Node /\ current_round[p] = e
    BY <1>9
  <2>2. Pending(c, p)'
    BY <1>2, <1>11, <2>1
  <2>3. Arrival(c, p) > e /\ Pending(c, p)
    BY <1>6, <2>1, <2>2
  <2>4. PICK m \in mail : m.sender = c
    BY <2>1, <2>3 DEF GatherInv
  <2>5. m.receiver = p /\ m.round = ReportsIn(c) + 1
    BY <2>1, <2>4 DEF GatherInv
  <2>6. m.round >= e
    BY <1>5, <1>6, <2>1, <2>3, <2>5
  <2> QED
    BY <1>1, <2>1, <2>4, <2>5, <2>6
<1>12. reported' = {v \in Node : /\ bfs_parent'[v] # None
                                 /\ \/ ReportsIn(v)' < total_rounds_executed'
                                    \/ ReportsIn(v)' = total_rounds_executed' /\ v < turn'}
  BY <1>1, <1>2, <1>3, <1>5, <1>8
<1>13. \A m \in mail' : /\ m.sender \in reported' /\ m.receiver = bfs_parent'[m.sender]
                        /\ m.round = ReportsIn(m.sender)' + 1
                        /\ m.receiver \notin reported' => Pending(m.sender, m.receiver)'
  BY <1>1, <1>2, <1>5, <1>10
<1>14. \A c \in reported' : Pending(c, bfs_parent[c])' => \E m \in mail' : m.sender = c
  BY <1>1, <1>11
<1> QED
  BY <1>1, <1>12, <1>13, <1>14 DEF GatherInv

\* A step that changes nothing.
LEMMA GatherRests ==
  ASSUME GatherInv, UNCHANGED allVars
  PROVE  GatherInv'
<1>1. TreeWalk'
  BY WalkRests DEF GatherInv
<1>2. UNCHANGED <<bfs_parent, reported, mail, total_rounds_executed, turn>>
  BY DEF allVars, vars, netVars, treeVars, protocolVars
<1>3. \A v : ReportsIn(v)' = ReportsIn(v)
  BY <1>2, ReportsInStays
<1>4. \A c, p : Arrival(c, p)' = Arrival(c, p)
  BY <1>3 DEF Arrival
<1>5. \A c, p : Pending(c, p)' <=> Pending(c, p)
  BY <1>2, <1>4 DEF Pending
<1>6. \A c : Pending(c, bfs_parent[c])' <=> Pending(c, bfs_parent[c])
  BY <1>2, <1>4 DEF Pending
<1>7. reported' = {v \in Node : /\ bfs_parent'[v] # None
                                /\ \/ ReportsIn(v)' < total_rounds_executed'
                                   \/ ReportsIn(v)' = total_rounds_executed' /\ v < turn'}
  BY <1>2, <1>3 DEF GatherInv
<1> QED
  BY <1>1, <1>2, <1>3, <1>5, <1>6, <1>7 DEF GatherInv

\* Who has reported between two executions.
LEMMA GatherConcludes ==
  ASSUME GatherInv, turn = 0
  PROVE  reported = {v \in Node : bfs_parent[v] # None /\ ReportsIn(v) < total_rounds_executed}
<1>1. \A v \in Node : ~(v < 0)
  BY NodeNumbers
<1> QED
  BY <1>1 DEF GatherInv

--------------------------------------------------------------------------------
\* The self-stabilizing synchronizer: rounds left by a fault are reconciled.

\* Nodes have a highest value, and Highest finds it.
LEMMA HighestRule ==
  ASSUME NEW f \in [Node -> Nat], NEW T \in SUBSET Node, T # {}
  PROVE  /\ Highest({f[y] : y \in T}) \in {f[y] : y \in T}
         /\ \A y \in T : f[y] <= Highest({f[x] : x \in T})
<1>1. N \in Nat /\ Node = 0 .. N - 1
  BY NodeNumbers
<1> DEFINE Good == {n \in 0 .. N : \E b \in Nat : \A y \in T : y < n => f[y] <= b}
<1>2. 0 \in Good
  <2>1. \A y \in T : ~(y < 0)
    BY <1>1
  <2> QED
    BY <1>1, <2>1
<1>3. ASSUME NEW n \in 1 .. N, n - 1 \in Good PROVE n \in Good
  <2>1. PICK b \in Nat : \A y \in T : y < n - 1 => f[y] <= b
    BY <1>3
  <2>2. n - 1 \in Node /\ f[n - 1] \in Nat
    BY <1>1
  <2>3. \A y \in T : y < n => f[y] <= b + f[n - 1]
    <3> SUFFICES ASSUME NEW y \in T, y < n PROVE f[y] <= b + f[n - 1]
      OBVIOUS
    <3>1. y < n - 1 \/ y = n - 1
      BY <1>1
    <3>2. f[y] \in Nat
      OBVIOUS
    <3> QED
      BY <2>1, <2>2, <3>1, <3>2
  <2>4. b + f[n - 1] \in Nat
    BY <2>2
  <2> QED
    BY <1>1, <2>3, <2>4
<1> HIDE DEF Good
<1>4. N \in Good
  <2>1. \A n \in 0 .. N : n \in Good
    BY <1>1, <1>2, <1>3, UpTo
  <2> QED
    BY <1>1, <2>1
<1> DEFINE Bounds == {b \in Nat : \A y \in T : f[y] <= b}
<1>5. Bounds # {} /\ Bounds \subseteq Nat
  <2>1. PICK b \in Nat : \A y \in T : y < N => f[y] <= b
    BY <1>4 DEF Good
  <2>2. \A y \in T : y < N
    BY <1>1
  <2> QED
    BY <2>1, <2>2
<1>6. PICK b \in Bounds : \A x \in Bounds : b <= x
  <2> HIDE DEF Bounds
  <2> QED
    BY <1>5, LeastMember
<1>7. b \in Nat /\ \A y \in T : f[y] \in Nat /\ f[y] <= b
  OBVIOUS
<1>8. \E y \in T : f[y] = b
  <2>1. CASE b = 0
    <3>1. PICK y \in T : TRUE
      OBVIOUS
    <3> QED
      BY <1>7, <2>1, <3>1
  <2>2. CASE b > 0
    <3>1. b - 1 \in Nat /\ b - 1 \notin Bounds
      BY <1>6, <1>7, <2>2
    <3>2. PICK y \in T : ~(f[y] <= b - 1)
      BY <3>1
    <3> QED
      BY <1>7, <2>2, <3>2
  <2> QED
    BY <1>7, <2>1, <2>2
<1> DEFINE S == {f[y] : y \in T}
<1>9. b \in S /\ \A x \in S : x <= b
  BY <1>7, <1>8
<1>10. S \subseteq Nat
  OBVIOUS
<1> HIDE DEF S
<1>11. Highest(S) \in S /\ \A x \in S : x <= Highest(S)
  BY <1>9 DEF Highest
<1> QED
  BY <1>11 DEF S

\* Who has been called has told its neighbours, and has read those before it.
Beats ==
  /\ Edges /\ synchro_type = "ALPHA" /\ turn \in 0 .. N /\ total_rounds_executed \in Nat
  /\ current_round \in [Node -> Nat]
  /\ \A m \in incoming : m.sender \in Node /\ m.round \in Nat /\ m.round <= current_round[m.sender]
  /\ \A m \in mail : m.sender \in Node /\ m.receiver \in Neighbors(m.sender)
  /\ \A u \in Node : total_rounds_executed > 0 \/ u < turn =>
       \A j \in Neighbors(u) : \E m \in mail : m.sender = u /\ m.receiver = j
  /\ \A i \in Node : \A k \in Neighbors(i) : k < i /\ i < turn => current_round[k] <= current_round[i]

\* How many nodes have a value of at least x.
HowMany(f, x) == Cardinality({w \in Node : f[w] >= x})

\* The rounds pre after the last execution's calls and a after the execution itself: along
\* an edge they rise with the identifiers, and each execution adds a node to those that
\* are at the far end of a wider gap.
Since(pre, a) ==
  /\ pre \in [Node -> Nat] /\ a \in [Node -> Nat]
  /\ \A v \in Node : a[v] = pre[v] \/ (a[v] = pre[v] + 1 /\ \A j \in Neighbors(v) : pre[j] >= pre[v])
  /\ \A v \in Node : \A j \in Neighbors(v) : v < j =>
       /\ pre[v] <= pre[j]
       /\ pre[j] >= pre[v] + 2 => HowMany(pre, pre[j]) >= total_rounds_executed
  /\ \A v \in Node : v >= turn => current_round[v] = a[v]
  /\ \A v \in Node : v < turn =>
       /\ current_round[v] >= a[v] /\ \A j \in Neighbors(v) : current_round[v] >= a[j]
       /\ \/ current_round[v] <= pre[v] + 1
          \/ \E l \in Node : \E j \in Neighbors(l) : l < j /\ pre[l] <= pre[v] /\ a[j] = current_round[v]

FaultInv == Beats /\ (total_rounds_executed > 0 => \E pre, a : Since(pre, a))

\* Any rounds that a fault may leave.
LEMMA FaultBegins ==
  ASSUME ProtocolInit, protocol = "SELF_STABILIZING"
  PROVE  FaultInv
<1>1. /\ neighbors \in Graphs /\ synchro_type = "ALPHA" /\ turn = 0 /\ mail = {}
      /\ current_round \in [Node -> Rounds] /\ incoming = {} /\ total_rounds_executed = 0
  BY DEF ProtocolInit
<1>2. current_round \in [Node -> Nat]
  BY <1>1, ProtocolAssumption
<1>3. Edges
  BY <1>1, GraphsHaveEdges
<1>4. \A u \in Node : ~(u < 0)
  BY NodeNumbers
<1>5. turn \in 0 .. N
  BY <1>1, NodeNumbers
<1> QED
  BY <1>1, <1>2, <1>3, <1>4, <1>5 DEF FaultInv, Beats

\* One call: the node takes the highest round of its neighbours that have told it.
LEMMA FaultReads ==
  ASSUME Beats, protocol = "SELF_STABILIZING", NEW i \in Node, Visit(i)
  PROVE  /\ turn = i /\ turn' = i + 1 /\ UNCHANGED <<neighbors, incoming, total_rounds_executed, synchro_type>>
         /\ current_round' \in [Node -> Nat]
         /\ \A v \in Node : v # i => current_round'[v] = current_round[v]
         /\ current_round'[i] >= current_round[i]
         /\ \A k \in Neighbors(i) : total_rounds_executed > 0 \/ k < i => current_round'[i] >= current_round[k]
         /\ \/ current_round'[i] = current_round[i]
            \/ \E k \in Neighbors(i) : current_round'[i] = current_round[k]
         /\ mail' = mail \cup {[sender |-> i, receiver |-> j, round |-> current_round[i]] : j \in Neighbors(i)}
<1> DEFINE T == {m.sender : m \in From(i)} \cup {i}
           top == Highest({current_round[y] : y \in T})
<1>1. /\ turn = i /\ turn' = i + 1 /\ UNCHANGED <<neighbors, incoming, total_rounds_executed, synchro_type>>
      /\ SelfStabilizingRound(i)
  BY DEF Visit
<1>2. {current_round[m.sender] : m \in From(i)} \cup {current_round[i]} = {current_round[y] : y \in T}
  OBVIOUS
<1>3. current_round' = [current_round EXCEPT ![i] = top]
  BY <1>1, <1>2 DEF SelfStabilizingRound
<1>4. /\ current_round \in [Node -> Nat] /\ Edges
      /\ \A m \in mail : m.sender \in Node /\ m.receiver \in Neighbors(m.sender)
      /\ \A u \in Node : total_rounds_executed > 0 \/ u < i =>
           \A j \in Neighbors(u) : \E m \in mail : m.sender = u /\ m.receiver = j
  BY <1>1 DEF Beats
<1>5. \A j, k \in Node : k \in Neighbors(j) => j \in Neighbors(k)
  BY <1>4 DEF Edges, Symmetric
<1>6. /\ T \in SUBSET Node /\ i \in T /\ \A y \in T : y = i \/ y \in Neighbors(i)
      /\ \A k \in Neighbors(i) : total_rounds_executed > 0 \/ k < i => k \in T
  <2>1. \A m \in From(i) : m.sender \in Node /\ m.sender \in Neighbors(i)
    BY <1>4, <1>5 DEF From
  <2>2. ASSUME NEW k \in Neighbors(i), total_rounds_executed > 0 \/ k < i PROVE k \in T
    <3>1. k \in Node /\ i \in Neighbors(k)
      BY <1>4, <1>5 DEF Edges
    <3>2. PICK m \in mail : m.sender = k /\ m.receiver = i
      BY <1>4, <2>2, <3>1
    <3> QED
      BY <3>2 DEF From
  <2> QED
    BY <2>1, <2>2
<1> HIDE DEF T
<1>7. top \in {current_round[y] : y \in T} /\ \A y \in T : current_round[y] <= top
  BY <1>4, <1>6, HighestRule
<1>8. top \in Nat /\ \A y \in T : current_round[y] \in Nat /\ top >= current_round[y]
  BY <1>4, <1>6, <1>7
<1> HIDE DEF top
<1>9. current_round' \in [Node -> Nat] /\ current_round'[i] = top /\ \A v \in Node : v # i => current_round'[v] = current_round[v]
  BY <1>3, <1>4, <1>8
<1>10. mail' = mail \cup {[sender |-> i, receiver |-> j, round |-> current_round[i]] : j \in Neighbors(i)}
  BY <1>1 DEF SelfStabilizingRound, SendTo
<1>11. top = current_round[i] \/ \E k \in Neighbors(i) : top = current_round[k]
  BY <1>6, <1>7
<1> QED
  BY <1>1, <1>6, <1>8, <1>9, <1>10, <1>11

\* One call keeps the invariant: a node rises to a round its neighbours were in after the
\* last execution, or to one that a node below it has passed on.
LEMMA FaultCalls ==
  ASSUME FaultInv, protocol = "SELF_STABILIZING", NEW i \in Node, Visit(i)
  PROVE  FaultInv'
<1> DEFINE cr == current_round
<1>1. /\ turn = i /\ turn' = i + 1 /\ UNCHANGED <<neighbors, incoming, total_rounds_executed, synchro_type>>
      /\ cr' \in [Node -> Nat]
      /\ \A v \in Node : v # i => cr'[v] = cr[v]
      /\ cr'[i] >= cr[i]
      /\ \A k \in Neighbors(i) : total_rounds_executed > 0 \/ k < i => cr'[i] >= cr[k]
      /\ cr'[i] = cr[i] \/ \E k \in Neighbors(i) : cr'[i] = cr[k]
      /\ mail' = mail \cup {[sender |-> i, receiver |-> j, round |-> cr[i]] : j \in Neighbors(i)}
  BY FaultReads DEF FaultInv
<1>2. PICK e \in Nat : e = total_rounds_executed /\ e' = e /\ total_rounds_executed' = e
  BY <1>1 DEF FaultInv, Beats
<1>3. /\ N \in Nat /\ Node = 0 .. N - 1 /\ \A j \in Node : Neighbors(j) \subseteq Node \ {j}
      /\ \A j, k \in Node : k \in Neighbors(j) => j \in Neighbors(k)
      /\ \A j : Neighbors(j)' = Neighbors(j)
      /\ cr \in [Node -> Nat] /\ \A v \in Node : cr[v] \in Nat /\ cr'[v] \in Nat /\ cr'[v] >= cr[v]
  <2>1. cr \in [Node -> Nat] /\ Edges
    BY DEF FaultInv, Beats
  <2>2. \A v \in Node : cr[v] \in Nat /\ cr'[v] \in Nat
    BY <1>1, <2>1
  <2>3. \A v \in Node : cr'[v] >= cr[v]
    BY <1>1, <2>2
  <2>4. \A j : Neighbors(j)' = Neighbors(j)
    BY <1>1 DEF Neighbors
  <2> QED
    BY <2>1, <2>2, <2>3, <2>4, NodeNumbers DEF Edges, Symmetric
<1>4. Edges' /\ synchro_type' = "ALPHA" /\ turn' \in 0 .. N
  BY <1>1, <1>3 DEF FaultInv, Beats, Edges, Symmetric
<1>5. \A m \in incoming' : m.sender \in Node /\ m.round \in Nat /\ m.round <= cr'[m.sender]
  <2> TAKE m \in incoming'
  <2>1. m.sender \in Node /\ m.round \in Nat /\ m.round <= cr[m.sender]
    BY <1>1 DEF FaultInv, Beats
  <2> QED
    BY <1>3, <2>1
<1>6. \A m \in mail' : m.sender \in Node /\ m.receiver \in Neighbors(m.sender)'
  BY <1>1, <1>3 DEF FaultInv, Beats
<1>7. ASSUME NEW u \in Node, e > 0 \/ u < i + 1, NEW j \in Neighbors(u)
      PROVE  \E m \in mail' : m.sender = u /\ m.receiver = j
  <2>1. CASE u = i
    <3>1. [sender |-> i, receiver |-> j, round |-> cr[i]] \in mail'
      BY <1>1, <1>7, <2>1
    <3> QED
      BY <2>1, <3>1
  <2>2. CASE u # i
    <3>1. e > 0 \/ u < turn
      BY <1>1, <1>3, <1>7, <2>2
    <3> QED
      BY <1>1, <1>2, <1>7, <3>1 DEF FaultInv, Beats
  <2> QED
    BY <2>1, <2>2
<1>8. ASSUME NEW v \in Node, NEW k \in Neighbors(v), k < v, v < i + 1
      PROVE  cr'[k] <= cr'[v]
  <2>1. k \in Node /\ k # i
    BY <1>3, <1>8
  <2>2. cr'[k] = cr[k]
    BY <1>1, <2>1
  <2>3. CASE v = i
    BY <1>1, <1>3, <1>8, <2>1, <2>2, <2>3
  <2>4. CASE v # i
    <3>1. v < turn
      BY <1>1, <1>3, <1>8, <2>4
    <3>2. cr[k] <= cr[v]
      BY <1>8, <3>1 DEF FaultInv, Beats
    <3> QED
      BY <1>1, <1>8, <2>2, <2>4, <3>2
  <2> QED
    BY <2>3, <2>4
<1>9. Beats'
  <2>1. \A u \in Node : total_rounds_executed' > 0 \/ u < turn' =>
          \A j \in Neighbors(u)' : \E m \in mail' : m.sender = u /\ m.receiver = j
    BY <1>1, <1>2, <1>3, <1>7
  <2>2. \A v \in Node : \A k \in Neighbors(v)' : k < v /\ v < turn' => cr'[k] <= cr'[v]
    BY <1>1, <1>3, <1>8
  <2> QED
    BY <1>1, <1>2, <1>4, <1>5, <1>6, <2>1, <2>2 DEF Beats
<1>10. ASSUME e > 0, NEW pre, NEW a, Since(pre, a)
       PROVE  Since(pre, a)'
  <2>1. /\ pre \in [Node -> Nat] /\ a \in [Node -> Nat]
        /\ \A v \in Node : a[v] = pre[v] \/ (a[v] = pre[v] + 1 /\ \A j \in Neighbors(v) : pre[j] >= pre[v])
        /\ \A v \in Node : \A j \in Neighbors(v) : v < j =>
             /\ pre[v] <= pre[j]
             /\ pre[j] >= pre[v] + 2 => HowMany(pre, pre[j]) >= total_rounds_executed
        /\ \A v \in Node : v >= i => cr[v] = a[v]
        /\ \A v \in Node : v < i =>
             /\ cr[v] >= a[v] /\ \A j \in Neighbors(v) : cr[v] >= a[j]
             /\ \/ cr[v] <= pre[v] + 1
                \/ \E l \in Node : \E j \in Neighbors(l) : l < j /\ pre[l] <= pre[v] /\ a[j] = cr[v]
    BY <1>1, <1>10 DEF Since
  <2>2. \A v \in Node : pre[v] \in Nat /\ a[v] \in Nat /\ (a[v] = pre[v] \/ a[v] = pre[v] + 1) /\ cr[v] >= a[v]
    <3> TAKE v \in Node
    <3>1. v >= i \/ v < i
      BY <1>3
    <3> QED
      BY <1>3, <2>1, <3>1
  <2>3. \A v \in Node : v >= i + 1 => cr'[v] = a[v]
    <3> SUFFICES ASSUME NEW v \in Node, v >= i + 1 PROVE cr'[v] = a[v]
      OBVIOUS
    <3>1. v # i /\ v >= i
      BY <1>3
    <3> QED
      BY <1>1, <2>1, <3>1
  <2>4. ASSUME NEW v \in Node, v < i + 1
        PROVE  cr'[v] >= a[v] /\ \A j \in Neighbors(v) : cr'[v] >= a[j]
    <3>1. CASE v # i
      <4>1. v < i /\ cr'[v] = cr[v]
        BY <1>1, <1>3, <2>4, <3>1
      <4> QED
        BY <2>1, <4>1
    <3>2. CASE v = i
      <4>1. cr'[i] >= a[i]
        BY <1>3, <2>2
      <4>2. \A j \in Neighbors(i) : cr'[i] >= a[j]
        <5> TAKE j \in Neighbors(i)
        <5>1. cr'[i] >= cr[j] /\ j \in Node
          BY <1>1, <1>2, <1>3, <1>10
        <5> QED
          BY <1>3, <2>2, <5>1
      <4> QED
        BY <3>2, <4>1, <4>2
    <3> QED
      BY <3>1, <3>2
  <2>5. ASSUME NEW v \in Node, v < i + 1
        PROVE  \/ cr'[v] <= pre[v] + 1
               \/ \E l \in Node : \E j \in Neighbors(l) : l < j /\ pre[l] <= pre[v] /\ a[j] = cr'[v]
    <3>1. CASE v # i
      <4>1. v < i /\ cr'[v] = cr[v]
        BY <1>1, <1>3, <2>5, <3>1
      <4> QED
        BY <2>1, <4>1
    <3>2. CASE v = i /\ cr'[i] = cr[i]
      <4>1. cr[i] = a[i]
        BY <1>3, <2>1
      <4> QED
        BY <2>2, <3>2, <4>1
    <3>3. CASE v = i /\ \E k \in Neighbors(i) : cr'[i] = cr[k]
      <4>1. PICK k \in Neighbors(i) : cr'[i] = cr[k]
        BY <3>3
      <4>2. k \in Node /\ k # i /\ i \in Neighbors(k)
        BY <1>3
      <4>3. CASE k > i
        <5>1. cr[k] = a[k] /\ i < k
          BY <1>3, <2>1, <4>2, <4>3
        <5>2. pre[i] <= pre[i]
          BY <2>2
        <5> QED
          BY <3>3, <4>1, <5>1, <5>2
      <4>4. CASE k < i
        <5>1. pre[k] <= pre[i]
          BY <2>1, <4>2, <4>4
        <5>2. CASE cr[k] <= pre[k] + 1
          BY <1>3, <2>2, <3>3, <4>1, <4>2, <5>1, <5>2
        <5>3. CASE \E l \in Node : \E j \in Neighbors(l) : l < j /\ pre[l] <= pre[k] /\ a[j] = cr[k]
          <6>1. PICK l \in Node : \E j \in Neighbors(l) : l < j /\ pre[l] <= pre[k] /\ a[j] = cr[k]
            BY <5>3
          <6>2. PICK j \in Neighbors(l) : l < j /\ pre[l] <= pre[k] /\ a[j] = cr[k]
            BY <6>1
          <6>3. pre[l] <= pre[i]
            BY <2>2, <4>2, <5>1, <6>2
          <6> QED
            BY <3>3, <4>1, <6>2, <6>3
        <5> QED
          BY <2>1, <4>2, <4>4, <5>2, <5>3
      <4> QED
        BY <1>3, <4>2, <4>3, <4>4
    <3> QED
      BY <1>1, <3>1, <3>2, <3>3
  <2>6. \A v \in Node : a[v] = pre[v] \/ (a[v] = pre[v] + 1 /\ \A j \in Neighbors(v)' : pre[j] >= pre[v])
    BY <1>3, <2>1
  <2>7. \A v \in Node : \A j \in Neighbors(v)' : v < j =>
          /\ pre[v] <= pre[j]
          /\ pre[j] >= pre[v] + 2 => HowMany(pre, pre[j]) >= total_rounds_executed'
    BY <1>1, <1>3, <2>1
  <2>8. \A v \in Node : v >= turn' => cr'[v] = a[v]
    BY <1>1, <2>3
  <2>9. \A v \in Node : v < turn' =>
          /\ cr'[v] >= a[v] /\ \A j \in Neighbors(v)' : cr'[v] >= a[j]
          /\ \/ cr'[v] <= pre[v] + 1
             \/ \E l \in Node : \E j \in Neighbors(l)' : l < j /\ pre[l] <= pre[v] /\ a[j] = cr'[v]
    BY <1>1, <1>3, <2>4, <2>5
  <2> QED
    BY <2>1, <2>6, <2>7, <2>8, <2>9 DEF Since
<1>11. ASSUME e > 0 PROVE \E pre, a : Since(pre, a)'
  <2>1. PICK pre, a : Since(pre, a)
    BY <1>2, <1>11 DEF FaultInv
  <2>2. Since(pre, a)'
    BY <1>10, <1>11, <2>1
  <2> QED
    BY <2>2
<1> QED
  BY <1>2, <1>9, <1>11 DEF FaultInv

\* The end of an execution: at the far end of a gap is a node more.
LEMMA FaultEnds ==
  ASSUME FaultInv, protocol = "SELF_STABILIZING", Synchronize
  PROVE  FaultInv'
<1>1. /\ turn = N /\ turn' = 0 /\ mail' = mail /\ synchro_type' = synchro_type /\ neighbors' = neighbors
      /\ AlphaExecuteRound(done)
  BY DEF Synchronize, FaultInv, Beats
<1>2. PICK e \in Nat : e = total_rounds_executed /\ total_rounds_executed' = e + 1
  BY <1>1 DEF FaultInv, Beats, AlphaExecuteRound, FinishRound
<1>3. /\ N \in Nat /\ Node = 0 .. N - 1 /\ Edges /\ \A j \in Node : Neighbors(j) \subseteq Node \ {j}
      /\ \A j, k \in Node : k \in Neighbors(j) => j \in Neighbors(k)
      /\ \A j : Neighbors(j)' = Neighbors(j)
      /\ \A v \in Node : v < N /\ v >= 0
  <2>1. \A j : Neighbors(j)' = Neighbors(j)
    BY <1>1 DEF Neighbors
  <2> QED
    BY <2>1, NodeNumbers DEF FaultInv, Beats, Edges, Symmetric
<1>4. /\ current_round \in [Node -> Nat]
      /\ \A m \in incoming : m.sender \in Node /\ m.round \in Nat /\ m.round <= current_round[m.sender]
      /\ \A m \in mail : m.sender \in Node /\ m.receiver \in Neighbors(m.sender)
      /\ \A u \in Node : \A j \in Neighbors(u) : \E m \in mail : m.sender = u /\ m.receiver = j
      /\ \A i \in Node : \A k \in Neighbors(i) : k < i => current_round[k] <= current_round[i]
  BY <1>1, <1>3 DEF FaultInv, Beats
<1>5. /\ current_round' \in [Node -> Nat]
      /\ \A m \in incoming' : m.sender \in Node /\ m.round \in Nat /\ m.round <= current_round'[m.sender]
      /\ \A i \in Node : \/ current_round'[i] = current_round[i]
                         \/ /\ current_round'[i] = current_round[i] + 1
                            /\ \A j \in Neighbors(i) : current_round[j] >= current_round[i]
  BY <1>1, <1>3, <1>4, LeavesNobodyBehind
<1>6. Edges' /\ turn' \in 0 .. N
  BY <1>1, <1>3 DEF Edges, Symmetric
<1>7. Beats'
  <2>1. \A m \in mail' : m.sender \in Node /\ m.receiver \in Neighbors(m.sender)'
    BY <1>1, <1>3, <1>4
  <2>2. \A u \in Node : \A j \in Neighbors(u)' : \E m \in mail' : m.sender = u /\ m.receiver = j
    BY <1>1, <1>3, <1>4
  <2>3. \A i \in Node : ~(i < turn')
    BY <1>1, <1>3
  <2>4. total_rounds_executed' \in Nat /\ synchro_type' = "ALPHA"
    BY <1>1, <1>2 DEF FaultInv, Beats
  <2> QED
    BY <1>5, <1>6, <2>1, <2>2, <2>3, <2>4 DEF Beats
<1>8. PICK cr \in [Node -> Nat] : cr = current_round
  BY <1>4
<1>9. PICK new \in [Node -> Nat] : new = current_round'
  BY <1>5
<1>10. ASSUME NEW k \in Node, NEW i \in Neighbors(k), k < i, cr[i] >= cr[k] + 2
       PROVE  HowMany(cr, cr[i]) >= e + 1
  <2> DEFINE W == {w \in Node : cr[w] >= cr[i]}
  <2>0. HowMany(cr, cr[i]) = Cardinality(W)
    BY DEF HowMany
  <2>1. i \in Node /\ k \in Neighbors(i) /\ cr[i] \in Nat /\ cr[k] \in Nat /\ i \in W
    BY <1>3
  <2>2. IsFiniteSet(W) /\ Cardinality(W) \in Nat
    <3>1. W \in SUBSET Node
      OBVIOUS
    <3> HIDE DEF W
    <3> QED
      BY <3>1, NodeAssumption, FS_Subset, FS_CardinalityType
  <2>3. CASE e = 0
    <3>1. Cardinality(W) # 0
      <4> HIDE DEF W
      <4> QED
        BY <2>1, <2>2, FS_EmptySet
    <3> HIDE DEF W
    <3> QED
      BY <2>0, <2>2, <2>3, <3>1
  <2>4. CASE e > 0
    <3>1. PICK pre, a : Since(pre, a)
      BY <1>2, <2>4 DEF FaultInv
    <3>2. /\ pre \in [Node -> Nat] /\ a \in [Node -> Nat]
          /\ \A v \in Node : a[v] = pre[v] \/ (a[v] = pre[v] + 1 /\ \A j \in Neighbors(v) : pre[j] >= pre[v])
          /\ \A v \in Node : \A j \in Neighbors(v) : v < j =>
               /\ pre[v] <= pre[j]
               /\ pre[j] >= pre[v] + 2 => HowMany(pre, pre[j]) >= e
          /\ \A v \in Node :
               /\ cr[v] >= a[v] /\ \A j \in Neighbors(v) : cr[v] >= a[j]
               /\ \/ cr[v] <= pre[v] + 1
                  \/ \E l \in Node : \E j \in Neighbors(l) : l < j /\ pre[l] <= pre[v] /\ a[j] = cr[v]
      BY <1>1, <1>2, <1>3, <1>8, <3>1 DEF Since
    <3>3. \A v \in Node : pre[v] \in Nat /\ a[v] \in Nat /\ a[v] >= pre[v] /\ a[v] <= pre[v] + 1 /\ cr[v] \in Nat
      BY <3>2
    <3>4. cr[k] >= a[i]
      BY <2>1, <3>2
    <3>5. ~(cr[i] <= pre[i] + 1) /\ pre[i] + 2 <= cr[i]
      BY <1>10, <2>1, <3>3, <3>4
    <3>6. PICK l \in Node : \E j \in Neighbors(l) : l < j /\ pre[l] <= pre[i] /\ a[j] = cr[i]
      BY <2>1, <3>2, <3>5
    <3>7. PICK j \in Neighbors(l) : l < j /\ pre[l] <= pre[i] /\ a[j] = cr[i]
      BY <3>6
    <3>8. j \in Node /\ l \in Neighbors(j)
      BY <1>3, <3>7
    <3>9. a[j] = pre[j]
      <4> SUFFICES ASSUME a[j] = pre[j] + 1, \A h \in Neighbors(j) : pre[h] >= pre[j] PROVE FALSE
        BY <3>2, <3>8
      <4>1. pre[l] >= pre[j]
        BY <3>8
      <4> QED
        BY <2>1, <3>3, <3>5, <3>7, <3>8, <4>1
    <3>10. pre[j] = cr[i] /\ pre[j] >= pre[l] + 2
      BY <2>1, <3>3, <3>5, <3>7, <3>8, <3>9
    <3> DEFINE B == {w \in Node : pre[w] >= cr[i]}
    <3>11. Cardinality(B) >= e
      <4>1. HowMany(pre, pre[j]) >= e
        BY <3>2, <3>7, <3>10
      <4>2. HowMany(pre, pre[j]) = Cardinality(B)
        BY <3>10 DEF HowMany
      <4> HIDE DEF B
      <4> QED
        BY <4>1, <4>2
    <3>12. B \cup {i} \subseteq W /\ i \notin B
      <4>1. \A w \in B : cr[w] >= cr[i]
        <5> TAKE w \in B
        <5>1. cr[w] >= a[w] /\ a[w] >= pre[w] /\ pre[w] >= cr[i]
          BY <3>2, <3>3
        <5> QED
          BY <2>1, <3>3, <5>1
      <4>2. ~(pre[i] >= cr[i])
        BY <2>1, <3>3, <3>5
      <4> QED
        BY <2>1, <4>1, <4>2
    <3> HIDE DEF B, W
    <3>13. IsFiniteSet(B) /\ Cardinality(B) \in Nat
      BY <2>2, <3>12, FS_Subset, FS_CardinalityType
    <3>14. IsFiniteSet(B \cup {i}) /\ Cardinality(B \cup {i}) = Cardinality(B) + 1
      BY <3>12, <3>13, FS_AddElement
    <3>15. Cardinality(B \cup {i}) <= Cardinality(W)
      BY <2>2, <3>12, FS_Subset
    <3> QED
      BY <2>0, <2>2, <3>11, <3>13, <3>14, <3>15
  <2> QED
    BY <2>3, <2>4
<1>11. Since(cr, new)'
  <2>1. \A v \in Node : new[v] = cr[v] \/ (new[v] = cr[v] + 1 /\ \A j \in Neighbors(v)' : cr[j] >= cr[v])
    BY <1>3, <1>5, <1>8, <1>9
  <2>2. \A v \in Node : \A j \in Neighbors(v)' : v < j =>
          /\ cr[v] <= cr[j]
          /\ cr[j] >= cr[v] + 2 => HowMany(cr, cr[j]) >= total_rounds_executed'
    <3> SUFFICES ASSUME NEW v \in Node, NEW j \in Neighbors(v), v < j
                 PROVE  /\ cr[v] <= cr[j]
                        /\ cr[j] >= cr[v] + 2 => HowMany(cr, cr[j]) >= e + 1
      BY <1>2, <1>3
    <3>1. j \in Node /\ v \in Neighbors(j)
      BY <1>3
    <3>2. cr[v] <= cr[j]
      BY <1>4, <1>8, <3>1
    <3> QED
      BY <1>10, <3>2
  <2>3. \A v \in Node : v >= turn' => current_round'[v] = new[v]
    BY <1>9
  <2>4. \A v \in Node : ~(v < turn')
    BY <1>1, <1>3
  <2> QED
    BY <2>1, <2>2, <2>3, <2>4 DEF Since
<1>12. \E pre, a : Since(pre, a)'
  BY <1>11
<1> QED
  BY <1>7, <1>12 DEF FaultInv

\* A step that changes nothing.
LEMMA FaultRests ==
  ASSUME FaultInv, UNCHANGED allVars
  PROVE  FaultInv'
<1>1. UNCHANGED <<neighbors, incoming, turn, total_rounds_executed, current_round, synchro_type, mail>>
  BY DEF allVars, vars, netVars, protocolVars
<1>2. \A j : Neighbors(j)' = Neighbors(j)
  BY <1>1 DEF Neighbors
<1>3. Beats'
  BY <1>1, <1>2 DEF FaultInv, Beats, Edges, Symmetric
<1>4. \A pre, a : Since(pre, a)' <=> Since(pre, a)
  BY <1>1, <1>2 DEF Since
<1> QED
  BY <1>1, <1>3, <1>4 DEF FaultInv

\* A gap would need as many nodes at its far end as there are executions, and one more.
LEMMA FaultConcludes ==
  ASSUME FaultInv, turn = 0
  PROVE  RoundsReconciled
<1>1. N \in Nat /\ N > 0 /\ Node = 0 .. N - 1 /\ total_rounds_executed \in Nat
  BY NodeNumbers DEF FaultInv, Beats
<1> SUFFICES ASSUME total_rounds_executed >= N, NEW i \in Node, NEW j \in Neighbors(i)
             PROVE  current_round[i] <= current_round[j] + 1
  BY DEF RoundsReconciled
<1>2. PICK pre, a : Since(pre, a)
  BY <1>1 DEF FaultInv
<1>3. j \in Node /\ i \in Neighbors(j) /\ i # j
  BY DEF FaultInv, Beats, Edges, Symmetric
<1>4. /\ pre \in [Node -> Nat] /\ a \in [Node -> Nat]
      /\ \A v \in Node : a[v] = pre[v] \/ (a[v] = pre[v] + 1 /\ \A h \in Neighbors(v) : pre[h] >= pre[v])
      /\ \A v \in Node : \A h \in Neighbors(v) : v < h =>
           /\ pre[v] <= pre[h]
           /\ pre[h] >= pre[v] + 2 => HowMany(pre, pre[h]) >= total_rounds_executed
      /\ \A v \in Node : current_round[v] = a[v]
  <2>1. \A v \in Node : v >= turn
    BY <1>1
  <2> QED
    BY <1>2, <2>1 DEF Since
<1>5. ASSUME NEW k \in Node, NEW h \in Neighbors(k), h \in Node, k < h
      PROVE  pre[k] <= pre[h] /\ pre[h] <= pre[k] + 1
  <2>1. pre[k] \in Nat /\ pre[h] \in Nat /\ pre[k] <= pre[h]
    BY <1>4, <1>5
  <2>2. ASSUME pre[h] >= pre[k] + 2 PROVE FALSE
    <3>1. PICK B : B = {w \in Node : pre[w] >= pre[h]}
      OBVIOUS
    <3>2. Cardinality(B) >= total_rounds_executed
      <4>1. HowMany(pre, pre[h]) >= total_rounds_executed
        BY <1>4, <1>5, <2>2
      <4> QED
        BY <3>1, <4>1 DEF HowMany
    <3>3. B \subseteq Node /\ k \in Node /\ k \notin B
      BY <2>1, <2>2, <3>1
    <3>4. IsFiniteSet(Node \ {k}) /\ Cardinality(Node \ {k}) = N - 1
      BY NodeAssumption, FS_RemoveElement DEF N
    <3>5. B \subseteq Node \ {k}
      BY <3>3
    <3>6. Cardinality(B) <= N - 1 /\ Cardinality(B) \in Nat
      BY <3>4, <3>5, FS_Subset, FS_CardinalityType
    <3> QED
      BY <1>1, <3>2, <3>6
  <2> QED
    BY <2>1, <2>2
<1>6. /\ pre[i] \in Nat /\ pre[j] \in Nat /\ a[i] \in Nat /\ a[j] \in Nat /\ i \in Int /\ j \in Int
      /\ a[i] <= pre[i] + 1 /\ a[j] >= pre[j] /\ (a[i] = pre[i] + 1 => pre[j] >= pre[i])
  <2>1. pre[i] \in Nat /\ pre[j] \in Nat /\ a[i] \in Nat /\ a[j] \in Nat /\ i \in Int /\ j \in Int
    BY <1>1, <1>3, <1>4
  <2>2. a[i] = pre[i] \/ (a[i] = pre[i] + 1 /\ \A h \in Neighbors(i) : pre[h] >= pre[i])
    BY <1>4
  <2>3. a[j] = pre[j] \/ a[j] = pre[j] + 1
    BY <1>3, <1>4
  <2> QED
    BY <2>1, <2>2, <2>3
<1>7. CASE i < j
  <2>1. pre[i] <= pre[j]
    BY <1>3, <1>5, <1>7
  <2> QED
    BY <1>3, <1>4, <1>6, <2>1
<1>8. CASE j < i
  <2>1. pre[j] <= pre[i] /\ pre[i] <= pre[j] + 1
    BY <1>3, <1>5, <1>8
  <2>2. a[i] = pre[i] \/ (a[i] = pre[i] + 1 /\ pre[j] >= pre[i])
    BY <1>4
  <2> QED
    BY <1>3, <1>4, <1>6, <2>1, <2>2
<1> QED
  BY <1>3, <1>6, <1>7, <1>8

--------------------------------------------------------------------------------
\* All protocols.

OutcomeInv ==
  /\ protocol = "BFS" => SeekInv
  /\ protocol = "FLOOD_SET" => FloodInv
  /\ protocol = "LE_LANN" => ElectInv
  /\ protocol = "BROADCAST" => CastInv
  /\ protocol = "CONVERGECAST" => GatherInv
  /\ protocol = "SELF_STABILIZING" => FaultInv

\* Every call of a protocol, every end of an execution, and every stutter.
LEMMA OutcomeKept ==
  ASSUME OutcomeInv, [ProtocolNext]_allVars
  PROVE  OutcomeInv'
<1>1. CASE UNCHANGED allVars
  <2>1. protocol' = protocol
    BY <1>1 DEF allVars, protocolVars
  <2> QED
    BY <1>1, <2>1, SearchRests, FloodRests, ElectRests, CastRests, GatherRests, FaultRests DEF OutcomeInv
<1>2. CASE Synchronize
  <2>1. protocol' = protocol
    BY <1>2 DEF Synchronize
  <2> QED
    BY <1>2, <2>1, SearchEnds, FloodEnds, ElectEnds, CastEnds, GatherEnds, FaultEnds DEF OutcomeInv
<1>3. ASSUME NEW i \in Node, Visit(i) PROVE OutcomeInv'
  <2>1. protocol' = protocol
    BY <1>3 DEF Visit
  <2> QED
    BY <1>3, <2>1, SearchCalls, FloodCalls, ElectCalls, CastCalls, GatherCalls, FaultCalls DEF OutcomeInv
<1> QED
  BY <1>1, <1>2, <1>3 DEF ProtocolNext

\* What the invariants say between two executions.
LEMMA OutcomeReached ==
  ASSUME OutcomeInv
  PROVE  ProtocolOutcome
<1> DEFINE e == total_rounds_executed
<1> SUFFICES ASSUME turn = 0
             PROVE  /\ protocol = "BFS" => \A v \in Node :
                         LET lengths == {d \in 0 .. N - 1 : v \in Rising({0}, d)}
                         IN  /\ local_data[v] = 1 <=> \E d \in lengths : d < e \/ d = 0
                             /\ local_data[v] = 1 => depth[v] = CHOOSE d \in lengths : \A k \in lengths : d <= k
                    /\ protocol = "FLOOD_SET" /\ e > 0 => \A v \in Node :
                         local_data[v] = 1 <=> \E d \in 0 .. N - 1 : v \in Rising({i \in Node : input[i] = 1}, d)
                    /\ protocol = "LE_LANN" /\ e > 1 => \A v \in Node :
                         local_data[v] = v /\ (Neighbors(v) # {} => current_round[v] = 1)
                    /\ protocol = "BROADCAST" => \A v \in Node : (InTree(v) /\ depth[v] < e) => local_data[v] = 1
                    /\ protocol = "CONVERGECAST" =>
                         reported = {v \in Node : bfs_parent[v] # None /\ ReportsIn(v) < e}
                    /\ protocol = "SELF_STABILIZING" => RoundsReconciled
  BY DEF ProtocolOutcome
<1>1. protocol = "BFS" => \A v \in Node :
        LET lengths == {d \in 0 .. N - 1 : v \in Rising({0}, d)}
        IN  /\ local_data[v] = 1 <=> \E d \in lengths : d < e \/ d = 0
            /\ local_data[v] = 1 => depth[v] = CHOOSE d \in lengths : \A k \in lengths : d <= k
  BY SearchConcludes DEF OutcomeInv
<1>2. protocol = "FLOOD_SET" /\ e > 0 => \A v \in Node :
        local_data[v] = 1 <=> \E d \in 0 .. N - 1 : v \in Rising({i \in Node : input[i] = 1}, d)
  BY FloodConcludes DEF OutcomeInv
<1>3. protocol = "LE_LANN" /\ e > 1 => \A v \in Node :
        local_data[v] = v /\ (Neighbors(v) # {} => current_round[v] = 1)
  <2> SUFFICES ASSUME protocol = "LE_LANN", e > 1, NEW v \in Node
               PROVE  local_data[v] = v /\ (Neighbors(v) # {} => current_round[v] = 1)
    OBVIOUS
  <2>1. e \in Nat /\ local_data = [i \in Node |-> i]
    BY DEF OutcomeInv, ElectInv
  <2>2. e > 0
    BY <2>1
  <2>3. Neighbors(v) # {} => current_round[v] = 1
    BY <2>2 DEF OutcomeInv, ElectInv
  <2> QED
    BY <2>1, <2>3
<1>4. protocol = "BROADCAST" => \A v \in Node : (InTree(v) /\ depth[v] < e) => local_data[v] = 1
  BY DEF OutcomeInv, CastInv, Wooded
<1>5. protocol = "CONVERGECAST" =>
        reported = {v \in Node : bfs_parent[v] # None /\ ReportsIn(v) < e}
  BY GatherConcludes DEF OutcomeInv
<1>6. protocol = "SELF_STABILIZING" => RoundsReconciled
  BY FaultConcludes DEF OutcomeInv
<1> QED
  BY <1>1, <1>2, <1>3, <1>4, <1>5, <1>6

\* ProtocolOutcome, for every network, protocol and number of executions: what the six
\* protocols reach between two executions of the synchronizer they run over.
THEOREM ProtocolsReachTheirOutcome == ProtocolSpec => []ProtocolOutcome
<1>1. ProtocolInit => OutcomeInv
  BY SearchBegins, FloodBegins, ElectBegins, CastBegins, GatherBegins, FaultBegins DEF OutcomeInv
<1>2. OutcomeInv /\ [ProtocolNext]_allVars => OutcomeInv'
  BY OutcomeKept
<1>3. OutcomeInv => ProtocolOutcome
  BY OutcomeReached
<1> QED
  BY <1>1, <1>2, <1>3, PTL DEF ProtocolSpec
================================================================================
