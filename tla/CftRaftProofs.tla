----------------------------- MODULE CftRaftProofs -----------------------------
(***************************************************************************)
(* raft.c of mini-consensus-fault-tolerance, for any number of servers,    *)
(* terms, commands and entries.                                            *)
(*                                                                         *)
(* Elections are safe: the winner of one has visited every server, so all  *)
(* are in its term, and until one of them leaves it no vote is forgotten.  *)
(* What is committed survives: logs that share an entry are the same up to *)
(* it, a leader has all entries of its term, and an entry committed by the *)
(* leader of its term is on a majority, in every log that has an entry of  *)
(* a higher term and in the log of every later leader (Stable).            *)
(***************************************************************************)
EXTENDS CftRaft, FiniteSetTheorems, NaturalsInduction, SequenceTheorems,
        WellFoundedInduction, TLAPS

Typed ==
  /\ state \in [Server -> {"FOLLOWER", "CANDIDATE", "LEADER"}]
  /\ current_term \in [Server -> Nat]
  /\ voted_for \in [Server -> Server \cup {None}]
  /\ elected \subseteq Server \X Nat

OwnVote == \A s \in Server : state[s] = "CANDIDATE" => voted_for[s] = s

LeadersElected ==
  \A s \in Server : state[s] = "LEADER" => <<s, current_term[s]>> \in elected

\* Nobody is behind an election that was won.
Informed == \A e \in elected, p \in Server : e[2] <= current_term[p]

\* While nobody is ahead of it either, a majority remembers its vote.
Remembered ==
  \A e \in elected :
    (\A p \in Server : current_term[p] = e[2]) => Majority({p \in Server : voted_for[p] = e[1]})

TermLedOnce == \A e, f \in elected : e[2] = f[2] => e[1] = f[1]

Inv == Typed /\ OwnVote /\ LeadersElected /\ Informed /\ Remembered /\ TermLedOnce

\* A majority stays one when servers are added to it.
LEMMA MajorityGrows ==
  ASSUME NEW A \in SUBSET Server, NEW B \in SUBSET Server, A \subseteq B, Majority(A)
  PROVE  Majority(B)
<1>1. IsFiniteSet(Server) /\ IsFiniteSet(A) /\ IsFiniteSet(B)
  BY CftRaftConstants, FS_Subset
<1>2. Cardinality(A) <= Cardinality(B)
  BY <1>1, FS_Subset
<1>3. Cardinality(A) \in Nat /\ Cardinality(B) \in Nat /\ Cardinality(Server) \in Nat
  BY <1>1, FS_CardinalityType
<1> QED
  BY <1>2, <1>3 DEF Majority

\* Two majorities share a server.
LEMMA MajoritiesMeet ==
  ASSUME NEW A \in SUBSET Server, NEW B \in SUBSET Server, Majority(A), Majority(B)
  PROVE  \E p \in A : p \in B
<1> SUFFICES ASSUME A \cap B = {} PROVE FALSE
  OBVIOUS
<1>1. IsFiniteSet(Server) /\ IsFiniteSet(A) /\ IsFiniteSet(B)
  BY CftRaftConstants, FS_Subset
<1>2. Cardinality(A \cup B) = Cardinality(A) + Cardinality(B)
  <2>1. Cardinality(A \cup B) = Cardinality(A) + Cardinality(B) - Cardinality({})
    BY <1>1, FS_Union
  <2>2. Cardinality(A) \in Nat /\ Cardinality(B) \in Nat /\ Cardinality({}) = 0
    BY <1>1, FS_CardinalityType, FS_EmptySet
  <2> QED
    BY <2>1, <2>2
<1>3. Cardinality(A \cup B) <= Cardinality(Server)
  BY <1>1, FS_Subset
<1>4. Cardinality(A) \in Nat /\ Cardinality(B) \in Nat /\ Cardinality(Server) \in Nat
  BY <1>1, FS_CardinalityType
<1> QED
  BY <1>2, <1>3, <1>4 DEF Majority

\* No server is called None.
LEMMA NoneIsNobody == None \notin Server
  BY CftRaftConstants, FS_CardinalityType DEF None

\* A step that wins no election keeps the invariant if no term shrinks and, when
\* all servers were and are in one term, no vote is forgotten.
LEMMA QuietStep ==
  ASSUME Inv, Typed', OwnVote', LeadersElected', elected' = elected,
         \A p \in Server : current_term[p] <= current_term'[p],
         \A p \in Server :
           (\A q \in Server : /\ current_term[q] = current_term[p]
                              /\ current_term'[q] = current_term[p])
             => voted_for[p] = None \/ voted_for'[p] = voted_for[p]
  PROVE  Inv'
<1>1. Informed'
  <2> SUFFICES ASSUME NEW e \in elected, NEW p \in Server PROVE e[2] <= current_term'[p]
    BY DEF Informed
  <2>1. e[2] \in Nat /\ current_term[p] \in Nat /\ current_term'[p] \in Nat
    BY DEF Inv, Typed
  <2>2. e[2] <= current_term[p] /\ current_term[p] <= current_term'[p]
    BY DEF Inv, Informed
  <2> QED
    BY <2>1, <2>2
<1>2. Remembered'
  <2> SUFFICES ASSUME NEW e \in elected, \A p \in Server : current_term'[p] = e[2]
               PROVE  Majority({p \in Server : voted_for'[p] = e[1]})
    BY DEF Remembered, Majority
  <2>1. e[1] \in Server /\ e[2] \in Nat
    BY DEF Inv, Typed
  <2>2. \A p \in Server : current_term[p] = e[2]
    <3> TAKE p \in Server
    <3>1. e[2] <= current_term[p] /\ current_term[p] <= e[2] /\ current_term[p] \in Nat
      BY DEF Inv, Informed, Typed
    <3> QED
      BY <2>1, <3>1
  <2>3. Majority({p \in Server : voted_for[p] = e[1]})
    BY <2>2 DEF Inv, Remembered
  <2>4. \A p \in Server : voted_for[p] = e[1] => voted_for'[p] = e[1]
    BY <2>1, <2>2, NoneIsNobody
  <2> QED
    BY <2>3, <2>4, MajorityGrows
<1>3. TermLedOnce'
  BY DEF Inv, TermLedOnce
<1> QED
  BY <1>1, <1>2, <1>3 DEF Inv

\* A timeout opens a term for one server, which votes for itself.
LEMMA TimeoutKeepsInv ==
  ASSUME Inv, NEW s \in Server, Timeout(s)
  PROVE  Inv'
<1>1. current_term[s] \in Nat /\ current_term'[s] = current_term[s] + 1
  BY DEF Inv, Typed, Timeout
<1>2. Typed' /\ OwnVote' /\ LeadersElected'
  BY <1>1 DEF Inv, Typed, OwnVote, LeadersElected, Timeout
<1>3. \A p \in Server : current_term[p] <= current_term'[p]
  BY <1>1 DEF Inv, Typed, Timeout
<1>4. \A p \in Server \ {s} : voted_for'[p] = voted_for[p]
  BY DEF Inv, Typed, Timeout
<1>5. ASSUME NEW p \in Server,
             \A q \in Server : current_term[q] = current_term[p] /\ current_term'[q] = current_term[p]
      PROVE  voted_for'[p] = voted_for[p]
  BY <1>1, <1>5
<1>6. elected' = elected
  BY DEF Timeout
<1> QED
  BY <1>2, <1>3, <1>5, <1>6, QuietStep

\* A non-empty set of naturals has a least element.
LEMMA LeastServer ==
  ASSUME NEW T \in SUBSET Nat, T # {}
  PROVE  \E x \in T : \A y \in T : x <= y
<1>1. PICK x \in T : \A y \in T : ~(<<y, x>> \in OpToRel(<, Nat))
  BY NatLessThanWellFounded, WFMin
<1>2. \A y \in T : ~(y < x)
  BY <1>1 DEF OpToRel
<1> QED
  BY <1>2

\* Server identifiers are numbers.
LEMMA ServersAreNaturals == Server \subseteq Nat
  BY CftRaftConstants, FS_CardinalityType

\* The peer that ends an election by its higher term is one of those ahead.
LEMMA FirstAheadIsAhead ==
  ASSUME NEW c \in Server, Ahead(c) # {}
  PROVE  FirstAhead(c) \in Ahead(c)
<1>1. Ahead(c) \in SUBSET Nat
  BY ServersAreNaturals DEF Ahead
<1>2. \E x \in Ahead(c) : \A b \in Ahead(c) : x <= b
  BY <1>1, LeastServer
<1> QED
  BY <1>2 DEF FirstAhead

\* Every peer whose vote request is answered is another server, and not ahead.
LEMMA ContactedAreNotAhead ==
  ASSUME NEW c \in Server, NEW p \in Contacted(c)
  PROVE  p \in Server \ {c} /\ p \notin Ahead(c)
<1>1. p \in Nat
  BY ServersAreNaturals DEF Contacted
<1> QED
  BY <1>1 DEF Contacted

\* What an election does to the servers it visits, won or not.
LEMMA ElectionVisits ==
  ASSUME Inv, NEW c \in Server, StartElection(c)
  PROVE  /\ Typed'
         /\ \A p \in Server : current_term[p] <= current_term'[p]
         /\ \A p \in Contacted(c) : current_term[p] <= current_term[c] /\ p \in Server \ {c}
         /\ \A p \in Contacted(c) : current_term'[p] = current_term[c]
         /\ \A p \in Contacted(c) : Grants(c, p) => voted_for'[p] = c
         /\ Ahead(c) = {} => Contacted(c) = Server \ {c} /\ current_term'[c] = current_term[c]
<1> DEFINE granting == {p \in Contacted(c) : Grants(c, p)}
           adopting == {p \in Contacted(c) : current_term[p] < current_term[c]}
<1>1. \A p \in Server : current_term[p] \in Nat
  BY DEF Inv, Typed
<1>2. \A p \in Contacted(c) : p \in Server \ {c} /\ p \notin Ahead(c)
  BY ContactedAreNotAhead
<1>3. \A p \in Contacted(c) : current_term[p] <= current_term[c]
  BY <1>1, <1>2 DEF Ahead
<1>4. Ahead(c) # {} => FirstAhead(c) \in Ahead(c)
  BY FirstAheadIsAhead
<1>5. \A p \in Server : current_term[p] <= current_term'[p] /\ current_term'[p] \in Nat
  <2> TAKE p \in Server
  <2>1. CASE p \in adopting
    BY <1>1, <2>1 DEF StartElection
  <2>2. CASE p = c /\ Ahead(c) # {}
    BY <1>1, <1>2, <1>4, <2>2 DEF StartElection, Ahead
  <2>3. CASE p \notin adopting /\ ~(p = c /\ Ahead(c) # {})
    BY <1>1, <2>3 DEF StartElection
  <2> QED
    BY <2>1, <2>2, <2>3
<1>6. \A p \in Contacted(c) : current_term'[p] = current_term[c]
  BY <1>1, <1>2, <1>3 DEF StartElection
<1>7. \A p \in Contacted(c) : Grants(c, p) => voted_for'[p] = c
  BY <1>2 DEF StartElection
<1>8. Ahead(c) = {} => Contacted(c) = Server \ {c} /\ current_term'[c] = current_term[c]
  BY <1>2 DEF StartElection, Contacted
<1>9. Typed'
  <2>1. current_term' \in [Server -> Nat]
    BY <1>5 DEF StartElection
  <2>2. voted_for' \in [Server -> Server \cup {None}]
    BY DEF StartElection, Inv, Typed
  <2>3. state' \in [Server -> {"FOLLOWER", "CANDIDATE", "LEADER"}]
    BY DEF StartElection, Inv, Typed
  <2>4. elected' \subseteq Server \X Nat
    BY <1>1 DEF StartElection, Inv, Typed
  <2> QED
    BY <2>1, <2>2, <2>3, <2>4 DEF Typed
<1> QED
  BY <1>2, <1>3, <1>5, <1>6, <1>7, <1>8, <1>9

\* An election that is stopped, or finds too few votes.
LEMMA ElectionLostKeepsInv ==
  ASSUME Inv, NEW c \in Server, StartElection(c), elected' = elected,
         ~Won(c, {p \in Contacted(c) : Grants(c, p)})
  PROVE  Inv'
<1>1. ASSUME NEW p \in Server,
             \A q \in Server : current_term[q] = current_term[p] /\ current_term'[q] = current_term[p]
      PROVE  voted_for[p] = None \/ voted_for'[p] = voted_for[p]
  <2>1. Ahead(c) = {} /\ current_term[p] = current_term[c]
    BY <1>1 DEF Ahead, Inv, Typed
  <2>2. ~(current_term[p] < current_term[c])
    BY <2>1 DEF Inv, Typed
  <2> QED
    BY <2>1, <2>2 DEF StartElection, Grants
<1>2. OwnVote'
  <2> SUFFICES ASSUME NEW s \in Server, state'[s] = "CANDIDATE" PROVE voted_for'[s] = s
    BY DEF OwnVote
  <2>1. /\ state[s] = "CANDIDATE" /\ ~(s = c /\ Ahead(c) # {})
        /\ s \in Contacted(c) => ~(current_term[s] < current_term[c])
    BY DEF StartElection
  <2>2. voted_for[s] = s
    BY <2>1 DEF Inv, OwnVote
  <2>3. s \in Contacted(c) => s # c
    BY ElectionVisits
  <2>4. ~(s \in Contacted(c) /\ Grants(c, s))
    BY <2>1, <2>2, <2>3, NoneIsNobody DEF Grants
  <2> QED
    BY <2>1, <2>2, <2>4 DEF StartElection
<1>3. LeadersElected'
  <2> SUFFICES ASSUME NEW s \in Server, state'[s] = "LEADER"
               PROVE  <<s, current_term'[s]>> \in elected'
    BY DEF LeadersElected
  <2>1. state[s] = "LEADER" /\ current_term'[s] = current_term[s]
    BY DEF StartElection
  <2> QED
    BY <2>1 DEF Inv, LeadersElected
<1> QED
  BY <1>1, <1>2, <1>3, ElectionVisits, QuietStep

\* In a term in which a server wins, no other has won.
LEMMA NoOtherWinner ==
  ASSUME Inv, NEW c \in Server, StartElection(c),
         Won(c, {p \in Contacted(c) : Grants(c, p)})
  PROVE  \A e \in elected : e[2] = current_term[c] => e[1] = c
<1> DEFINE granting == {p \in Contacted(c) : Grants(c, p)}
<1>1. Ahead(c) = {} /\ Contacted(c) = Server \ {c} /\ Majority(granting \cup {c})
  BY ElectionVisits DEF Won
<1>2. /\ \A p \in Server : current_term[p] <= current_term[c]
      /\ \A p \in Server : current_term'[p] = current_term[c]
      /\ \A p \in Server : current_term[p] \in Nat
  BY <1>1, ElectionVisits DEF Inv, Typed
<1>3. voted_for[c] = c
  BY DEF Inv, OwnVote, StartElection, MayStand
<1>4. SUFFICES ASSUME NEW e \in elected, e[2] = current_term[c] PROVE e[1] = c
  OBVIOUS
<1>5. e[1] \in Server
  BY DEF Inv, Typed
<1>6. \A p \in Server : current_term[p] = current_term[c]
  BY <1>2, <1>4 DEF Inv, Informed
<1>7. Majority({p \in Server : voted_for[p] = e[1]})
  BY <1>4, <1>6 DEF Inv, Remembered
<1>8. PICK p \in granting \cup {c} : p \in Server /\ voted_for[p] = e[1]
  BY <1>1, <1>7, MajoritiesMeet
<1>9. CASE p = c
  BY <1>3, <1>8, <1>9
<1>10. CASE p \in granting
  <2>1. ~(current_term[p] < current_term[c])
    BY <1>2, <1>6, <1>8
  <2> QED
    BY <1>5, <1>8, <1>10, <2>1, NoneIsNobody DEF Grants
<1> QED
  BY <1>8, <1>9, <1>10

\* An election that is won has visited every server: all are in its term.
LEMMA ElectionWonKeepsInv ==
  ASSUME Inv, NEW c \in Server, StartElection(c),
         Won(c, {p \in Contacted(c) : Grants(c, p)}),
         elected' = elected \cup {<<c, current_term[c]>>}
  PROVE  Inv'
<1> DEFINE granting == {p \in Contacted(c) : Grants(c, p)}
<1>1. Ahead(c) = {} /\ Contacted(c) = Server \ {c} /\ Majority(granting \cup {c})
  BY ElectionVisits DEF Won
<1>2. /\ \A p \in Server : current_term[p] <= current_term[c]
      /\ \A p \in Server : current_term'[p] = current_term[c]
      /\ \A p \in Server : current_term[p] \in Nat
  BY <1>1, ElectionVisits DEF Inv, Typed
<1>3. voted_for[c] = c /\ voted_for'[c] = c
  BY <1>1 DEF Inv, OwnVote, StartElection, MayStand, Typed
<1>4. Majority({p \in Server : voted_for'[p] = c})
  <2>1. \A p \in granting \cup {c} : voted_for'[p] = c
    BY <1>3, ElectionVisits
  <2> QED
    BY <1>1, <2>1, MajorityGrows
<1>5. \A e \in elected : e[2] = current_term[c] => e[1] = c
  BY NoOtherWinner
<1>6. Informed'
  <2> SUFFICES ASSUME NEW e \in elected', NEW p \in Server PROVE e[2] <= current_term'[p]
    BY DEF Informed
  <2>1. CASE e \in elected
    BY <1>2, <2>1 DEF Inv, Informed
  <2>2. CASE e = <<c, current_term[c]>>
    BY <1>2, <2>2
  <2> QED
    BY <2>1, <2>2
<1>7. Remembered'
  <2> SUFFICES ASSUME NEW e \in elected', \A p \in Server : current_term'[p] = e[2]
               PROVE  Majority({p \in Server : voted_for'[p] = e[1]})
    BY DEF Remembered, Majority
  <2>1. e[1] = c
    BY <1>2, <1>5
  <2> QED
    BY <1>4, <2>1
<1>8. TermLedOnce'
  BY <1>5 DEF Inv, TermLedOnce
<1>9. OwnVote'
  <2> SUFFICES ASSUME NEW s \in Server, state'[s] = "CANDIDATE" PROVE voted_for'[s] = s
    BY DEF OwnVote
  <2>1. state[s] = "CANDIDATE" /\ s # c /\ ~(current_term[s] < current_term[c])
    BY <1>1 DEF StartElection
  <2>2. voted_for[s] = s
    BY <2>1 DEF Inv, OwnVote
  <2>3. ~Grants(c, s)
    BY <2>1, <2>2, NoneIsNobody DEF Grants
  <2> QED
    BY <2>1, <2>2, <2>3 DEF StartElection
<1>10. LeadersElected'
  <2> SUFFICES ASSUME NEW s \in Server, state'[s] = "LEADER"
               PROVE  <<s, current_term'[s]>> \in elected'
    BY DEF LeadersElected
  <2>1. CASE s = c
    BY <1>2, <2>1
  <2>2. CASE s # c
    <3>1. state[s] = "LEADER" /\ current_term'[s] = current_term[s]
      BY <2>2 DEF StartElection
    <3> QED
      BY <3>1 DEF Inv, LeadersElected
  <2> QED
    BY <2>1, <2>2
<1> QED
  BY <1>6, <1>7, <1>8, <1>9, <1>10, ElectionVisits DEF Inv

\* A command visits servers that are not ahead; the leader forgets its vote only
\* when one is.
LEMMA AppendKeepsInv ==
  ASSUME Inv, NEW s \in Server, NEW cmd \in Command, AppendCommand(s, cmd)
  PROVE  Inv'
<1>1. \A p \in Contacted(s) : p \in Server \ {s} /\ p \notin Ahead(s)
  BY ContactedAreNotAhead
<1>2. \A p \in Server : current_term[p] <= current_term'[p] /\ current_term'[p] \in Nat
  BY <1>1 DEF AppendCommand, Ahead, Inv, Typed
<1>3. Typed'
  <2>1. current_term' \in [Server -> Nat]
    BY <1>2 DEF AppendCommand
  <2>2. voted_for' \in [Server -> Server \cup {None}]
    BY DEF AppendCommand, Inv, Typed
  <2>3. state' \in [Server -> {"FOLLOWER", "CANDIDATE", "LEADER"}]
    BY DEF AppendCommand, Inv, Typed
  <2> QED
    BY <2>1, <2>2, <2>3 DEF Typed, AppendCommand, Inv
<1>4. OwnVote'
  <2> SUFFICES ASSUME NEW p \in Server, state'[p] = "CANDIDATE" PROVE voted_for'[p] = p
    BY DEF OwnVote
  <2>1. state[p] = "CANDIDATE" /\ p # s
    BY DEF AppendCommand
  <2> QED
    BY <2>1 DEF AppendCommand, Inv, OwnVote, Typed
<1>5. LeadersElected'
  BY <1>1 DEF AppendCommand, Inv, LeadersElected
<1>6. ASSUME NEW p \in Server,
             \A q \in Server : current_term[q] = current_term[p] /\ current_term'[q] = current_term[p]
      PROVE  voted_for'[p] = voted_for[p]
  <2>1. Ahead(s) = {}
    BY <1>6 DEF Ahead, Inv, Typed
  <2> QED
    BY <2>1 DEF AppendCommand, Inv, Typed
<1>7. elected' = elected
  BY DEF AppendCommand
<1> QED
  BY <1>2, <1>3, <1>4, <1>5, <1>6, <1>7, QuietStep

\* The election invariant is inductive: one action at a time.
LEMMA StepKeepsInv == Inv /\ [Next]_vars => Inv'
<1> SUFFICES ASSUME Inv, [Next]_vars PROVE Inv'
  OBVIOUS
<1>1. ASSUME NEW s \in Server, Timeout(s) PROVE Inv'
  BY <1>1, TimeoutKeepsInv
<1>2. ASSUME NEW s \in Server, StartElection(s) PROVE Inv'
  <2>1. CASE Won(s, {p \in Contacted(s) : Grants(s, p)})
    BY <1>2, <2>1, ElectionWonKeepsInv DEF StartElection
  <2>2. CASE ~Won(s, {p \in Contacted(s) : Grants(s, p)})
    BY <1>2, <2>2, ElectionLostKeepsInv DEF StartElection
  <2> QED
    BY <2>1, <2>2
<1>3. ASSUME NEW s \in Server, NEW cmd \in Command, AppendCommand(s, cmd) PROVE Inv'
  BY <1>3, AppendKeepsInv
<1>4. ASSUME UNCHANGED <<state, current_term, voted_for, elected>> PROVE Inv'
  BY <1>4 DEF Inv, Typed, OwnVote, LeadersElected, Informed, Remembered, TermLedOnce, Majority
<1>5. ASSUME NEW s \in Server, AdvanceCommit(s) \/ ApplyCommitted(s) PROVE Inv'
  BY <1>4, <1>5 DEF AdvanceCommit, ApplyCommitted
<1>6. ASSUME UNCHANGED vars PROVE Inv'
  BY <1>4, <1>6 DEF vars
<1> QED
  BY <1>1, <1>2, <1>3, <1>5, <1>6 DEF Next

\* The election invariant holds when the cluster is created.
LEMMA InitHasInv == Init => Inv
BY DEF Init, Inv, Typed, OwnVote, LeadersElected, Informed, Remembered, TermLedOnce

\* Two leaders are one: at most one server leads at any moment.
LEMMA OneLeader ==
  ASSUME Inv, NEW s \in Server, NEW t \in Server, state[s] = "LEADER", state[t] = "LEADER"
  PROVE  s = t
<1>1. <<s, current_term[s]>> \in elected /\ <<t, current_term[t]>> \in elected
  BY DEF Inv, LeadersElected
<1>2. current_term[s] <= current_term[t] /\ current_term[t] <= current_term[s]
  BY <1>1 DEF Inv, Informed
<1>3. current_term[s] = current_term[t]
  BY <1>2 DEF Inv, Typed
<1> QED
  BY <1>1, <1>3 DEF Inv, TermLedOnce

\* At most one server leads at any time, and no term has had two leaders
\* (ElectionSafety), for any number of servers, terms and commands.
THEOREM ElectionSafe == Spec => []ElectionSafety
<1>1. Init => Inv
  BY InitHasInv
<1>2. Inv => ElectionSafety
  <2> SUFFICES ASSUME Inv PROVE ElectionSafety
    OBVIOUS
  <2>1. \A s, t \in Server : state[s] = "LEADER" /\ state[t] = "LEADER" => s = t
    BY OneLeader
  <2> QED
    BY <2>1 DEF ElectionSafety, Inv, TermLedOnce
<1> QED
  BY <1>1, <1>2, StepKeepsInv, PTL DEF Spec
-------------------------------------------------------------------------------
\* The logs.  Terms and lengths are naturals; the bounds of CftRaft play no part.
NatEntry == [term : Nat, command : Command]

LogTypes ==
  /\ log \in [Server -> Seq(NatEntry)]
  /\ commit_index \in [Server -> Nat]
  /\ last_applied \in [Server -> Nat]
  /\ next_index \in [Server -> [Server -> Nat]]
  /\ match_index \in [Server -> [Server -> Nat]]

\* A log that has an entry of the term of l's i-th entry, at i or further on, has l's
\* entries up to i.
Compatible(l, m) ==
  \A i, j \in Nat :
    1 <= i /\ i <= j /\ i <= Len(l) /\ j <= Len(m) /\ l[i].term = m[j].term
      => \A k \in 1 .. i : l[k] = m[k]

Prefix(l, m) == Len(l) <= Len(m) /\ \A k \in 1 .. Len(l) : l[k] = m[k]

\* Prefixes of two compatible logs are compatible.
LEMMA PrefixesCompatible ==
  ASSUME NEW l \in Seq(NatEntry), NEW m \in Seq(NatEntry),
         NEW x \in Seq(NatEntry), NEW y \in Seq(NatEntry),
         Compatible(l, m), Prefix(x, l), Prefix(y, m)
  PROVE  Compatible(x, y)
<1>1. Len(l) \in Nat /\ Len(m) \in Nat /\ Len(x) \in Nat /\ Len(y) \in Nat
  OBVIOUS
<1>2. SUFFICES ASSUME NEW i \in Nat, NEW j \in Nat, 1 <= i, i <= j, i <= Len(x), j <= Len(y),
                      x[i].term = y[j].term, NEW k \in 1 .. i
               PROVE  x[k] = y[k]
  BY DEF Compatible
<1>3. /\ x[i] = l[i] /\ y[j] = m[j] /\ x[k] = l[k] /\ y[k] = m[k]
      /\ i <= Len(l) /\ j <= Len(m)
  BY <1>1, <1>2 DEF Prefix
<1>4. l[k] = m[k]
  BY <1>2, <1>3 DEF Compatible
<1> QED
  BY <1>3, <1>4

\* What cutting a log after entry n keeps.
LEMMA CutIs ==
  ASSUME NEW l \in Seq(NatEntry), NEW n \in 0 .. Len(l)
  PROVE  /\ SubSeq(l, 1, n) \in Seq(NatEntry)
         /\ Len(SubSeq(l, 1, n)) = n
         /\ \A k \in 1 .. n : SubSeq(l, 1, n)[k] = l[k]
<1>1. Len(l) \in Nat /\ n \in Int /\ 1 \in Int
  OBVIOUS
<1>2. \A k \in 1 .. n : l[k] \in NatEntry
  BY <1>1, ElementOfSeq
<1>3. /\ SubSeq(l, 1, n) \in Seq(NatEntry)
      /\ Len(SubSeq(l, 1, n)) = IF 1 <= n THEN n - 1 + 1 ELSE 0
      /\ \A k \in 1 .. n - 1 + 1 : SubSeq(l, 1, n)[k] = l[1 + k - 1]
  BY <1>1, <1>2, SubSeqProperties
<1> QED
  BY <1>1, <1>3

\* What raft_handle_append_entries makes of a log that is compatible with the leader's:
\* the log itself, which has all the leader's entries if it has the one before those sent;
\* the leader's log; or the log cut where its entry has another term.
LEMMA ReplicatedIs ==
  ASSUME NEW l \in Seq(NatEntry), NEW sent \in Seq(NatEntry), NEW prev \in 0 .. Len(sent),
         Compatible(l, sent)
  PROVE  /\ HasPrev(l, sent, prev) =>
              \/ Replicated(l, sent, prev) = sent
              \/ Replicated(l, sent, prev) = l /\ Prefix(sent, l)
         /\ ~HasPrev(l, sent, prev) =>
              \/ Replicated(l, sent, prev) = l
              \/ /\ prev \in 1 .. Len(l) /\ l[prev].term # sent[prev].term
                 /\ Replicated(l, sent, prev) = SubSeq(l, 1, prev - 1)
<1> DEFINE differ == {i \in prev + 1 .. Len(sent) : i > Len(l) \/ l[i].term # sent[i].term}
           first == CHOOSE i \in differ : \A j \in differ : i <= j
<1>1. Len(l) \in Nat /\ Len(sent) \in Nat /\ prev \in Nat
  OBVIOUS
<1>2. CASE ~HasPrev(l, sent, prev)
  <2>1. prev > 0 /\ ~(prev <= Len(l) /\ l[prev].term = sent[prev].term)
    BY <1>2 DEF HasPrev
  <2>2. Replicated(l, sent, prev) = IF prev <= Len(l) THEN SubSeq(l, 1, prev - 1) ELSE l
    BY <1>2 DEF Replicated
  <2> QED
    BY <1>1, <1>2, <2>1, <2>2
<1>3. ASSUME HasPrev(l, sent, prev), NEW n \in prev .. Len(sent),
             \A i \in prev + 1 .. n : i <= Len(l) /\ l[i].term = sent[i].term
      PROVE  n <= Len(l) /\ \A k \in 1 .. n : l[k] = sent[k]
  <2>1. CASE n = 0
    BY <1>1, <2>1
  <2>2. CASE n > 0
    <3>1. n <= Len(l) /\ l[n].term = sent[n].term
      BY <1>1, <1>3, <2>2 DEF HasPrev
    <3>2. n \in Nat /\ 1 <= n /\ n <= n /\ n <= Len(sent)
      BY <1>1, <2>2
    <3> QED
      BY <3>1, <3>2 DEF Compatible
  <2> QED
    BY <1>1, <2>1, <2>2
<1>4. CASE HasPrev(l, sent, prev) /\ differ = {}
  <2>1. Replicated(l, sent, prev) = l
    BY <1>4 DEF Replicated
  <2>2. Len(sent) \in prev .. Len(sent)
    BY <1>1
  <2>3. \A i \in prev + 1 .. Len(sent) : i <= Len(l) /\ l[i].term = sent[i].term
    BY <1>1, <1>4
  <2> QED
    BY <1>3, <1>4, <2>1, <2>2, <2>3 DEF Prefix
<1>5. CASE HasPrev(l, sent, prev) /\ differ # {}
  <2>1. first \in differ /\ \A j \in differ : first <= j
    <3>1. differ \in SUBSET Nat
      BY <1>1
    <3> HIDE DEF differ
    <3> QED
      BY <1>5, <3>1, LeastServer
  <2>2. Replicated(l, sent, prev) = SubSeq(l, 1, first - 1) \o SubSeq(sent, first, Len(sent))
    BY <1>5 DEF Replicated
  <2> HIDE DEF first
  <2>3. first \in prev + 1 .. Len(sent)
    BY <2>1
  <2>4. \A i \in prev + 1 .. first - 1 : i <= Len(l) /\ l[i].term = sent[i].term
    <3> SUFFICES ASSUME NEW i \in prev + 1 .. first - 1
                 PROVE  i <= Len(l) /\ l[i].term = sent[i].term
      OBVIOUS
    <3>1. i \in prev + 1 .. Len(sent) /\ ~(first <= i)
      BY <1>1, <2>3
    <3>2. i \notin differ
      BY <2>1, <3>1
    <3> QED
      BY <1>1, <3>1, <3>2
  <2> HIDE DEF differ
  <2> DEFINE n == first - 1
  <2>5. n \in prev .. Len(sent) /\ n \in Nat
    BY <1>1, <2>3
  <2>6. n <= Len(l) /\ \A k \in 1 .. n : l[k] = sent[k]
    <3> HIDE DEF n
    <3>1. \A i \in prev + 1 .. n : i <= Len(l) /\ l[i].term = sent[i].term
      BY <2>4 DEF n
    <3> QED
      BY <1>3, <1>5, <2>5, <3>1
  <2>7. SubSeq(l, 1, n) = SubSeq(sent, 1, n)
    <3> HIDE DEF n
    <3>1. n \in 0 .. Len(l) /\ n \in 0 .. Len(sent)
      BY <1>1, <2>5, <2>6
    <3>2. SubSeq(l, 1, n) \in Seq(NatEntry) /\ SubSeq(sent, 1, n) \in Seq(NatEntry)
      BY <3>1, CutIs
    <3>3. Len(SubSeq(l, 1, n)) = Len(SubSeq(sent, 1, n))
      BY <3>1, CutIs
    <3>4. \A k \in 1 .. Len(SubSeq(l, 1, n)) : SubSeq(l, 1, n)[k] = SubSeq(sent, 1, n)[k]
      BY <2>6, <3>1, CutIs
    <3> QED
      BY <3>2, <3>3, <3>4, SeqEqual
  <2>8. SubSeq(sent, 1, n) \o SubSeq(sent, n + 1, Len(sent)) = SubSeq(sent, 1, Len(sent))
    <3> HIDE DEF n
    <3>1. 1 \in 1 .. Len(sent) + 1 /\ n \in 1 - 1 .. Len(sent) /\ Len(sent) \in n .. Len(sent)
      BY <1>1, <2>5
    <3> QED
      BY <3>1, ConcatAdjacentSubSeq
  <2>9. n + 1 = first
    BY <2>3
  <2>10. SubSeq(sent, 1, Len(sent)) = sent
    BY SubSeqFull
  <2> QED
    BY <1>5, <2>2, <2>7, <2>8, <2>9, <2>10
<1> QED
  BY <1>2, <1>4, <1>5

\* The log of s has an entry of term u at n.
Has(s, n, u) == n \in 1 .. Len(log[s]) /\ log[s][n].term = u

TermsSorted ==
  \A s \in Server : \A i, j \in 1 .. Len(log[s]) : i <= j => log[s][i].term <= log[s][j].term

\* Entries are made by leaders that were elected.
EntriesElected ==
  \A s \in Server : \A i \in 1 .. Len(log[s]) : \E e \in elected : e[2] = log[s][i].term

LogsCompatible == \A s, t \in Server : Compatible(log[s], log[t])

\* A leader has all entries of its term.
LeaderHasOwn ==
  \A s, t \in Server : state[s] = "LEADER" =>
    \A i \in 1 .. Len(log[t]) : log[t][i].term = current_term[s] => Has(s, i, current_term[s])

\* Who stands for election has not won it.
CandidateFresh ==
  \A c \in Server : state[c] = "CANDIDATE" => <<c, current_term[c]>> \notin elected

\* What a leader knows of the others' logs is so.
Matched ==
  \A s, f \in Server : state[s] = "LEADER" =>
    /\ match_index[s][f] <= Len(log[s]) /\ match_index[s][f] <= Len(log[f])
    /\ \A i \in 1 .. match_index[s][f] : log[f][i] = log[s][i]
    /\ next_index[s][f] \in 1 .. Len(log[s]) + 1
    /\ match_index[s][f] > 0 => next_index[s][f] = match_index[s][f] + 1

\* An entry that cannot be lost: a majority has it, and so has every log with an entry
\* of a higher term and the leader of a higher term.
Stable(n, u) ==
  /\ Majority({t \in Server : Has(t, n, u)})
  /\ \A t \in Server : \A j \in 1 .. Len(log[t]) : log[t][j].term > u => Has(t, n, u)
  /\ \A s \in Server : state[s] = "LEADER" /\ current_term[s] > u => Has(s, n, u)

\* The last entry that a server knows committed is stable.
CommitStable ==
  \A s \in Server : commit_index[s] > 0 =>
    \E u \in Nat : Has(s, commit_index[s], u) /\ Stable(commit_index[s], u)

AppliedCommitted == \A s \in Server : last_applied[s] <= commit_index[s]

LogInv ==
  /\ Inv /\ LogTypes
  /\ TermsSorted /\ EntriesElected /\ LogsCompatible /\ LeaderHasOwn /\ CandidateFresh
  /\ Matched /\ CommitStable /\ AppliedCommitted

\* What the type of the logs says of one log and its entries.
LEMMA LogValues ==
  ASSUME LogTypes, NEW s \in Server
  PROVE  /\ log[s] \in Seq(NatEntry) /\ Len(log[s]) \in Nat
         /\ \A i \in 1 .. Len(log[s]) : log[s][i] \in NatEntry /\ log[s][i].term \in Nat
<1>1. log[s] \in Seq(NatEntry)
  BY DEF LogTypes
<1>2. \A i \in 1 .. Len(log[s]) : log[s][i] \in NatEntry
  BY <1>1, ElementOfSeq
<1> QED
  BY <1>1, <1>2 DEF NatEntry

\* A majority is never empty.
LEMMA NoneIsNoMajority == ~Majority({})
  BY CftRaftConstants, FS_EmptySet, FS_CardinalityType DEF Majority

\* Terms of entries are not above the term of any server.
LEMMA EntriesBehind ==
  ASSUME LogInv, NEW s \in Server, NEW t \in Server, NEW i \in 1 .. Len(log[t])
  PROVE  log[t][i].term <= current_term[s]
BY DEF LogInv, Inv, EntriesElected, Informed

\* A leader has what is stable.
LEMMA LeaderHasStable ==
  ASSUME LogInv, NEW s \in Server, state[s] = "LEADER", NEW n, NEW u \in Nat, Stable(n, u)
  PROVE  Has(s, n, u)
<1>1. PICK t \in Server : Has(t, n, u)
  BY NoneIsNoMajority DEF Stable
<1>2. n \in 1 .. Len(log[t]) /\ log[t][n].term = u
  BY <1>1 DEF Has
<1>3. u <= current_term[s] /\ current_term[s] \in Nat
  BY <1>2, EntriesBehind DEF LogInv, Inv, Typed
<1>4. CASE u = current_term[s]
  BY <1>2, <1>4 DEF LogInv, LeaderHasOwn
<1>5. CASE u < current_term[s]
  BY <1>5 DEF Stable
<1> QED
  BY <1>3, <1>4, <1>5

\* When logs stay, so does what is stable, if new leaders have it.
LEMMA StableStays ==
  ASSUME log' = log, NEW n, NEW u, Stable(n, u),
         \A s \in Server : state'[s] = "LEADER" /\ current_term'[s] > u => Has(s, n, u)
  PROVE  Stable(n, u)'
BY DEF Stable, Has, Majority

\* Where logs and what is committed stay, the invariant needs a look at the leaders only.
LEMMA LogsStayInv ==
  ASSUME LogInv, Inv', UNCHANGED <<log, commit_index, last_applied>>,
         elected \subseteq elected', LogTypes', CandidateFresh', LeaderHasOwn', Matched',
         \A s \in Server : state'[s] = "LEADER" =>
           \A n \in Nat, u \in Nat :
             Stable(n, u) /\ current_term'[s] > u => Has(s, n, u)
  PROVE  LogInv'
<1>1. TermsSorted' /\ EntriesElected' /\ LogsCompatible' /\ AppliedCommitted'
  BY DEF LogInv, TermsSorted, EntriesElected, LogsCompatible, AppliedCommitted
<1>2. CommitStable'
  <2> SUFFICES ASSUME NEW s \in Server, commit_index[s] > 0
               PROVE  \E u \in Nat : Has(s, commit_index[s], u)' /\ Stable(commit_index[s], u)'
    BY DEF CommitStable
  <2>1. PICK u \in Nat : Has(s, commit_index[s], u) /\ Stable(commit_index[s], u)
    BY DEF LogInv, CommitStable
  <2>2. commit_index[s] \in Nat /\ commit_index'[s] = commit_index[s]
    BY DEF LogInv, LogTypes
  <2>3. Has(s, commit_index[s], u)'
    BY <2>1, <2>2 DEF Has
  <2>4. PICK n \in Nat : n = commit_index[s]
    BY <2>2
  <2>5. Stable(n, u)'
    <3>1. Stable(n, u)
      BY <2>1, <2>4
    <3>2. \A t \in Server : state'[t] = "LEADER" /\ current_term'[t] > u => Has(t, n, u)
      BY <3>1
    <3> QED
      BY <3>1, <3>2, StableStays
  <2> QED
    BY <2>2, <2>3, <2>4, <2>5
<1> QED
  BY <1>1, <1>2 DEF LogInv

\* A timeout starts a term and moves no log: the log invariant survives it.
LEMMA TimeoutKeepsLogs ==
  ASSUME LogInv, NEW s \in Server, Timeout(s)
  PROVE  LogInv'
<1>1. Inv'
  BY TimeoutKeepsInv DEF LogInv
<1>2. current_term[s] \in Nat /\ current_term'[s] = current_term[s] + 1
  BY DEF LogInv, Inv, Typed, Timeout
<1>3. UNCHANGED <<log, commit_index, last_applied, next_index, match_index, elected>>
  BY DEF Timeout, logVars
<1>4. \A t \in Server : t # s => state'[t] = state[t] /\ current_term'[t] = current_term[t]
  BY DEF Timeout, LogInv, Inv, Typed
<1>5. \A t \in Server : state'[t] = "LEADER" =>
        t # s /\ state[t] = "LEADER" /\ current_term'[t] = current_term[t]
  BY <1>4 DEF Timeout, LogInv, Inv, Typed
<1>6. CandidateFresh'
  <2> SUFFICES ASSUME NEW c \in Server, state'[c] = "CANDIDATE"
               PROVE  <<c, current_term'[c]>> \notin elected
    BY <1>3 DEF CandidateFresh
  <2>1. CASE c = s
    <3>1. \A e \in elected : e[2] <= current_term[s] /\ e[2] \in Nat
      BY DEF LogInv, Inv, Informed, Typed
    <3> QED
      BY <1>2, <2>1, <3>1
  <2>2. CASE c # s
    BY <1>4, <2>2 DEF LogInv, CandidateFresh
  <2> QED
    BY <2>1, <2>2
<1>7. LogTypes' /\ LeaderHasOwn' /\ Matched'
  BY <1>3, <1>5 DEF LogInv, LogTypes, LeaderHasOwn, Matched, Has
<1>8. \A t \in Server : state'[t] = "LEADER" =>
        \A n \in Nat, u \in Nat : Stable(n, u) /\ current_term'[t] > u => Has(t, n, u)
  BY <1>5 DEF Stable
<1> QED
  BY <1>1, <1>3, <1>6, <1>7, <1>8, LogsStayInv

\* The winner of an election has what is stable: it has it from a voter's log, which is
\* no more up to date than its own.
LEMMA WinnerHasStable ==
  ASSUME LogInv, NEW c \in Server, StartElection(c),
         Won(c, {p \in Contacted(c) : Grants(c, p)}),
         NEW n \in Nat, NEW u \in Nat, Stable(n, u)
  PROVE  Has(c, n, u)
<1> DEFINE granting == {p \in Contacted(c) : Grants(c, p)}
<1>1. Majority(granting \cup {c}) /\ Majority({t \in Server : Has(t, n, u)})
  BY DEF Won, Stable
<1>2. granting \cup {c} \in SUBSET Server
  BY DEF Contacted
<1>3. PICK v \in granting \cup {c} : v \in Server /\ Has(v, n, u)
  BY <1>1, <1>2, MajoritiesMeet
<1>4. CASE v = c
  BY <1>3, <1>4
<1>5. CASE v \in granting
  <2>1. /\ n \in 1 .. Len(log[v]) /\ log[v][n].term = u /\ Len(log[v]) \in Nat
        /\ log[c] \in Seq(NatEntry) /\ Len(log[c]) \in Nat
        /\ \A i \in 1 .. Len(log[c]) : log[c][i].term \in Nat
        /\ \A i \in 1 .. Len(log[v]) : log[v][i].term \in Nat
    BY <1>3, LogValues DEF Has, LogInv
  <2>2. /\ log[v] # <<>> /\ Len(log[v]) \in 1 .. Len(log[v])
        /\ LastTerm(v) = log[v][Len(log[v])].term
    BY <2>1 DEF LastTerm
  <2>3. u <= LastTerm(v) /\ LastTerm(v) \in Nat
    BY <1>3, <2>1, <2>2 DEF LogInv, TermsSorted
  <2>4. LogOk(c, v)
    BY <1>5 DEF Grants
  <2>5. log[c] # <<>>
    <3>1. ASSUME log[c] = <<>> PROVE FALSE
      <4>1. LastTerm(c) = 0 /\ Len(log[c]) = 0
        BY <3>1 DEF LastTerm
      <4> QED
        BY <2>1, <2>3, <2>4, <4>1 DEF LogOk
    <3> QED
      BY <3>1
  <2>6. Len(log[c]) \in 1 .. Len(log[c]) /\ LastTerm(c) = log[c][Len(log[c])].term
    BY <2>1, <2>5, EmptySeq DEF LastTerm
  <2>7. LastTerm(c) \in Nat
    BY <2>1, <2>6
  <2>8. CASE LastTerm(c) > u
    BY <2>6, <2>8 DEF Stable
  <2>9. CASE ~(LastTerm(c) > u)
    <3>1. LastTerm(c) = LastTerm(v) /\ LastTerm(c) = u /\ Len(log[c]) >= Len(log[v])
      BY <2>3, <2>4, <2>7, <2>9 DEF LogOk
    <3>2. n \in Nat /\ 1 <= n /\ n <= Len(log[c]) /\ n <= Len(log[v]) /\ Len(log[c]) \in Nat
      BY <2>1, <3>1
    <3>3. Compatible(log[v], log[c]) /\ log[v][n].term = log[c][Len(log[c])].term
      BY <1>3, <2>1, <2>6, <3>1 DEF LogInv, LogsCompatible
    <3>4. \A k \in 1 .. n : log[v][k] = log[c][k]
      BY <3>2, <3>3 DEF Compatible
    <3>5. log[v][n] = log[c][n]
      BY <3>2, <3>4
    <3> QED
      BY <2>1, <3>2, <3>5 DEF Has
  <2> QED
    BY <2>8, <2>9
<1> QED
  BY <1>3, <1>4, <1>5

\* An election, won or lost, keeps the log invariant: a new leader holds what is stable.
LEMMA ElectionKeepsLogs ==
  ASSUME LogInv, NEW c \in Server, StartElection(c)
  PROVE  LogInv'
<1> DEFINE granting == {p \in Contacted(c) : Grants(c, p)}
<1>0. Inv
  BY DEF LogInv
<1>1. Inv'
  BY <1>0, ElectionWonKeepsInv, ElectionLostKeepsInv DEF StartElection
<1>2. UNCHANGED <<log, commit_index, last_applied>> /\ elected \subseteq elected'
  BY DEF StartElection, logVars
<1>3. state[c] = "CANDIDATE"
  BY DEF StartElection, MayStand
<1>4. \A t \in Server : t # c /\ state'[t] = "LEADER" =>
        state[t] = "LEADER" /\ current_term'[t] = current_term[t]
  BY DEF StartElection
<1>5. state'[c] = "LEADER" => Won(c, granting) /\ current_term'[c] = current_term[c]
  <2>1. c \notin Contacted(c)
    BY DEF Contacted
  <2> QED
    BY <1>3, <2>1 DEF StartElection, Won
<1>6. CandidateFresh'
  <2> SUFFICES ASSUME NEW t \in Server, state'[t] = "CANDIDATE"
               PROVE  <<t, current_term'[t]>> \notin elected'
    BY DEF CandidateFresh
  <2>1. state[t] = "CANDIDATE" /\ current_term'[t] = current_term[t]
    BY DEF StartElection
  <2>2. Won(c, granting) => t # c
    BY DEF StartElection
  <2> QED
    BY <2>1, <2>2 DEF StartElection, LogInv, CandidateFresh
<1>7. LogTypes'
  <2>1. Len(log[c]) + 1 \in Nat
    BY LogValues DEF LogInv
  <2>2. next_index' \in [Server -> [Server -> Nat]] /\ match_index' \in [Server -> [Server -> Nat]]
    <3>1. CASE Won(c, granting)
      <4>1. next_index' = [next_index EXCEPT ![c] = [p \in Server |-> Len(log[c]) + 1]]
        BY <3>1 DEF StartElection
      <4>2. match_index' = [match_index EXCEPT ![c] = [p \in Server |-> 0]]
        BY <3>1 DEF StartElection
      <4> QED
        BY <2>1, <4>1, <4>2 DEF LogInv, LogTypes
    <3>2. CASE ~Won(c, granting)
      BY <3>2 DEF StartElection, LogInv, LogTypes
    <3> QED
      BY <3>1, <3>2
  <2> QED
    BY <1>2, <2>2 DEF LogInv, LogTypes
<1>8. LeaderHasOwn'
  <2> SUFFICES ASSUME NEW s \in Server, NEW t \in Server, state'[s] = "LEADER",
                      NEW i \in 1 .. Len(log[t]), log[t][i].term = current_term'[s]
               PROVE  Has(s, i, current_term'[s])
    BY <1>2 DEF LeaderHasOwn, Has
  <2>1. CASE s # c
    BY <1>4, <2>1 DEF LogInv, LeaderHasOwn
  <2>2. CASE s = c
    <3>1. Won(c, granting) /\ log[t][i].term = current_term[c]
      BY <1>5, <2>2
    <3>2. PICK e \in elected : e[2] = current_term[c]
      BY <3>1 DEF LogInv, EntriesElected
    <3>3. e[1] = c
      BY <1>0, <3>1, <3>2, NoOtherWinner
    <3>4. e = <<c, current_term[c]>>
      BY <1>0, <3>2, <3>3 DEF Inv, Typed
    <3> QED
      BY <1>3, <3>4 DEF LogInv, CandidateFresh
  <2> QED
    BY <2>1, <2>2
<1>9. Matched'
  <2> SUFFICES ASSUME NEW s \in Server, NEW f \in Server, state'[s] = "LEADER"
               PROVE  /\ match_index'[s][f] <= Len(log[s]) /\ match_index'[s][f] <= Len(log[f])
                      /\ \A i \in 1 .. match_index'[s][f] : log[f][i] = log[s][i]
                      /\ next_index'[s][f] \in 1 .. Len(log[s]) + 1
                      /\ match_index'[s][f] > 0 => next_index'[s][f] = match_index'[s][f] + 1
    BY <1>2 DEF Matched
  <2>1. CASE s # c
    <3>1. match_index'[s] = match_index[s] /\ next_index'[s] = next_index[s]
      BY <2>1 DEF StartElection, LogInv, LogTypes
    <3> QED
      BY <1>4, <2>1, <3>1 DEF LogInv, Matched
  <2>2. CASE s = c
    <3>1. match_index'[s][f] = 0 /\ next_index'[s][f] = Len(log[s]) + 1
      BY <1>5, <2>2 DEF StartElection, LogInv, LogTypes
    <3>2. Len(log[s]) \in Nat /\ Len(log[f]) \in Nat
      BY LogValues DEF LogInv
    <3> QED
      BY <3>1, <3>2
  <2> QED
    BY <2>1, <2>2
<1>10. \A s \in Server : state'[s] = "LEADER" =>
         \A n \in Nat, u \in Nat : Stable(n, u) /\ current_term'[s] > u => Has(s, n, u)
  BY <1>4, <1>5, WinnerHasStable DEF Stable
<1> QED
  BY <1>1, <1>2, <1>6, <1>7, <1>8, <1>9, <1>10, LogsStayInv

\* What a leader sends, and what a command makes of the log of any server: it stays, it
\* becomes the leader's, or it is cut before an entry that differs from the leader's.
Sent(s, cmd) == Append(log[s], [term |-> current_term[s], command |-> cmd])

Follows(l, new, sent) ==
  \/ new = l
  \/ new = sent
  \/ \E prev \in 1 .. Len(l) :
       prev <= Len(sent) /\ l[prev].term # sent[prev].term /\ new = SubSeq(l, 1, prev - 1)

\* The log a command sends: the leader's own with one entry of its term behind it.
LEMMA SentIs ==
  ASSUME LogInv, NEW s \in Server, NEW cmd \in Command
  PROVE  /\ Sent(s, cmd) \in Seq(NatEntry)
         /\ Len(Sent(s, cmd)) = Len(log[s]) + 1 /\ Len(log[s]) \in Nat
         /\ \A k \in 1 .. Len(log[s]) : Sent(s, cmd)[k] = log[s][k]
         /\ Sent(s, cmd)[Len(log[s]) + 1].term = current_term[s]
         /\ current_term[s] \in Nat
<1> DEFINE e == [term |-> current_term[s], command |-> cmd]
<1>1. current_term[s] \in Nat
  BY DEF LogInv, Inv, Typed
<1>2. e \in NatEntry /\ e.term = current_term[s]
  BY <1>1 DEF NatEntry
<1>3. log[s] \in Seq(NatEntry) /\ Len(log[s]) \in Nat
  BY LogValues DEF LogInv
<1>4. Sent(s, cmd) = Append(log[s], e)
  BY DEF Sent
<1> HIDE DEF e
<1>5. /\ Append(log[s], e) \in Seq(NatEntry)
      /\ Len(Append(log[s], e)) = Len(log[s]) + 1
      /\ \A k \in 1 .. Len(log[s]) : Append(log[s], e)[k] = log[s][k]
      /\ Append(log[s], e)[Len(log[s]) + 1] = e
  BY <1>2, <1>3, AppendProperties
<1> QED
  BY <1>1, <1>2, <1>3, <1>4, <1>5

\* The leader's new log is compatible with all logs, and they with it.
LEMMA SentCompatible ==
  ASSUME LogInv, NEW s \in Server, NEW cmd \in Command, state[s] = "LEADER", NEW t \in Server
  PROVE  Compatible(Sent(s, cmd), log[t]) /\ Compatible(log[t], Sent(s, cmd))
<1> DEFINE n == Len(log[s])
<1>1. /\ Len(Sent(s, cmd)) = n + 1 /\ n \in Nat /\ Len(log[t]) \in Nat
      /\ \A k \in 1 .. n : Sent(s, cmd)[k] = log[s][k]
      /\ Sent(s, cmd)[n + 1].term = current_term[s]
  BY SentIs, LogValues DEF LogInv
<1>2. Compatible(log[s], log[t]) /\ Compatible(log[t], log[s])
  BY DEF LogInv, LogsCompatible
<1>3. \A i \in 1 .. Len(log[t]) : log[t][i].term = current_term[s] =>
        i <= n /\ log[s][i].term = current_term[s]
  BY DEF LogInv, LeaderHasOwn, Has
<1> HIDE DEF n
<1>4. ASSUME NEW i \in Nat, NEW j \in Nat, 1 <= i, i <= j, i <= n + 1, j <= Len(log[t]),
             Sent(s, cmd)[i].term = log[t][j].term, NEW k \in 1 .. i
      PROVE  Sent(s, cmd)[k] = log[t][k]
  <2>1. i # n + 1
    <3>1. ASSUME i = n + 1 PROVE FALSE
      <4>1. log[t][j].term = current_term[s] /\ j \in 1 .. Len(log[t])
        BY <1>1, <1>4, <3>1
      <4> QED
        BY <1>1, <1>3, <1>4, <3>1, <4>1
    <3> QED
      BY <3>1
  <2>2. i \in 1 .. n /\ k \in 1 .. n
    BY <1>1, <1>4, <2>1
  <2>3. log[s][i].term = log[t][j].term /\ i <= Len(log[s])
    BY <1>1, <1>4, <2>2 DEF n
  <2>4. log[s][k] = log[t][k]
    BY <1>2, <1>4, <2>3 DEF Compatible
  <2> QED
    BY <1>1, <2>2, <2>4
<1>5. ASSUME NEW i \in Nat, NEW j \in Nat, 1 <= i, i <= j, i <= Len(log[t]), j <= n + 1,
             log[t][i].term = Sent(s, cmd)[j].term, NEW k \in 1 .. i
      PROVE  log[t][k] = Sent(s, cmd)[k]
  <2>1. i \in 1 .. Len(log[t])
    BY <1>1, <1>5
  <2>2. \E m \in Nat : i <= m /\ m <= n /\ log[t][i].term = log[s][m].term
    <3>1. CASE j = n + 1
      <4>1. i <= n /\ log[s][i].term = log[t][i].term
        BY <1>1, <1>3, <1>5, <2>1, <3>1
      <4> QED
        BY <4>1
    <3>2. CASE j # n + 1
      <4>1. j \in 1 .. n
        BY <1>1, <1>5, <3>2
      <4>2. log[t][i].term = log[s][j].term
        BY <1>1, <1>5, <4>1
      <4> QED
        BY <1>5, <4>1, <4>2
    <3> QED
      BY <3>1, <3>2
  <2>3. log[t][k] = log[s][k]
    BY <1>2, <1>5, <2>2 DEF Compatible, n
  <2>4. k \in 1 .. n
    BY <1>1, <2>2
  <2> QED
    BY <1>1, <2>3, <2>4
<1> QED
  BY <1>1, <1>4, <1>5 DEF Compatible

\* The logs after a command; the follower that takes the entries has them all.
LEMMA CommandLogs ==
  ASSUME LogInv, NEW s \in Server, NEW cmd \in Command, AppendCommand(s, cmd)
  PROVE  /\ log'[s] = Sent(s, cmd)
         /\ \A f \in Server : log'[f] \in Seq(NatEntry) /\ Follows(log[f], log'[f], Sent(s, cmd))
         /\ \A f \in Server : next_index[s][f] - 1 \in 0 .. Len(log[s])
         /\ \A f \in Contacted(s) :
              HasPrev(log[f], Sent(s, cmd), next_index[s][f] - 1) => Prefix(Sent(s, cmd), log'[f])
<1> DEFINE sent == Sent(s, cmd)
           prev(f) == next_index[s][f] - 1
<1>1. state[s] = "LEADER" /\ s \notin Contacted(s)
  BY DEF AppendCommand, Contacted
<1>2. log' = [f \in Server |-> IF f = s THEN sent
                  ELSE IF f \in Contacted(s) THEN Replicated(log[f], sent, prev(f)) ELSE log[f]]
  BY DEF AppendCommand, Sent
<1>3. /\ sent \in Seq(NatEntry) /\ Len(sent) = Len(log[s]) + 1 /\ Len(log[s]) \in Nat
  BY SentIs
<1>4. \A f \in Server : prev(f) \in 0 .. Len(log[s]) /\ prev(f) \in 0 .. Len(sent)
  <2> TAKE f \in Server
  <2>1. next_index[s][f] \in 1 .. Len(log[s]) + 1
    BY <1>1 DEF LogInv, Matched
  <2> QED
    BY <1>3, <2>1
<1> HIDE DEF sent, prev
<1>5. ASSUME NEW f \in Server, f \in Contacted(s)
      PROVE  /\ log'[f] \in Seq(NatEntry)
             /\ Follows(log[f], log'[f], sent)
             /\ HasPrev(log[f], sent, prev(f)) => Prefix(sent, log'[f])
  <2>1. log'[f] = Replicated(log[f], sent, prev(f))
    BY <1>1, <1>2, <1>5
  <2>2. log[f] \in Seq(NatEntry) /\ Len(log[f]) \in Nat /\ Compatible(log[f], sent)
    BY <1>1, LogValues, SentCompatible DEF LogInv, sent
  <2>3. /\ HasPrev(log[f], sent, prev(f)) =>
             log'[f] = sent \/ (log'[f] = log[f] /\ Prefix(sent, log[f]))
        /\ ~HasPrev(log[f], sent, prev(f)) =>
             \/ log'[f] = log[f]
             \/ /\ prev(f) \in 1 .. Len(log[f]) /\ log[f][prev(f)].term # sent[prev(f)].term
                /\ log'[f] = SubSeq(log[f], 1, prev(f) - 1)
    BY <1>3, <1>4, <2>1, <2>2, ReplicatedIs
  <2>4. CASE log'[f] = log[f]
    BY <2>2, <2>3, <2>4, <1>3 DEF Follows, Prefix
  <2>5. CASE log'[f] = sent
    BY <1>3, <2>5 DEF Follows, Prefix
  <2>6. CASE /\ ~HasPrev(log[f], sent, prev(f))
             /\ prev(f) \in 1 .. Len(log[f]) /\ log[f][prev(f)].term # sent[prev(f)].term
             /\ log'[f] = SubSeq(log[f], 1, prev(f) - 1)
    <3>1. prev(f) - 1 \in 0 .. Len(log[f])
      BY <2>2, <2>6
    <3>2. SubSeq(log[f], 1, prev(f) - 1) \in Seq(NatEntry)
      BY <2>2, <3>1, CutIs
    <3>3. prev(f) <= Len(sent)
      BY <1>4
    <3> QED
      BY <2>6, <3>2, <3>3 DEF Follows
  <2> QED
    BY <2>3, <2>4, <2>5, <2>6
<1>6. \A f \in Server \ Contacted(s) : log'[f] = IF f = s THEN sent ELSE log[f]
  BY <1>2
<1>7. \A f \in Server \ Contacted(s) : log'[f] \in Seq(NatEntry) /\ Follows(log[f], log'[f], sent)
  BY <1>3, <1>6, LogValues DEF Follows, LogInv
<1>8. Contacted(s) \subseteq Server
  BY DEF Contacted
<1> QED
  BY <1>1, <1>4, <1>5, <1>6, <1>7, <1>8 DEF sent, prev

\* A log that follows the leader's is part of one of the two, and keeps what they share.
LEMMA FollowsIsPart ==
  ASSUME NEW l \in Seq(NatEntry), NEW new \in Seq(NatEntry), NEW sent \in Seq(NatEntry),
         Follows(l, new, sent)
  PROVE  Prefix(new, l) \/ new = sent
<1>1. CASE new = l
  BY <1>1 DEF Prefix
<1>2. ASSUME NEW prev \in 1 .. Len(l), new = SubSeq(l, 1, prev - 1)
      PROVE  Prefix(new, l)
  <2>1. prev - 1 \in 0 .. Len(l) /\ Len(l) \in Nat
    OBVIOUS
  <2>2. Len(SubSeq(l, 1, prev - 1)) = prev - 1
        /\ \A k \in 1 .. prev - 1 : SubSeq(l, 1, prev - 1)[k] = l[k]
    BY <2>1, CutIs
  <2> QED
    BY <1>2, <2>1, <2>2 DEF Prefix
<1> QED
  BY <1>1, <1>2 DEF Follows

\* A follower that takes the sent log keeps every entry that agreed with it.
LEMMA FollowsKeeps ==
  ASSUME NEW l \in Seq(NatEntry), NEW new \in Seq(NatEntry), NEW sent \in Seq(NatEntry),
         Follows(l, new, sent), Compatible(l, sent),
         NEW n \in 1 .. Len(l), n <= Len(sent), l[n].term = sent[n].term
  PROVE  n \in 1 .. Len(new) /\ new[n].term = sent[n].term
<1>1. Len(l) \in Nat /\ Len(sent) \in Nat /\ n \in Nat
  OBVIOUS
<1>2. CASE new = l \/ new = sent
  BY <1>1, <1>2
<1>3. ASSUME NEW prev \in 1 .. Len(l), prev <= Len(sent), l[prev].term # sent[prev].term,
             new = SubSeq(l, 1, prev - 1)
      PROVE  n \in 1 .. Len(new) /\ new[n].term = sent[n].term
  <2>1. \A k \in 1 .. n : l[k] = sent[k]
    BY <1>1 DEF Compatible
  <2>2. ~(prev <= n)
    BY <1>3, <2>1
  <2>3. n \in 1 .. prev - 1 /\ prev - 1 \in 0 .. Len(l)
    BY <1>1, <2>2
  <2>4. Len(new) = prev - 1 /\ new[n] = l[n]
    BY <1>3, <2>3, CutIs
  <2> QED
    BY <2>3, <2>4
<1> QED
  BY <1>2, <1>3 DEF Follows

\* A command keeps what is stable.
LEMMA CommandKeepsHas ==
  ASSUME LogInv, NEW s \in Server, NEW cmd \in Command, AppendCommand(s, cmd),
         NEW n \in Nat, NEW u \in Nat, Has(s, n, u), NEW t \in Server, Has(t, n, u)
  PROVE  Has(t, n, u)'
<1> DEFINE sent == Sent(s, cmd)
<1>1. /\ log[t] \in Seq(NatEntry) /\ sent \in Seq(NatEntry) /\ log'[t] \in Seq(NatEntry)
      /\ Follows(log[t], log'[t], sent) /\ Compatible(log[t], sent)
  BY CommandLogs, SentIs, SentCompatible, LogValues DEF LogInv, AppendCommand
<1>2. n \in 1 .. Len(log[t]) /\ log[t][n].term = u /\ n \in 1 .. Len(log[s]) /\ log[s][n].term = u
  BY DEF Has
<1>3. n <= Len(sent) /\ sent[n].term = u
  BY <1>2, SentIs
<1> HIDE DEF sent
<1>4. n \in 1 .. Len(log'[t]) /\ log'[t][n].term = sent[n].term
  BY <1>1, <1>2, <1>3, FollowsKeeps
<1> QED
  BY <1>3, <1>4 DEF Has

\* An entry that is stable stays so when a command is appended and sent.
LEMMA CommandKeepsStable ==
  ASSUME LogInv, NEW s \in Server, NEW cmd \in Command, AppendCommand(s, cmd),
         NEW n \in Nat, NEW u \in Nat, Stable(n, u)
  PROVE  Stable(n, u)'
<1> DEFINE sent == Sent(s, cmd)
<1>1. state[s] = "LEADER" /\ Has(s, n, u)
  BY LeaderHasStable DEF AppendCommand
<1>2. \A t \in Server : Has(t, n, u) => Has(t, n, u)'
  BY <1>1, CommandKeepsHas
<1>3. Majority({t \in Server : Has(t, n, u)})'
  <2>1. Majority({t \in Server : Has(t, n, u)})
    BY DEF Stable
  <2>2. {t \in Server : Has(t, n, u)} \subseteq {t \in Server : Has(t, n, u)'}
    BY <1>2
  <2>3. Majority({t \in Server : Has(t, n, u)'})
    BY <2>1, <2>2, MajorityGrows
  <2> QED
    BY <2>3 DEF Majority
<1>4. ASSUME NEW t \in Server, NEW j \in 1 .. Len(log'[t]), log'[t][j].term > u
      PROVE  Has(t, n, u)'
  <2>1. /\ log[t] \in Seq(NatEntry) /\ sent \in Seq(NatEntry) /\ log'[t] \in Seq(NatEntry)
        /\ Follows(log[t], log'[t], sent)
    BY CommandLogs, SentIs, LogValues DEF LogInv
  <2>2. CASE Prefix(log'[t], log[t])
    <3>1. j \in 1 .. Len(log[t]) /\ log[t][j].term > u
      BY <1>4, <2>1, <2>2 DEF Prefix
    <3> QED
      BY <1>2, <3>1 DEF Stable
  <2>3. CASE log'[t] = sent
    <3>1. log'[s] = log'[t]
      BY <2>3, CommandLogs
    <3> QED
      BY <1>1, <1>2, <3>1 DEF Has
  <2> HIDE DEF sent
  <2> QED
    BY <2>1, <2>2, <2>3, FollowsIsPart
<1>5. ASSUME NEW t \in Server, state'[t] = "LEADER"
      PROVE  Has(t, n, u)'
  <2>1. state[t] = "LEADER"
    BY <1>5 DEF AppendCommand
  <2>2. t = s
    BY <1>1, <2>1, OneLeader DEF LogInv
  <2> QED
    BY <1>1, <1>2, <2>2
<1> QED
  BY <1>3, <1>4, <1>5 DEF Stable

\* A command keeps the terms of every log in order, and the logs compatible.
LEMMA CommandKeepsTerms ==
  ASSUME LogInv, NEW s \in Server, NEW cmd \in Command, AppendCommand(s, cmd)
  PROVE  TermsSorted' /\ EntriesElected' /\ LogsCompatible' /\ LeaderHasOwn'
<1> DEFINE sent == Sent(s, cmd)
<1>1. /\ sent \in Seq(NatEntry) /\ Len(sent) = Len(log[s]) + 1 /\ Len(log[s]) \in Nat
      /\ \A k \in 1 .. Len(log[s]) : sent[k] = log[s][k]
      /\ sent[Len(log[s]) + 1].term = current_term[s] /\ current_term[s] \in Nat
      /\ state[s] = "LEADER" /\ log'[s] = sent
  BY SentIs, CommandLogs DEF AppendCommand
<1>2. \A t \in Server : /\ log[t] \in Seq(NatEntry) /\ Len(log[t]) \in Nat
                        /\ log'[t] \in Seq(NatEntry) /\ Len(log'[t]) \in Nat
                        /\ Prefix(log'[t], log[t]) \/ log'[t] = sent
  <2> TAKE t \in Server
  <2>1. /\ log[t] \in Seq(NatEntry) /\ Len(log[t]) \in Nat
        /\ log'[t] \in Seq(NatEntry) /\ Follows(log[t], log'[t], sent)
    BY CommandLogs, LogValues DEF LogInv
  <2> HIDE DEF sent
  <2>2. Len(log'[t]) \in Nat
    BY <2>1
  <2> QED
    BY <1>1, <2>1, <2>2, FollowsIsPart
<1>3. \A t \in Server : Compatible(sent, log[t]) /\ Compatible(log[t], sent)
  BY <1>1, SentCompatible
<1> HIDE DEF sent
<1>4. Prefix(sent, sent) /\ Compatible(sent, sent)
  BY <1>1 DEF Prefix, Compatible
<1>5. TermsSorted'
  <2> SUFFICES ASSUME NEW t \in Server, NEW i \in 1 .. Len(log'[t]), NEW j \in 1 .. Len(log'[t]),
                      i <= j
               PROVE  log'[t][i].term <= log'[t][j].term
    BY DEF TermsSorted
  <2>1. CASE Prefix(log'[t], log[t])
    <3>1. /\ i \in 1 .. Len(log[t]) /\ j \in 1 .. Len(log[t])
          /\ log'[t][i] = log[t][i] /\ log'[t][j] = log[t][j]
      BY <1>2, <2>1 DEF Prefix
    <3> QED
      BY <3>1 DEF LogInv, TermsSorted
  <2>2. CASE log'[t] = sent
    <3>1. \A k \in 1 .. Len(log[s]) : log[s][k].term <= current_term[s]
      BY EntriesBehind
    <3>2. i \in 1 .. Len(log[s]) + 1 /\ j \in 1 .. Len(log[s]) + 1
      BY <1>1, <2>2
    <3>3. CASE j = Len(log[s]) + 1
      <4>1. CASE i = j
        BY <1>1, <2>2, <3>3, <4>1
      <4>2. CASE i # j
        <5>1. i \in 1 .. Len(log[s])
          BY <1>1, <3>2, <3>3, <4>2
        <5> QED
          BY <1>1, <2>2, <3>1, <3>3, <5>1
      <4> QED
        BY <4>1, <4>2
    <3>4. CASE j # Len(log[s]) + 1
      <4>1. i \in 1 .. Len(log[s]) /\ j \in 1 .. Len(log[s])
        BY <1>1, <3>2, <3>4
      <4>2. log[s][i].term <= log[s][j].term
        BY <4>1 DEF LogInv, TermsSorted
      <4> QED
        BY <1>1, <2>2, <4>1, <4>2
    <3> QED
      BY <3>3, <3>4
  <2> QED
    BY <1>2, <2>1, <2>2
<1>6. EntriesElected'
  <2> SUFFICES ASSUME NEW t \in Server, NEW i \in 1 .. Len(log'[t])
               PROVE  \E e \in elected : e[2] = log'[t][i].term
    BY DEF EntriesElected, AppendCommand
  <2>1. CASE Prefix(log'[t], log[t])
    <3>1. i \in 1 .. Len(log[t]) /\ log'[t][i] = log[t][i]
      BY <1>2, <2>1 DEF Prefix
    <3> QED
      BY <3>1 DEF LogInv, EntriesElected
  <2>2. CASE log'[t] = sent
    <3>1. CASE i = Len(log[s]) + 1
      <4>1. <<s, current_term[s]>> \in elected
        BY <1>1 DEF LogInv, Inv, LeadersElected
      <4>2. log'[t][i].term = <<s, current_term[s]>>[2]
        BY <1>1, <2>2, <3>1
      <4> QED
        BY <4>1, <4>2
    <3>2. CASE i # Len(log[s]) + 1
      <4>1. i \in 1 .. Len(log[s]) /\ log'[t][i] = log[s][i]
        BY <1>1, <2>2, <3>2
      <4> QED
        BY <4>1 DEF LogInv, EntriesElected
    <3> QED
      BY <3>1, <3>2
  <2> QED
    BY <1>2, <2>1, <2>2
<1>7. LogsCompatible'
  <2> SUFFICES ASSUME NEW t \in Server, NEW r \in Server
               PROVE  Compatible(log'[t], log'[r])
    BY DEF LogsCompatible, Compatible
  <2>1. Compatible(log[t], log[r])
    BY DEF LogInv, LogsCompatible
  <2>2. CASE Prefix(log'[t], log[t]) /\ Prefix(log'[r], log[r])
    BY <1>2, <2>1, <2>2, PrefixesCompatible
  <2>3. CASE log'[t] = sent /\ Prefix(log'[r], log[r])
    BY <1>1, <1>2, <1>3, <1>4, <2>3, PrefixesCompatible
  <2>4. CASE Prefix(log'[t], log[t]) /\ log'[r] = sent
    BY <1>1, <1>2, <1>3, <1>4, <2>4, PrefixesCompatible
  <2>5. CASE log'[t] = sent /\ log'[r] = sent
    BY <1>4, <2>5
  <2> QED
    BY <1>2, <2>2, <2>3, <2>4, <2>5
<1>8. LeaderHasOwn'
  <2> SUFFICES ASSUME NEW r \in Server, NEW t \in Server, state'[r] = "LEADER",
                      NEW i \in 1 .. Len(log'[t]), log'[t][i].term = current_term'[r]
               PROVE  i \in 1 .. Len(log'[r]) /\ log'[r][i].term = current_term'[r]
    BY DEF LeaderHasOwn, Has
  <2>1. r = s
    <3>1. state[r] = "LEADER"
      BY DEF AppendCommand
    <3> QED
      BY <1>1, <3>1, OneLeader DEF LogInv
  <2>2. current_term'[s] = current_term[s]
    BY DEF AppendCommand, Contacted
  <2>3. CASE log'[t] = sent
    BY <1>1, <2>1, <2>3
  <2>4. CASE Prefix(log'[t], log[t])
    <3>1. i \in 1 .. Len(log[t]) /\ log[t][i].term = current_term[s]
      BY <1>2, <2>1, <2>2, <2>4 DEF Prefix
    <3>2. i \in 1 .. Len(log[s]) /\ log[s][i].term = current_term[s]
      BY <1>1, <3>1 DEF LogInv, LeaderHasOwn, Has
    <3> QED
      BY <1>1, <2>1, <2>2, <3>2
  <2> QED
    BY <1>2, <2>3, <2>4
<1> QED
  BY <1>5, <1>6, <1>7, <1>8

\* A command leaves match_index naming entries the follower really has.
LEMMA CommandKeepsMatched ==
  ASSUME LogInv, NEW s \in Server, NEW cmd \in Command, AppendCommand(s, cmd)
  PROVE  Matched'
<1> DEFINE sent == Sent(s, cmd)
           prev(f) == next_index[s][f] - 1
<1>1. SUFFICES ASSUME NEW r \in Server, NEW f \in Server, state'[r] = "LEADER"
               PROVE  /\ match_index'[r][f] <= Len(log'[r]) /\ match_index'[r][f] <= Len(log'[f])
                      /\ \A i \in 1 .. match_index'[r][f] : log'[f][i] = log'[r][i]
                      /\ next_index'[r][f] \in 1 .. Len(log'[r]) + 1
                      /\ match_index'[r][f] > 0 => next_index'[r][f] = match_index'[r][f] + 1
  BY DEF Matched
<1>2. r = s /\ state[s] = "LEADER" /\ Ahead(s) = {} /\ Contacted(s) = Server \ {s}
  <2>1. state[r] = "LEADER" /\ ~(r = s /\ Ahead(s) # {})
    BY <1>1 DEF AppendCommand
  <2>2. r = s /\ state[s] = "LEADER"
    BY <2>1, OneLeader DEF LogInv, AppendCommand
  <2>3. Contacted(s) = Server \ {s}
    BY <2>1, <2>2 DEF Contacted
  <2> QED
    BY <2>1, <2>2, <2>3
<1>3. /\ sent \in Seq(NatEntry) /\ Len(sent) = Len(log[s]) + 1 /\ Len(log[s]) \in Nat
      /\ \A k \in 1 .. Len(log[s]) : sent[k] = log[s][k]
      /\ log'[s] = sent /\ log[f] \in Seq(NatEntry) /\ Len(log[f]) \in Nat
      /\ log'[f] \in Seq(NatEntry) /\ Len(log'[f]) \in Nat
  BY SentIs, CommandLogs, LogValues DEF LogInv
<1>4. /\ match_index'[s][f] =
           IF f = s \/ (f \in Contacted(s) /\ HasPrev(log[f], sent, prev(f)))
           THEN Len(sent) ELSE match_index[s][f]
      /\ next_index'[s][f] =
           IF f = s \/ (f \in Contacted(s) /\ HasPrev(log[f], sent, prev(f)))
           THEN Len(sent) + 1
           ELSE IF f \in Contacted(s) /\ prev(f) > 0 THEN prev(f) ELSE next_index[s][f]
  <2>1. match_index \in [Server -> [Server -> Nat]] /\ next_index \in [Server -> [Server -> Nat]]
    BY DEF LogInv, LogTypes
  <2>2. match_index'[s] = [g \in Server |->
          IF g \in {h \in Contacted(s) : HasPrev(log[h], sent, prev(h))} \cup {s}
          THEN Len(sent) ELSE match_index[s][g]]
    BY <2>1 DEF AppendCommand, Sent
  <2>3. next_index'[s] = [g \in Server |->
          IF g \in {h \in Contacted(s) : HasPrev(log[h], sent, prev(h))} \cup {s}
          THEN Len(sent) + 1
          ELSE IF g \in Contacted(s) /\ prev(g) > 0 THEN prev(g) ELSE next_index[s][g]]
    BY <2>1 DEF AppendCommand, Sent
  <2> HIDE DEF sent, prev
  <2> QED
    BY <2>2, <2>3
<1>5. HasPrev(log[f], sent, prev(f)) /\ f # s => Prefix(sent, log'[f])
  BY <1>2, CommandLogs
<1>6. prev(f) \in 0 .. Len(log[s]) /\ prev(f) + 1 = next_index[s][f]
  <2>1. next_index[s][f] - 1 \in 0 .. Len(log[s])
    BY CommandLogs
  <2>2. next_index[s][f] \in Nat
    BY DEF LogInv, LogTypes
  <2> QED
    BY <2>1, <2>2
<1>7. /\ match_index[s][f] <= Len(log[s]) /\ match_index[s][f] <= Len(log[f])
      /\ \A i \in 1 .. match_index[s][f] : log[f][i] = log[s][i]
      /\ match_index[s][f] > 0 => next_index[s][f] = match_index[s][f] + 1
      /\ match_index[s][f] \in Nat
  BY <1>2 DEF LogInv, Matched, LogTypes
<1> HIDE DEF sent, prev
<1>8. CASE f = s
  BY <1>2, <1>3, <1>4, <1>8
<1>9. CASE f # s /\ HasPrev(log[f], sent, prev(f))
  <2>1. match_index'[s][f] = Len(sent) /\ next_index'[s][f] = Len(sent) + 1
    BY <1>2, <1>4, <1>9
  <2> QED
    BY <1>2, <1>3, <1>5, <1>9, <2>1 DEF Prefix
<1>10. CASE f # s /\ ~HasPrev(log[f], sent, prev(f))
  <2>1. match_index[s][f] = 0
    <3>1. ASSUME match_index[s][f] # 0 PROVE FALSE
      <4>1. prev(f) = match_index[s][f] /\ prev(f) \in 1 .. Len(log[s]) /\ prev(f) <= Len(log[f])
        BY <1>3, <1>6, <1>7, <3>1
      <4>2. prev(f) \in 1 .. match_index[s][f]
        BY <1>7, <4>1
      <4>3. log[f][prev(f)] = log[s][prev(f)] /\ sent[prev(f)] = log[s][prev(f)]
        BY <1>3, <1>7, <4>1, <4>2
      <4> QED
        BY <1>10, <4>1, <4>3 DEF HasPrev
    <3> QED
      BY <3>1
  <2>2. prev(f) > 0
    BY <1>10 DEF HasPrev
  <2>3. match_index'[s][f] = 0 /\ next_index'[s][f] = prev(f)
    BY <1>2, <1>4, <1>10, <2>1, <2>2
  <2> QED
    BY <1>2, <1>3, <1>6, <2>2, <2>3
<1> QED
  BY <1>8, <1>9, <1>10

\* A command commits only what is on a majority, and lowers no commit_index.
LEMMA CommandKeepsCommits ==
  ASSUME LogInv, NEW s \in Server, NEW cmd \in Command, AppendCommand(s, cmd)
  PROVE  CommitStable' /\ commit_index' \in [Server -> Nat]
         /\ \A f \in Server : commit_index'[f] >= commit_index[f]
<1> DEFINE sent == Sent(s, cmd)
           prev(f) == next_index[s][f] - 1
<1>1. commit_index \in [Server -> Nat]
  BY DEF LogInv, LogTypes
<1>2. \A f \in Server : commit_index[f] > 0 =>
        \E u \in Nat : Has(f, commit_index[f], u) /\ Stable(commit_index[f], u)
  BY DEF LogInv, CommitStable
<1>3. /\ sent \in Seq(NatEntry) /\ Len(sent) = Len(log[s]) + 1 /\ Len(log[s]) \in Nat
      /\ \A k \in 1 .. Len(log[s]) : sent[k] = log[s][k]
      /\ state[s] = "LEADER" /\ log'[s] = sent
  BY SentIs, CommandLogs DEF AppendCommand
<1>4. commit_index[s] <= Len(log[s])
  BY <1>1, <1>2, <1>3 DEF Has
<1>5. ASSUME NEW f \in Server
      PROVE  \/ commit_index'[f] = commit_index[f]
             \/ /\ commit_index'[f] = commit_index[s] /\ commit_index[s] > commit_index[f]
                /\ Prefix(sent, log'[f])
  <2>1. commit_index'[f] =
          IF /\ f \in Contacted(s) /\ HasPrev(log[f], sent, prev(f))
             /\ commit_index[s] > commit_index[f]
          THEN Smaller(commit_index[s], Len(Replicated(log[f], sent, prev(f))))
          ELSE commit_index[f]
    BY DEF AppendCommand, Sent
  <2>2. CASE /\ f \in Contacted(s) /\ HasPrev(log[f], sent, prev(f))
             /\ commit_index[s] > commit_index[f]
    <3>1. log'[f] = Replicated(log[f], sent, prev(f))
      BY <2>2 DEF AppendCommand, Sent, Contacted
    <3>2. Prefix(sent, log'[f])
      BY <2>2, CommandLogs
    <3>3. Len(log'[f]) \in Nat /\ Len(sent) <= Len(log'[f])
      <4>1. log'[f] \in Seq(NatEntry)
        BY CommandLogs
      <4> QED
        BY <3>2, <4>1 DEF Prefix
    <3>4. Smaller(commit_index[s], Len(log'[f])) = commit_index[s]
      <4> HIDE DEF sent
      <4> QED
        BY <1>1, <1>3, <1>4, <3>3 DEF Smaller
    <3> QED
      BY <2>1, <2>2, <3>1, <3>2, <3>4
  <2> HIDE DEF sent, prev
  <2> QED
    BY <2>1, <2>2
<1>6. commit_index' \in [Server -> Nat]
  <2>1. \A f \in Server : commit_index'[f] \in Nat
    BY <1>1, <1>5
  <2> QED
    BY <2>1 DEF AppendCommand
<1>7. \A f \in Server : commit_index'[f] >= commit_index[f]
  <2> HIDE DEF sent
  <2> QED
    BY <1>1, <1>5
<1>8. ASSUME NEW f \in Server, commit_index'[f] > 0
      PROVE  \E u \in Nat : Has(f, commit_index[f], u)' /\ Stable(commit_index[f], u)'
  <2>1. PICK g \in Server : /\ commit_index'[f] = commit_index[g]
                            /\ g = f \/ (g = s /\ Prefix(sent, log'[f]))
    BY <1>5
  <2>2. PICK n \in Nat : n = commit_index[g] /\ n > 0
    BY <1>1, <1>8, <2>1
  <2>3. PICK u \in Nat : Has(g, n, u) /\ Stable(n, u)
    BY <1>2, <2>2
  <2>4. Stable(n, u)'
    BY <2>3, CommandKeepsStable
  <2>5. Has(f, n, u)'
    <3>1. CASE g = f
      <4>1. Has(s, n, u)
        BY <1>3, <2>3, LeaderHasStable
      <4> QED
        BY <2>3, <3>1, <4>1, CommandKeepsHas
    <3>2. CASE g = s /\ Prefix(sent, log'[f])
      <4>1. n \in 1 .. Len(log[s]) /\ log[s][n].term = u
        BY <2>3, <3>2 DEF Has
      <4>2. log'[f] \in Seq(NatEntry)
        BY CommandLogs
      <4>3. n \in 1 .. Len(sent) /\ sent[n] = log[s][n]
        BY <1>3, <4>1
      <4> HIDE DEF sent
      <4>4. n \in 1 .. Len(log'[f]) /\ log'[f][n] = sent[n]
        BY <1>3, <3>2, <4>2, <4>3 DEF Prefix
      <4> QED
        BY <4>1, <4>3, <4>4 DEF Has
    <3> QED
      BY <2>1, <3>1, <3>2
  <2>6. n = commit_index'[f]
    BY <2>1, <2>2
  <2>7. Has(f, commit_index[f], u)'
    BY <2>5, <2>6 DEF Has
  <2>8. Stable(commit_index[f], u)'
    BY <2>4, <2>6 DEF Has, Stable
  <2> QED
    BY <2>3, <2>7, <2>8
<1> QED
  BY <1>6, <1>7, <1>8 DEF CommitStable

\* A command keeps the whole log invariant: the four lemmas above together.
LEMMA CommandKeepsLogs ==
  ASSUME LogInv, NEW s \in Server, NEW cmd \in Command, AppendCommand(s, cmd)
  PROVE  LogInv'
<1>1. Inv'
  BY AppendKeepsInv DEF LogInv
<1>2. LogTypes'
  <2>1. log' \in [Server -> Seq(NatEntry)]
    <3>1. \A f \in Server : log'[f] \in Seq(NatEntry)
      BY CommandLogs
    <3> QED
      BY <3>1 DEF AppendCommand
  <2>2. Len(Sent(s, cmd)) \in Nat
    BY SentIs
  <2>3. match_index' \in [Server -> [Server -> Nat]]
    BY <2>2 DEF AppendCommand, Sent, LogInv, LogTypes
  <2>4. next_index' \in [Server -> [Server -> Nat]]
    <3>1. \A f \in Server : next_index[s][f] - 1 \in Nat
      BY CommandLogs, SentIs
    <3>2. next_index \in [Server -> [Server -> Nat]]
      BY DEF LogInv, LogTypes
    <3>3. \A f \in Server : next_index'[s][f] \in Nat
      <4> TAKE f \in Server
      <4>1. \/ next_index'[s][f] = Len(Sent(s, cmd)) + 1
            \/ next_index'[s][f] = next_index[s][f] - 1
            \/ next_index'[s][f] = next_index[s][f]
        BY <3>2 DEF AppendCommand, Sent
      <4>2. next_index[s][f] \in Nat
        BY <3>2
      <4> QED
        BY <2>2, <3>1, <4>1, <4>2
    <3>4. \E g : next_index' = [next_index EXCEPT ![s] = [f \in Server |-> g[f]]]
      <4> DEFINE g == [f \in Server |->
            IF f \in {h \in Contacted(s) : HasPrev(log[h], Sent(s, cmd), next_index[s][h] - 1)} \cup {s}
            THEN Len(Sent(s, cmd)) + 1
            ELSE IF f \in Contacted(s) /\ next_index[s][f] - 1 > 0 THEN next_index[s][f] - 1
                 ELSE next_index[s][f]]
      <4>1. next_index' = [next_index EXCEPT ![s] = g]
        BY DEF AppendCommand, Sent
      <4>2. g = [f \in Server |-> g[f]]
        OBVIOUS
      <4> HIDE DEF g
      <4>3. next_index' = [next_index EXCEPT ![s] = [f \in Server |-> g[f]]]
        BY <4>1, <4>2
      <4> QED
        BY <4>3
    <3>5. PICK g : next_index' = [next_index EXCEPT ![s] = [f \in Server |-> g[f]]]
      BY <3>4
    <3>6. \A f \in Server : g[f] \in Nat
      BY <3>2, <3>3, <3>5
    <3> QED
      BY <3>2, <3>5, <3>6
  <2>5. commit_index' \in [Server -> Nat] /\ last_applied' \in [Server -> Nat]
    BY CommandKeepsCommits DEF AppendCommand, LogInv, LogTypes
  <2> QED
    BY <2>1, <2>3, <2>4, <2>5 DEF LogTypes
<1>3. CandidateFresh'
  <2> SUFFICES ASSUME NEW c \in Server, state'[c] = "CANDIDATE"
               PROVE  <<c, current_term'[c]>> \notin elected
    BY DEF CandidateFresh, AppendCommand
  <2>1. state[c] = "CANDIDATE" /\ current_term'[c] = current_term[c]
    BY DEF AppendCommand
  <2> QED
    BY <2>1 DEF LogInv, CandidateFresh
<1>4. AppliedCommitted'
  <2>1. \A f \in Server : /\ last_applied'[f] = last_applied[f] /\ last_applied[f] \in Nat
                          /\ commit_index[f] \in Nat /\ commit_index'[f] \in Nat
    BY CommandKeepsCommits DEF AppendCommand, LogInv, LogTypes
  <2> QED
    BY <2>1, CommandKeepsCommits DEF LogInv, AppliedCommitted
<1> QED
  BY <1>1, <1>2, <1>3, <1>4, CommandKeepsTerms, CommandKeepsMatched, CommandKeepsCommits
     DEF LogInv

\* What the leader knows on a majority, of its own term, is stable: nobody has an entry
\* of a higher term.
LEMMA AdvanceKeepsLogs ==
  ASSUME LogInv, NEW s \in Server, AdvanceCommit(s)
  PROVE  LogInv'
<1>1. state[s] = "LEADER"
  BY DEF AdvanceCommit
<1>2. PICK n \in Committable(s) : commit_index' = [commit_index EXCEPT ![s] = n]
  BY DEF AdvanceCommit
<1>3. /\ n \in commit_index[s] + 1 .. Len(log[s]) /\ log[s][n].term = current_term[s]
      /\ Majority({t \in Server : match_index[s][t] >= n})
  BY DEF Committable
<1>4. /\ commit_index \in [Server -> Nat] /\ Len(log[s]) \in Nat
      /\ match_index \in [Server -> [Server -> Nat]] /\ current_term \in [Server -> Nat]
  BY LogValues DEF LogInv, LogTypes, Inv, Typed
<1>5. n \in Nat /\ n > commit_index[s] /\ n \in 1 .. Len(log[s])
  BY <1>3, <1>4
<1> DEFINE u == current_term[s]
<1>6. u \in Nat /\ Has(s, n, u)
  BY <1>3, <1>4, <1>5 DEF Has
<1>7. Stable(n, u)
  <2>1. \A t \in Server : match_index[s][t] >= n => Has(t, n, u)
    <3> SUFFICES ASSUME NEW t \in Server, match_index[s][t] >= n PROVE Has(t, n, u)
      OBVIOUS
    <3>1. /\ match_index[s][t] <= Len(log[t]) /\ match_index[s][t] \in Nat
          /\ \A i \in 1 .. match_index[s][t] : log[t][i] = log[s][i]
      BY <1>1, <1>4 DEF LogInv, Matched
    <3>2. n \in 1 .. match_index[s][t] /\ Len(log[t]) \in Nat
      BY <1>5, <3>1, LogValues DEF LogInv
    <3>3. n \in 1 .. Len(log[t]) /\ log[t][n] = log[s][n]
      BY <3>1, <3>2
    <3> QED
      BY <1>3, <3>3 DEF Has
  <2>2. Majority({t \in Server : Has(t, n, u)})
    BY <1>3, <2>1, MajorityGrows
  <2>3. \A t \in Server : \A j \in 1 .. Len(log[t]) : ~(log[t][j].term > u)
    <3> SUFFICES ASSUME NEW t \in Server, NEW j \in 1 .. Len(log[t])
                 PROVE  ~(log[t][j].term > u)
      OBVIOUS
    <3>1. log[t][j].term <= u /\ log[t][j].term \in Nat
      BY EntriesBehind, LogValues DEF LogInv
    <3> QED
      BY <1>6, <3>1
  <2>4. \A t \in Server : state[t] = "LEADER" => t = s
    BY <1>1, OneLeader DEF LogInv
  <2> QED
    BY <1>6, <2>2, <2>3, <2>4 DEF Stable
<1> HIDE DEF u
<1>8. UNCHANGED <<state, current_term, voted_for, log, last_applied, next_index,
                  match_index, elected>>
  BY DEF AdvanceCommit
<1>9. /\ commit_index'[s] = n /\ commit_index' \in [Server -> Nat]
      /\ \A t \in Server : t # s => commit_index'[t] = commit_index[t]
  BY <1>2, <1>4, <1>5
<1>10. CommitStable'
  <2> SUFFICES ASSUME NEW t \in Server, commit_index'[t] > 0
               PROVE  \E w \in Nat : Has(t, commit_index[t], w)' /\ Stable(commit_index[t], w)'
    BY DEF CommitStable
  <2>1. PICK m \in Nat : m = commit_index'[t]
    BY <1>9
  <2>2. \E w \in Nat : Has(t, m, w) /\ Stable(m, w)
    BY <1>6, <1>7, <1>9, <2>1 DEF LogInv, CommitStable
  <2>3. PICK w \in Nat : Has(t, m, w) /\ Stable(m, w)
    BY <2>2
  <2>4. Has(t, m, w)' /\ Stable(m, w)'
    BY <1>8, <2>3 DEF Has, Stable, Majority
  <2> QED
    BY <2>1, <2>4 DEF Has, Stable
<1>11. AppliedCommitted'
  <2> SUFFICES ASSUME NEW t \in Server PROVE last_applied[t] <= commit_index'[t]
    BY <1>8 DEF AppliedCommitted
  <2>1. /\ last_applied[t] <= commit_index[t] /\ last_applied[t] \in Nat
        /\ commit_index[t] \in Nat
    BY DEF LogInv, LogTypes, AppliedCommitted
  <2> QED
    BY <1>5, <1>9, <2>1
<1>12. Inv'
  BY StepKeepsInv DEF LogInv, Next
<1> QED
  BY <1>8, <1>9, <1>10, <1>11, <1>12
     DEF LogInv, LogTypes, TermsSorted, EntriesElected, LogsCompatible, LeaderHasOwn,
         CandidateFresh, Matched, Has

\* A step that moves neither log, term nor role keeps the log invariant.
LEMMA QuietKeepsLogs ==
  ASSUME LogInv, Inv', LogTypes', AppliedCommitted',
         UNCHANGED <<state, current_term, log, commit_index, next_index, match_index, elected>>
  PROVE  LogInv'
<1>1. TermsSorted' /\ EntriesElected' /\ LogsCompatible' /\ CandidateFresh'
  BY DEF LogInv, TermsSorted, EntriesElected, LogsCompatible, CandidateFresh
<1>2. LeaderHasOwn' /\ Matched'
  BY DEF LogInv, LeaderHasOwn, Matched, Has
<1>3. CommitStable'
  BY DEF LogInv, CommitStable, Has, Stable, Majority
<1> QED
  BY <1>1, <1>2, <1>3 DEF LogInv

\* The log invariant is inductive: one action at a time.
LEMMA StepKeepsLogs == LogInv /\ [Next]_vars => LogInv'
<1> SUFFICES ASSUME LogInv, [Next]_vars PROVE LogInv'
  OBVIOUS
<1>1. Inv'
  BY StepKeepsInv DEF LogInv
<1>2. ASSUME NEW s \in Server, ApplyCommitted(s) PROVE LogInv'
  <2>1. LogTypes' /\ AppliedCommitted'
    BY <1>2 DEF ApplyCommitted, LogInv, LogTypes, AppliedCommitted
  <2> QED
    BY <1>1, <1>2, <2>1, QuietKeepsLogs DEF ApplyCommitted
<1>3. CASE UNCHANGED vars
  BY <1>1, <1>3, QuietKeepsLogs DEF vars, LogInv, LogTypes, AppliedCommitted
<1> QED
  BY <1>2, <1>3, TimeoutKeepsLogs, ElectionKeepsLogs, CommandKeepsLogs, AdvanceKeepsLogs
     DEF Next

\* The log invariant holds when the cluster is created.
LEMMA InitHasLogInv == Init => LogInv
<1> SUFFICES ASSUME Init PROVE LogInv
  OBVIOUS
<1>1. Inv
  BY InitHasInv
<1>2. LogTypes
  BY DEF Init, LogTypes
<1>3. \A s \in Server : log[s] = <<>> /\ Len(log[s]) = 0
  BY DEF Init
<1>4. TermsSorted /\ EntriesElected /\ LogsCompatible
  BY <1>3 DEF TermsSorted, EntriesElected, LogsCompatible, Compatible
<1>5. LeaderHasOwn /\ CandidateFresh /\ Matched /\ CommitStable /\ AppliedCommitted
  BY DEF Init, LeaderHasOwn, CandidateFresh, Matched, CommitStable, AppliedCommitted
<1> QED
  BY <1>1, <1>2, <1>4, <1>5 DEF LogInv

\* Logs with an entry of the same term at an index are the same up to it.
LEMMA SharedPrefix ==
  ASSUME LogInv, NEW s \in Server, NEW t \in Server, NEW n \in Nat, NEW u,
         Has(s, n, u), Has(t, n, u), NEW i \in Nat, 1 <= i, i <= n
  PROVE  log[s][i] = log[t][i]
<1>1. Len(log[s]) \in Nat /\ Len(log[t]) \in Nat
  BY LogValues DEF LogInv
<1>2. 1 <= n /\ n <= n /\ n <= Len(log[s]) /\ n <= Len(log[t]) /\ log[s][n].term = log[t][n].term
  BY <1>1 DEF Has
<1>3. Compatible(log[s], log[t])
  BY DEF LogInv, LogsCompatible
<1>4. \A k \in 1 .. n : log[s][k] = log[t][k]
  BY <1>2, <1>3 DEF Compatible
<1> QED
  BY <1>4

\* Two servers' logs are the same as far as both have committed.
LEMMA CommittedAgree ==
  ASSUME LogInv, NEW s \in Server, NEW t \in Server,
         NEW i \in Nat, 1 <= i, i <= commit_index[s], i <= commit_index[t]
  PROVE  i <= Len(log[s]) /\ i <= Len(log[t]) /\ log[s][i] = log[t][i]
<1>1. commit_index[s] \in Nat /\ commit_index[t] \in Nat
  BY DEF LogInv, LogTypes
<1>2. PICK m \in Nat, u \in Nat : m = commit_index[s] /\ Has(s, m, u) /\ Stable(m, u)
  BY <1>1 DEF LogInv, CommitStable
<1>3. PICK n \in Nat, w \in Nat : n = commit_index[t] /\ Has(t, n, w) /\ Stable(n, w)
  BY <1>1 DEF LogInv, CommitStable
<1>4. PICK r \in Server : Has(r, m, u) /\ Has(r, n, w)
  <2>1. Majority({q \in Server : Has(q, m, u)}) /\ Majority({q \in Server : Has(q, n, w)})
    BY <1>2, <1>3 DEF Stable
  <2>2. \E p \in {q \in Server : Has(q, m, u)} : p \in {q \in Server : Has(q, n, w)}
    BY <2>1, MajoritiesMeet
  <2> QED
    BY <2>2
<1>5. \A q \in Server : Len(log[q]) \in Nat
  BY LogValues DEF LogInv
<1>6. log[s][i] = log[r][i]
  BY <1>2, <1>4, SharedPrefix
<1>7. log[t][i] = log[r][i]
  BY <1>3, <1>4, SharedPrefix
<1>8. i <= Len(log[s]) /\ i <= Len(log[t])
  BY <1>2, <1>3, <1>5 DEF Has
<1> QED
  BY <1>6, <1>7, <1>8

\* What a leader regards as committed is in its log and in a majority's
\* (raft_verify_leader_completeness), and what servers have applied is in their logs and
\* the same everywhere (raft_verify_state_machine_safety): for any number of servers,
\* terms, commands and entries.
THEOREM LogsSurviveAll == Spec => []LogsSurvive
<1>1. ASSUME LogInv PROVE LeaderCompleteness
  <2> SUFFICES ASSUME NEW s \in Server, state[s] = "LEADER", NEW i \in 1 .. commit_index[s]
               PROVE  /\ i <= Len(log[s])
                      /\ Majority({t \in Server : i <= Len(log[t]) /\ log[t][i].term = log[s][i].term})
    BY DEF LeaderCompleteness
  <2>1. commit_index[s] \in Nat /\ i \in Nat
    BY <1>1 DEF LogInv, LogTypes
  <2>2. PICK n \in Nat, u \in Nat : n = commit_index[s] /\ Has(s, n, u) /\ Stable(n, u)
    BY <1>1, <2>1 DEF LogInv, CommitStable
  <2>3. \A t \in Server : Len(log[t]) \in Nat
    BY <1>1, LogValues DEF LogInv
  <2>4. i <= Len(log[s])
    BY <1>1, <2>1, CommittedAgree
  <2>5. ASSUME NEW t \in Server, Has(t, n, u)
        PROVE  i <= Len(log[t]) /\ log[t][i].term = log[s][i].term
    <3>1. n <= Len(log[t])
      BY <2>3, <2>5 DEF Has
    <3>2. log[t][i] = log[s][i]
      BY <1>1, <2>1, <2>2, <2>5, SharedPrefix
    <3> QED
      BY <2>1, <2>2, <2>3, <3>1, <3>2
  <2>6. Majority({t \in Server : i <= Len(log[t]) /\ log[t][i].term = log[s][i].term})
    <3>1. Majority({t \in Server : Has(t, n, u)})
      BY <2>2 DEF Stable
    <3> QED
      BY <2>5, <3>1, MajorityGrows
  <2> QED
    BY <2>4, <2>6
<1>2. ASSUME LogInv PROVE StateMachineSafety
  <2> SUFFICES ASSUME NEW s \in Server
               PROVE  /\ last_applied[s] <= Len(log[s])
                      /\ \A t \in Server : \A i \in 1 .. Smaller(last_applied[s], last_applied[t]) :
                           log[s][i] = log[t][i]
    BY DEF StateMachineSafety
  <2>1. \A t \in Server : /\ last_applied[t] \in Nat /\ commit_index[t] \in Nat
                          /\ last_applied[t] <= commit_index[t] /\ Len(log[t]) \in Nat
    BY <1>2, LogValues DEF LogInv, LogTypes, AppliedCommitted
  <2>2. last_applied[s] <= Len(log[s])
    <3>1. CASE last_applied[s] = 0
      BY <2>1, <3>1
    <3>2. CASE last_applied[s] > 0
      <4>1. 1 <= last_applied[s] /\ last_applied[s] <= commit_index[s] /\ last_applied[s] \in Nat
        BY <2>1, <3>2
      <4> QED
        BY <1>2, <4>1, CommittedAgree
    <3> QED
      BY <2>1, <3>1, <3>2
  <2>3. ASSUME NEW t \in Server, NEW i \in 1 .. Smaller(last_applied[s], last_applied[t])
        PROVE  log[s][i] = log[t][i]
    <3>1. i \in Nat /\ 1 <= i /\ i <= commit_index[s] /\ i <= commit_index[t]
      BY <2>1 DEF Smaller
    <3> QED
      BY <1>2, <3>1, CommittedAgree
  <2> QED
    BY <2>2, <2>3
<1> QED
  BY <1>1, <1>2, InitHasLogInv, StepKeepsLogs, PTL DEF Spec, LogsSurvive
================================================================================
