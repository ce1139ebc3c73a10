----------------------------- MODULE RaftProofs -----------------------------
(***************************************************************************)
(* Raft elects at most one leader per term, for any number of servers and  *)
(* any network that loses, repeats, delays and reorders messages.          *)
(***************************************************************************)
EXTENDS RaftRpc, FiniteSetTheorems, SequenceTheorems, WellFoundedInduction, TLAPS

Granted(m) == m.type = "Vote" /\ m.granted

VoteTypes ==
  /\ current_term \in [Server -> Nat]
  /\ state \in [Server -> {"FOLLOWER", "CANDIDATE", "LEADER"}]
  /\ voted_for \in [Server -> Server \cup {None}]
  /\ votes \in [Server -> SUBSET Server]
  /\ \A m \in msgs : m.from \in Server /\ m.term \in Nat
  /\ \A m \in msgs : m.type = "Vote" => m.to \in Server

\* A server's granted vote is known to the server itself until its term passes.
VotesRemembered ==
  /\ \A m \in msgs : Granted(m) =>
       /\ m.term <= current_term[m.from]
       /\ m.term = current_term[m.from] => voted_for[m.from] = m.to
  /\ \A s, v \in Server : state[s] # "FOLLOWER" /\ v \in votes[s] =>
       /\ current_term[s] <= current_term[v]
       /\ current_term[s] = current_term[v] => voted_for[v] = s

\* One server, one term, one candidate: in the network, in the counts, and
\* between the two.
OneVotePerTerm ==
  /\ \A m, n \in msgs :
       /\ Granted(m) /\ Granted(n)
       /\ m.from = n.from /\ m.term = n.term
       => m.to = n.to
  /\ \A m \in msgs, s \in Server :
       /\ Granted(m) /\ state[s] # "FOLLOWER"
       /\ m.from \in votes[s] /\ m.term = current_term[s]
       => m.to = s
  /\ \A s, t, v \in Server :
       /\ state[s] # "FOLLOWER" /\ state[t] # "FOLLOWER"
       /\ current_term[s] = current_term[t] /\ v \in votes[s] /\ v \in votes[t]
       => s = t

LeadersElected == \A s \in Server : state[s] = "LEADER" => Majority(votes[s])

IInv == VoteTypes /\ VotesRemembered /\ OneVotePerTerm /\ LeadersElected

\* Two majorities of a finite set share a member.
LEMMA MajoritiesIntersect ==
  ASSUME NEW A \in SUBSET Server, NEW B \in SUBSET Server,
         Majority(A), Majority(B)
  PROVE  \E v \in A : v \in B
<1> SUFFICES ASSUME A \cap B = {} PROVE FALSE
  OBVIOUS
<1>1. IsFiniteSet(Server) /\ IsFiniteSet(A) /\ IsFiniteSet(B)
  BY RaftConstants, FS_Subset
<1>2. Cardinality(A \cup B) = Cardinality(A) + Cardinality(B)
  <2>1. Cardinality(A \cup B)
          = Cardinality(A) + Cardinality(B) - Cardinality(A \cap B)
    BY <1>1, FS_Union
  <2>2. Cardinality(A \cap B) = 0
    BY FS_EmptySet
  <2>3. Cardinality(A) \in Nat /\ Cardinality(B) \in Nat
    BY <1>1, FS_CardinalityType
  <2> QED
    BY <2>1, <2>2, <2>3
<1>3. Cardinality(A \cup B) <= Cardinality(Server)
  <2>1. A \cup B \subseteq Server
    OBVIOUS
  <2> QED
    BY <1>1, <2>1, FS_Subset
<1>4. /\ Cardinality(A) \in Nat /\ Cardinality(B) \in Nat
      /\ Cardinality(Server) \in Nat
  BY <1>1, FS_CardinalityType
<1> QED
  BY <1>2, <1>3, <1>4 DEF Majority

\* Losing a message, stepping down, adopting a higher term, replicating: a step
\* that grants and counts no vote keeps the invariant.
LEMMA QuietStep ==
  ASSUME IInv, VoteTypes', votes' = votes,
         \A m \in msgs' : Granted(m) => m \in msgs,
         \A s \in Server :
           /\ current_term[s] <= current_term'[s]
           /\ current_term'[s] = current_term[s] => voted_for'[s] = voted_for[s]
           /\ state'[s] # "FOLLOWER" =>
                state'[s] = state[s] /\ current_term'[s] = current_term[s]
  PROVE  IInv'
<1>1. VotesRemembered'
  <2>1. ASSUME NEW m \in msgs', Granted(m)
        PROVE  /\ m.term <= current_term'[m.from]
               /\ m.term = current_term'[m.from] => voted_for'[m.from] = m.to
    <3>1. m \in msgs /\ m.from \in Server /\ m.term \in Nat
      BY <2>1 DEF IInv, VoteTypes
    <3>2. /\ m.term <= current_term[m.from]
          /\ m.term = current_term[m.from] => voted_for[m.from] = m.to
      BY <2>1, <3>1 DEF IInv, VotesRemembered
    <3>3. current_term[m.from] \in Nat /\ current_term'[m.from] \in Nat
      BY <3>1 DEF IInv, VoteTypes
    <3> QED
      BY <3>1, <3>2, <3>3
  <2>2. ASSUME NEW s \in Server, NEW v \in Server, state'[s] # "FOLLOWER", v \in votes'[s]
        PROVE  /\ current_term'[s] <= current_term'[v]
               /\ current_term'[s] = current_term'[v] => voted_for'[v] = s
    <3>1. /\ current_term[s] <= current_term[v]
          /\ current_term[s] = current_term[v] => voted_for[v] = s
      BY <2>2 DEF IInv, VotesRemembered
    <3>2. /\ current_term[s] \in Nat /\ current_term[v] \in Nat
          /\ current_term'[v] \in Nat
      BY DEF IInv, VoteTypes
    <3> QED
      BY <2>2, <3>1, <3>2
  <2> QED
    BY <2>1, <2>2 DEF VotesRemembered, Granted
<1>2. OneVotePerTerm'
  <2>1. \A m, n \in msgs' :
          Granted(m) /\ Granted(n) /\ m.from = n.from /\ m.term = n.term => m.to = n.to
    BY DEF IInv, OneVotePerTerm
  <2>2. \A m \in msgs', s \in Server :
          /\ Granted(m) /\ state'[s] # "FOLLOWER"
          /\ m.from \in votes'[s] /\ m.term = current_term'[s]
          => m.to = s
    BY DEF IInv, OneVotePerTerm
  <2>3. \A s, t, v \in Server :
          /\ state'[s] # "FOLLOWER" /\ state'[t] # "FOLLOWER"
          /\ current_term'[s] = current_term'[t] /\ v \in votes'[s] /\ v \in votes'[t]
          => s = t
    BY DEF IInv, OneVotePerTerm
  <2> QED
    BY <2>1, <2>2, <2>3 DEF OneVotePerTerm, Granted
<1>3. LeadersElected'
  BY DEF IInv, LeadersElected, Majority
<1> QED
  BY <1>1, <1>2, <1>3 DEF IInv

\* A new candidate opens a term no vote of its own was ever cast in.
LEMMA TimeoutKeepsInv ==
  ASSUME IInv, NEW c \in Server, ElectionTimeout(c)
  PROVE  IInv'
<1> USE DEF IInv
<1>1. VoteTypes'
  <2>1. current_term[c] + 1 \in Nat
    BY DEF VoteTypes
  <2>2. \A m \in msgs' :
          \/ m \in msgs
          \/ m.type = "RequestVote" /\ m.from = c /\ m.term = current_term'[c]
    <3> DEFINE request == [type |-> "RequestVote", from |-> c, term |-> current_term'[c],
                           last_log_index |-> Len(log[c]), last_log_term |-> LastTerm(log[c])]
    <3>1. msgs' = msgs \cup {request}
      BY DEF ElectionTimeout, Send
    <3>2. request.type = "RequestVote" /\ request.from = c /\ request.term = current_term'[c]
      OBVIOUS
    <3> HIDE DEF request
    <3> QED
      BY <3>1, <3>2
  <2>3. /\ current_term' \in [Server -> Nat]
        /\ state' \in [Server -> {"FOLLOWER", "CANDIDATE", "LEADER"}]
        /\ voted_for' \in [Server -> Server \cup {None}]
        /\ votes' \in [Server -> SUBSET Server]
        /\ current_term'[c] = current_term[c] + 1
    BY <2>1 DEF VoteTypes, ElectionTimeout
  <2> QED
    BY <2>1, <2>2, <2>3 DEF VoteTypes
<1>2. \A m \in msgs' : Granted(m) => m \in msgs
  BY DEF ElectionTimeout, Send, Granted
<1>3. /\ current_term'[c] = current_term[c] + 1 /\ voted_for'[c] = c /\ votes'[c] = {c}
      /\ \A s \in Server \ {c} :
           /\ current_term'[s] = current_term[s] /\ voted_for'[s] = voted_for[s]
           /\ votes'[s] = votes[s] /\ state'[s] = state[s]
      /\ \A s \in Server : current_term[s] \in Nat
  BY DEF ElectionTimeout, VoteTypes
\* nobody holds a vote of c in its new term
<1>4. /\ \A m \in msgs : Granted(m) /\ m.from = c => m.term < current_term'[c]
      /\ \A s \in Server : state[s] # "FOLLOWER" /\ c \in votes[s]
           => current_term[s] < current_term'[c]
  <2>1. ASSUME NEW m \in msgs, Granted(m), m.from = c
        PROVE  m.term < current_term'[c]
    <3>1. m.term \in Nat /\ m.term <= current_term[c]
      BY <2>1 DEF VotesRemembered, VoteTypes
    <3> QED
      BY <3>1, <1>3
  <2>2. ASSUME NEW s \in Server, state[s] # "FOLLOWER", c \in votes[s]
        PROVE  current_term[s] < current_term'[c]
    <3>1. current_term[s] <= current_term[c]
      BY <2>2 DEF VotesRemembered
    <3> QED
      BY <3>1, <1>3
  <2> QED
    BY <2>1, <2>2
<1>5. VotesRemembered'
  <2>1. ASSUME NEW m \in msgs', Granted(m)
        PROVE  /\ m.term <= current_term'[m.from]
               /\ m.term = current_term'[m.from] => voted_for'[m.from] = m.to
    <3>1. m \in msgs /\ m.from \in Server /\ m.term \in Nat
      BY <1>2, <2>1 DEF VoteTypes
    <3>2. CASE m.from = c
      BY <3>1, <3>2, <2>1, <1>4, <1>3
    <3>3. CASE m.from # c
      BY <3>1, <3>3, <2>1, <1>3 DEF VotesRemembered
    <3> QED
      BY <3>2, <3>3
  <2>2. ASSUME NEW s \in Server, NEW v \in Server, state'[s] # "FOLLOWER", v \in votes'[s]
        PROVE  /\ current_term'[s] <= current_term'[v]
               /\ current_term'[s] = current_term'[v] => voted_for'[v] = s
    <3>1. CASE s = c
      BY <3>1, <2>2, <1>3
    <3>2. CASE s # c /\ v = c
      BY <3>2, <2>2, <1>3, <1>4
    <3>3. CASE s # c /\ v # c
      BY <3>3, <2>2, <1>3 DEF VotesRemembered
    <3> QED
      BY <3>1, <3>2, <3>3
  <2> QED
    BY <2>1, <2>2 DEF VotesRemembered, Granted
<1>6. OneVotePerTerm'
  <2>1. \A m, n \in msgs' :
          Granted(m) /\ Granted(n) /\ m.from = n.from /\ m.term = n.term => m.to = n.to
    BY <1>2 DEF OneVotePerTerm
  <2>2. ASSUME NEW m \in msgs', NEW s \in Server, Granted(m), state'[s] # "FOLLOWER",
               m.from \in votes'[s], m.term = current_term'[s]
        PROVE  m.to = s
    <3>1. s # c
      BY <1>2, <1>3, <1>4, <2>2
    <3> QED
      BY <3>1, <1>2, <1>3, <2>2 DEF OneVotePerTerm
  <2>3. ASSUME NEW s \in Server, NEW t \in Server, NEW v \in Server,
               state'[s] # "FOLLOWER", state'[t] # "FOLLOWER",
               current_term'[s] = current_term'[t], v \in votes'[s], v \in votes'[t]
        PROVE  s = t
    <3>1. CASE s # c /\ t # c
      BY <3>1, <1>3, <2>3 DEF OneVotePerTerm
    <3>2. CASE s = c /\ t # c
      BY <3>2, <1>3, <1>4, <2>3
    <3>3. CASE s # c /\ t = c
      BY <3>3, <1>3, <1>4, <2>3
    <3> QED
      BY <3>1, <3>2, <3>3
  <2> QED
    BY <2>1, <2>2, <2>3 DEF OneVotePerTerm, Granted
<1>7. LeadersElected'
  <2>1. state'[c] = "CANDIDATE"
    BY DEF ElectionTimeout, VoteTypes
  <2> QED
    BY <2>1, <1>3 DEF LeadersElected, Majority
<1> QED
  BY <1>1, <1>5, <1>6, <1>7

\* A voter grants only what it has not granted to another in that term.
LEMMA VoteKeepsInv ==
  ASSUME IInv, NEW s \in Server, NEW m \in msgs, HandleRequestVote(s, m)
  PROVE  IInv'
<1> USE DEF IInv
<1> DEFINE reply == [type |-> "Vote", from |-> s, to |-> m.from,
                     term |-> current_term'[s], granted |-> MayVote(s, m)]
<1>1. /\ m.from \in Server /\ m.term \in Nat /\ current_term[s] \in Nat
      /\ msgs' = msgs \cup {reply} /\ votes' = votes
  BY DEF VoteTypes, HandleRequestVote, Send
<1>2. /\ \A t \in Server \ {s} :
           /\ current_term'[t] = current_term[t] /\ voted_for'[t] = voted_for[t]
           /\ state'[t] = state[t]
      /\ current_term[s] <= current_term'[s] /\ current_term'[s] \in Nat
      /\ state'[s] # "FOLLOWER" => state'[s] = state[s] /\ current_term'[s] = current_term[s]
  BY <1>1 DEF VoteTypes, HandleRequestVote
<1>3. VoteTypes'
  <2>1. /\ current_term' \in [Server -> Nat]
        /\ state' \in [Server -> {"FOLLOWER", "CANDIDATE", "LEADER"}]
        /\ voted_for' \in [Server -> Server \cup {None}]
    BY <1>1 DEF VoteTypes, HandleRequestVote
  <2>2. \A n \in msgs' : n.from \in Server /\ n.term \in Nat /\ (n.type = "Vote" => n.to \in Server)
    BY <1>1, <1>2 DEF VoteTypes
  <2> QED
    BY <1>1, <2>1, <2>2 DEF VoteTypes
<1>4. CASE ~MayVote(s, m)
  <2>1. \A n \in msgs' : Granted(n) => n \in msgs
    BY <1>1, <1>4 DEF Granted
  <2>2. current_term'[s] = current_term[s] => voted_for'[s] = voted_for[s]
    BY <1>1, <1>4 DEF VoteTypes, HandleRequestVote
  <2>3. \A t \in Server :
          /\ current_term[t] <= current_term'[t]
          /\ current_term'[t] = current_term[t] => voted_for'[t] = voted_for[t]
          /\ state'[t] # "FOLLOWER" =>
               state'[t] = state[t] /\ current_term'[t] = current_term[t]
    BY <1>2, <2>2 DEF VoteTypes
  <2> QED
    BY <1>1, <1>3, <2>1, <2>3, QuietStep
<1>5. CASE MayVote(s, m)
  <2>1. /\ voted_for'[s] = m.from /\ m.from # s
        /\ current_term'[s] = m.term /\ m.term >= current_term[s]
        /\ m.term > current_term[s] \/ voted_for[s] \in {None, m.from}
    BY <1>1, <1>5 DEF VoteTypes, HandleRequestVote, MayVote
  \* whoever has a vote of s in this term is the candidate it votes for now
  <2>2. /\ \A n \in msgs : Granted(n) /\ n.from = s =>
             n.term <= current_term'[s] /\ (n.term = current_term'[s] => n.to = m.from)
        /\ \A t \in Server : state[t] # "FOLLOWER" /\ s \in votes[t] =>
             /\ current_term[t] <= current_term'[s]
             /\ current_term[t] = current_term'[s] => t = m.from
    <3>1. ASSUME NEW n \in msgs, Granted(n), n.from = s
          PROVE  n.term <= current_term'[s] /\ (n.term = current_term'[s] => n.to = m.from)
      <4>1. n.term \in Nat /\ n.to \in Server /\ n.to # None
        BY <3>1, RaftConstants DEF VoteTypes, Granted
      <4>2. n.term <= current_term[s] /\ (n.term = current_term[s] => voted_for[s] = n.to)
        BY <3>1 DEF VotesRemembered
      <4> QED
        BY <4>1, <4>2, <1>1, <2>1
    <3>2. ASSUME NEW t \in Server, state[t] # "FOLLOWER", s \in votes[t]
          PROVE  /\ current_term[t] <= current_term'[s]
                 /\ current_term[t] = current_term'[s] => t = m.from
      <4>1. current_term[t] \in Nat /\ t # None
        BY RaftConstants DEF VoteTypes
      <4>2. current_term[t] <= current_term[s] /\ (current_term[t] = current_term[s] => voted_for[s] = t)
        BY <3>2 DEF VotesRemembered
      <4> QED
        BY <4>1, <4>2, <1>1, <2>1
    <3> QED
      BY <3>1, <3>2
  <2>3. \A t \in Server : state'[t] # "FOLLOWER" =>
          state[t] # "FOLLOWER" /\ current_term'[t] = current_term[t]
    BY <1>2
  <2>4. VotesRemembered'
    <3>1. ASSUME NEW n \in msgs', Granted(n)
          PROVE  /\ n.term <= current_term'[n.from]
                 /\ n.term = current_term'[n.from] => voted_for'[n.from] = n.to
      <4>1. CASE n = reply
        BY <4>1, <1>2, <2>1
      <4>2. CASE n \in msgs /\ n.from = s
        BY <4>2, <3>1, <2>1, <2>2
      <4>3. CASE n \in msgs /\ n.from # s
        BY <4>3, <3>1, <1>2 DEF VotesRemembered, VoteTypes
      <4> QED
        BY <4>1, <4>2, <4>3, <1>1
    <3>2. ASSUME NEW t \in Server, NEW v \in Server, state'[t] # "FOLLOWER", v \in votes'[t]
          PROVE  /\ current_term'[t] <= current_term'[v]
                 /\ current_term'[t] = current_term'[v] => voted_for'[v] = t
      <4>1. CASE v = s
        BY <4>1, <3>2, <1>1, <2>1, <2>2, <2>3
      <4>2. CASE v # s
        BY <4>2, <3>2, <1>1, <1>2, <2>3 DEF VotesRemembered
      <4> QED
        BY <4>1, <4>2
    <3> QED
      BY <3>1, <3>2 DEF VotesRemembered, Granted
  <2>5. OneVotePerTerm'
    <3>1. ASSUME NEW n \in msgs', NEW o \in msgs', Granted(n), Granted(o),
                 n.from = o.from, n.term = o.term
          PROVE  n.to = o.to
      <4>1. CASE n \in msgs /\ o \in msgs
        BY <4>1, <3>1 DEF OneVotePerTerm
      <4>2. CASE n = reply /\ o \in msgs
        BY <4>2, <3>1, <2>2
      <4>3. CASE n \in msgs /\ o = reply
        BY <4>3, <3>1, <2>2
      <4> QED
        BY <4>1, <4>2, <4>3, <1>1
    <3>2. ASSUME NEW n \in msgs', NEW t \in Server, Granted(n), state'[t] # "FOLLOWER",
                 n.from \in votes'[t], n.term = current_term'[t]
          PROVE  n.to = t
      <4>1. CASE n \in msgs
        BY <4>1, <3>2, <1>1, <2>3 DEF OneVotePerTerm
      <4>2. CASE n = reply
        BY <4>2, <3>2, <1>1, <2>2, <2>3
      <4> QED
        BY <4>1, <4>2, <1>1
    <3>3. \A t, u, v \in Server :
            /\ state'[t] # "FOLLOWER" /\ state'[u] # "FOLLOWER"
            /\ current_term'[t] = current_term'[u] /\ v \in votes'[t] /\ v \in votes'[u]
            => t = u
      BY <1>1, <2>3 DEF OneVotePerTerm
    <3> QED
      BY <3>1, <3>2, <3>3 DEF OneVotePerTerm, Granted
  <2>6. LeadersElected'
    BY <1>1, <1>2 DEF LeadersElected, Majority
  <2> QED
    BY <1>3, <2>4, <2>5, <2>6
<1> QED
  BY <1>4, <1>5

\* The caller adds a granted vote of the current term to a candidate's count.
LEMMA CountKeepsInv ==
  ASSUME IInv, NEW s \in Server, NEW m \in msgs, HandleVote(s, m),
         Granted(m), state[s] = "CANDIDATE", m.term = current_term[s]
  PROVE  IInv'
<1> USE DEF IInv
<1>1. /\ votes' = [votes EXCEPT ![s] = @ \cup {m.from}]
      /\ UNCHANGED <<current_term, state, voted_for, msgs>>
      /\ m.to = s /\ m.from \in Server
  <2>1. current_term[s] \in Nat
    BY DEF VoteTypes
  <2> QED
    BY <2>1 DEF VoteTypes, HandleVote, AdoptTerm, Granted
<1>2. /\ votes' \in [Server -> SUBSET Server]
      /\ votes'[s] = votes[s] \cup {m.from}
      /\ \A t \in Server \ {s} : votes'[t] = votes[t]
  BY <1>1 DEF VoteTypes
<1>3. VoteTypes'
  BY <1>1, <1>2 DEF VoteTypes
<1>4. VotesRemembered'
  <2>1. \A n \in msgs' : Granted(n) =>
          /\ n.term <= current_term'[n.from]
          /\ n.term = current_term'[n.from] => voted_for'[n.from] = n.to
    BY <1>1 DEF VotesRemembered
  <2>2. ASSUME NEW t \in Server, NEW v \in Server, state'[t] # "FOLLOWER", v \in votes'[t]
        PROVE  /\ current_term'[t] <= current_term'[v]
               /\ current_term'[t] = current_term'[v] => voted_for'[v] = t
    <3>1. CASE v \in votes[t]
      BY <3>1, <2>2, <1>1 DEF VotesRemembered
    <3>2. CASE t = s /\ v = m.from
      BY <3>2, <1>1 DEF VotesRemembered
    <3> QED
      BY <3>1, <3>2, <2>2, <1>2
  <2> QED
    BY <2>1, <2>2 DEF VotesRemembered, Granted
<1>5. OneVotePerTerm'
  <2>1. \A n, o \in msgs' :
          Granted(n) /\ Granted(o) /\ n.from = o.from /\ n.term = o.term => n.to = o.to
    BY <1>1 DEF OneVotePerTerm
  <2>2. ASSUME NEW n \in msgs', NEW t \in Server, Granted(n), state'[t] # "FOLLOWER",
               n.from \in votes'[t], n.term = current_term'[t]
        PROVE  n.to = t
    <3>1. CASE n.from \in votes[t]
      BY <3>1, <2>2, <1>1 DEF OneVotePerTerm
    <3>2. CASE t = s /\ n.from = m.from
      BY <3>2, <2>2, <1>1 DEF OneVotePerTerm
    <3> QED
      BY <3>1, <3>2, <2>2, <1>2
  <2>3. ASSUME NEW t \in Server, NEW u \in Server, NEW v \in Server,
               state'[t] # "FOLLOWER", state'[u] # "FOLLOWER",
               current_term'[t] = current_term'[u], v \in votes'[t], v \in votes'[u]
        PROVE  t = u
    <3>1. CASE v \in votes[t] /\ v \in votes[u]
      BY <3>1, <2>3, <1>1 DEF OneVotePerTerm
    <3>2. CASE t = s /\ v = m.from /\ v \in votes[u]
      BY <3>2, <2>3, <1>1 DEF OneVotePerTerm
    <3>3. CASE u = s /\ v = m.from /\ v \in votes[t]
      BY <3>3, <2>3, <1>1 DEF OneVotePerTerm
    <3> QED
      BY <3>1, <3>2, <3>3, <2>3, <1>2
  <2> QED
    BY <2>1, <2>2, <2>3 DEF OneVotePerTerm, Granted
<1>6. LeadersElected'
  BY <1>1, <1>2 DEF LeadersElected, Majority
<1> QED
  BY <1>3, <1>4, <1>5, <1>6

\* Adopting a term never lowers one and leaves nobody but a follower behind it.
LEMMA AdoptIsQuiet ==
  ASSUME VoteTypes, NEW s \in Server, NEW t \in Nat, AdoptTerm(s, t)
  PROVE  /\ current_term' \in [Server -> Nat]
         /\ state' \in [Server -> {"FOLLOWER", "CANDIDATE", "LEADER"}]
         /\ voted_for' \in [Server -> Server \cup {None}]
         /\ \A r \in Server :
              /\ current_term[r] <= current_term'[r]
              /\ current_term'[r] = current_term[r] => voted_for'[r] = voted_for[r]
              /\ state'[r] # "FOLLOWER" =>
                   state'[r] = state[r] /\ current_term'[r] = current_term[r]
<1>1. \A r \in Server : current_term[r] \in Nat
  BY DEF VoteTypes
<1>2. CASE t > current_term[s]
  BY <1>1, <1>2 DEF VoteTypes, AdoptTerm
<1>3. CASE ~(t > current_term[s])
  BY <1>1, <1>3 DEF VoteTypes, AdoptTerm
<1> QED
  BY <1>2, <1>3

\* Every step keeps the invariant.
LEMMA StepKeepsInv ==
  IInv /\ [Next]_vars => IInv'
<1> SUFFICES ASSUME IInv, [Next]_vars PROVE IInv'
  OBVIOUS
<1>0. VoteTypes /\ \A r \in Server : current_term[r] \in Nat
  BY DEF IInv, VoteTypes
<1>1. ASSUME UNCHANGED electionVars, VoteTypes',
             \A m \in msgs' : Granted(m) => m \in msgs
      PROVE  IInv'
  BY <1>0, <1>1, QuietStep DEF electionVars
<1>2. ASSUME NEW m \in msgs, Lose(m)
      PROVE  IInv'
  BY <1>0, <1>1, <1>2 DEF Lose, electionVars, VoteTypes
<1>3. ASSUME NEW s \in Server, BecomeLeader(s)
      PROVE  IInv'
  <2>1. /\ \A t \in Server : state[t] # "FOLLOWER" <=> state'[t] # "FOLLOWER"
        /\ \A t \in Server \ {s} : state'[t] = state[t]
        /\ UNCHANGED <<current_term, voted_for, votes, msgs>>
        /\ VoteTypes'
    BY <1>0, <1>3 DEF BecomeLeader, VoteTypes
  <2>2. VotesRemembered' /\ OneVotePerTerm'
    BY <2>1 DEF IInv, VotesRemembered, OneVotePerTerm, Granted
  <2>3. LeadersElected'
    BY <2>1, <1>3 DEF IInv, LeadersElected, BecomeLeader, Majority
  <2> QED
    BY <2>1, <2>2, <2>3 DEF IInv
<1>4. ASSUME NEW s \in Server, NEW m \in msgs, HandleVote(s, m)
      PROVE  IInv'
  <2>1. CASE m.granted /\ state[s] = "CANDIDATE" /\ m.term = current_term[s]
    BY <2>1, <1>4, CountKeepsInv DEF HandleVote, Granted
  <2>2. CASE ~(m.granted /\ state[s] = "CANDIDATE" /\ m.term = current_term[s])
    <3>1. votes' = votes /\ msgs' = msgs /\ AdoptTerm(s, m.term) /\ m.term \in Nat
      BY <2>2, <1>0, <1>4 DEF HandleVote, VoteTypes
    <3>2. VoteTypes'
      BY <3>1, <1>0, AdoptIsQuiet DEF VoteTypes
    <3> QED
      BY <3>1, <3>2, <1>0, AdoptIsQuiet, QuietStep
  <2> QED
    BY <2>1, <2>2
<1>5. ASSUME NEW s \in Server, NEW m \in msgs, HandleAppendEntries(s, m)
      PROVE  IInv'
  <2>1. /\ votes' = votes /\ m.term \in Nat /\ m.from \in Server
        /\ current_term[s] \in Nat
    BY <1>0, <1>5 DEF HandleAppendEntries, VoteTypes
  <2>2. /\ current_term' \in [Server -> Nat]
        /\ state' \in [Server -> {"FOLLOWER", "CANDIDATE", "LEADER"}]
        /\ voted_for' \in [Server -> Server \cup {None}]
    BY <2>1, <1>0, <1>5 DEF HandleAppendEntries, VoteTypes
  <2>3. \A r \in Server :
          /\ current_term[r] <= current_term'[r]
          /\ current_term'[r] = current_term[r] => voted_for'[r] = voted_for[r]
          /\ state'[r] # "FOLLOWER" =>
               state'[r] = state[r] /\ current_term'[r] = current_term[r]
    <3>1. CASE m.term > current_term[s]
      BY <3>1, <2>1, <1>0, <1>5 DEF HandleAppendEntries, VoteTypes
    <3>2. CASE ~(m.term > current_term[s])
      BY <3>2, <2>1, <1>0, <1>5 DEF HandleAppendEntries, VoteTypes
    <3> QED
      BY <3>1, <3>2
  <2>4. \A n \in msgs' :
          \/ n \in msgs
          \/ n.type = "AppendReply" /\ n.from = s /\ n.term = current_term'[s]
    BY <1>5 DEF HandleAppendEntries, Send
  <2>5. VoteTypes'
    BY <2>1, <2>2, <2>4, <1>0 DEF VoteTypes
  <2>6. \A n \in msgs' : Granted(n) => n \in msgs
    BY <2>4 DEF Granted
  <2> QED
    BY <2>1, <2>3, <2>5, <2>6, QuietStep
<1>6. ASSUME NEW s \in Server, NEW m \in msgs, HandleAppendReply(s, m)
      PROVE  IInv'
  <2>1. votes' = votes /\ msgs' = msgs /\ AdoptTerm(s, m.term) /\ m.term \in Nat
    BY <1>0, <1>6 DEF HandleAppendReply, VoteTypes
  <2>2. VoteTypes'
    BY <2>1, <1>0, AdoptIsQuiet DEF VoteTypes
  <2> QED
    BY <2>1, <2>2, <1>0, AdoptIsQuiet, QuietStep
<1>7. ASSUME NEW s \in Server, NEW c \in Command, AppendCommand(s, c)
      PROVE  IInv'
  BY <1>0, <1>1, <1>7 DEF AppendCommand, electionVars, VoteTypes
<1>8. ASSUME NEW s \in Server, NEW f \in Server, SendAppendEntries(s, f)
      PROVE  IInv'
  <2>1. \A n \in msgs' :
          \/ n \in msgs
          \/ n.type = "AppendEntries" /\ n.from = s /\ n.term = current_term[s]
    BY <1>8 DEF SendAppendEntries, Send
  <2>2. UNCHANGED electionVars
    BY <1>8 DEF SendAppendEntries
  <2>3. VoteTypes'
    BY <2>1, <2>2, <1>0 DEF VoteTypes, electionVars
  <2> QED
    BY <2>1, <2>2, <2>3, <1>1 DEF Granted
<1>9. CASE UNCHANGED vars
  BY <1>9, <1>0, <1>1 DEF vars, electionVars, VoteTypes
<1> QED
  BY <1>2, <1>3, <1>4, <1>5, <1>6, <1>7, <1>8, <1>9,
     TimeoutKeepsInv, VoteKeepsInv DEF Next

\* Nobody has voted, stood or led yet.
LEMMA InitHasInv == Init => IInv
BY RaftConstants
   DEF Init, IInv, VoteTypes, VotesRemembered, OneVotePerTerm, LeadersElected, Granted

\* Votes are remembered, counted for one candidate of a term only, and a leader
\* has a majority of them, in every reachable state.
THEOREM VotesCount == Spec => []IInv
BY InitHasInv, StepKeepsInv, PTL DEF Spec

\* Election Safety (raft_core.h:209): at most one leader per term, since two
\* would share a voter.
THEOREM ElectionSafe == Spec => []ElectionSafety
<1>1. IInv => ElectionSafety
  <2> SUFFICES ASSUME IInv, NEW s \in Server, NEW t \in Server,
                      state[s] = "LEADER", state[t] = "LEADER",
                      current_term[s] = current_term[t]
               PROVE  s = t
    BY DEF ElectionSafety
  <2>1. PICK v \in votes[s] : v \in votes[t]
    BY MajoritiesIntersect DEF IInv, VoteTypes, LeadersElected
  <2>2. v \in Server
    BY <2>1 DEF IInv, VoteTypes
  <2> QED
    BY <2>1, <2>2 DEF IInv, OneVotePerTerm
<1> QED
  BY <1>1, VotesCount, PTL
-----------------------------------------------------------------------------
(***************************************************************************)
(* The types and the logs of RaftRpc, for any number of servers, terms,    *)
(* entries and messages: Log Matching and Leader Append-Only.              *)
(*                                                                         *)
(* Log Matching is not inductive by itself.  A request in the network is a *)
(* stretch of some leader's log and may arrive when that log has long been *)
(* replaced, so the invariant relates requests to logs and to each other   *)
(* (LogsAgree).  Agreement is lost if two servers append entries of the    *)
(* same term, so each term that occurs in an entry has one leader, for     *)
(* ever (TermsLed), and the leader has all entries of its term             *)
(* (LeaderHasOwn).                                                         *)
(***************************************************************************)
\* A request reaches no further than a log can.
Fit == \A m \in msgs : m.type = "AppendEntries" =>
         m.prev_log_index + Len(m.entries) <= MaxLog

\* A log is a sequence of at most MaxLog entries.
LEMMA LogIsSeq ==
  \A l : l \in Log <=> l \in Seq(Entry) /\ Len(l) \in Index
BY RaftConstants DEF Log, Index

\* What the handlers make of logs are logs.
LEMMA PartOfLog ==
  ASSUME NEW l \in Log, NEW i \in Nat, NEW j \in 0..Len(l), i >= 1
  PROVE  /\ SubSeq(l, i, j) \in Log
         /\ Len(SubSeq(l, i, j)) = IF i <= j THEN j - i + 1 ELSE 0
         /\ \A k \in 1..(j - i + 1) : SubSeq(l, i, j)[k] = l[i + k - 1]
<1>1. l \in Seq(Entry) /\ Len(l) \in Index /\ MaxLog \in Nat
  BY LogIsSeq, RaftConstants
<1>2. \A k \in i..j : l[k] \in Entry
  BY <1>1
<1>3. SubSeq(l, i, j) \in Seq(Entry)
  BY <1>2, SubSeqProperties
<1>4. /\ Len(SubSeq(l, i, j)) = IF i <= j THEN j - i + 1 ELSE 0
      /\ \A k \in 1..(j - i + 1) : SubSeq(l, i, j)[k] = l[i + k - 1]
  BY <1>2, SubSeqProperties
<1>5. Len(SubSeq(l, i, j)) \in Index
  BY <1>1, <1>4 DEF Index
<1> QED
  BY <1>3, <1>4, <1>5, LogIsSeq

\* A set of naturals has a least member, and a bounded one a greatest.
LEMMA LeastOf ==
  ASSUME NEW T \in SUBSET Nat, T # {}
  PROVE  \E x \in T : \A y \in T : x <= y
<1>1. PICK x \in T : \A y \in T : ~(<<y, x>> \in OpToRel(<, Nat))
  BY NatLessThanWellFounded, WFMin
<1>2. \A y \in T : ~(y < x)
  BY <1>1 DEF OpToRel
<1> QED
  BY <1>2

\* A nonempty set of numbers up to n has a greatest one.
LEMMA GreatestOf ==
  ASSUME NEW n \in Nat, NEW T \in SUBSET (0..n), T # {}
  PROVE  \E x \in T : \A y \in T : y <= x
<1> DEFINE U == {n - y : y \in T}
<1>1. U \in SUBSET Nat /\ U # {}
  <2>1. \A y \in T : n - y \in Nat
    OBVIOUS
  <2> QED
    BY <2>1
<1>2. PICK u \in U : \A v \in U : u <= v
  <2> HIDE DEF U
  <2> QED
    BY <1>1, LeastOf
<1>3. PICK x \in T : u = n - x
  BY <1>2
<1>4. ASSUME NEW y \in T PROVE y <= x
  <2>1. n - x <= n - y
    BY <1>2, <1>3
  <2> QED
    BY <2>1
<1> QED
  BY <1>4

\* What a follower's log becomes when it accepts a request: its own log, or its
\* log up to prev_log_index and the entries of the request after it, which for
\* the entries it keeps have the terms of its own.
LEMMA MergeIs ==
  ASSUME NEW l \in Log, NEW m, m.prev_log_index \in Index, m.entries \in Log,
         m.prev_log_index + Len(m.entries) <= MaxLog, m.prev_log_index <= Len(l)
  PROVE  \/ Merge(l, m) = l
         \/ \E k \in (m.prev_log_index + 1)..(m.prev_log_index + Len(m.entries)) :
              /\ Merge(l, m) \in Log
              /\ Len(Merge(l, m)) = m.prev_log_index + Len(m.entries)
              /\ \A i \in 1..(k - 1) : i <= Len(l) /\ Merge(l, m)[i] = l[i]
              /\ \A i \in (m.prev_log_index + 1)..(k - 1) :
                   l[i].term = m.entries[i - m.prev_log_index].term
              /\ \A i \in k..(m.prev_log_index + Len(m.entries)) :
                   Merge(l, m)[i] = m.entries[i - m.prev_log_index]
<1> DEFINE prev == m.prev_log_index
           conflicts == {i \in 1..Len(m.entries) :
                           prev + i > Len(l) \/ l[prev + i].term # m.entries[i].term}
           first == CHOOSE i \in conflicts : \A j \in conflicts : i <= j
           head == SubSeq(l, 1, prev + first - 1)
           tail == SubSeq(m.entries, first, Len(m.entries))
<1>1. /\ l \in Seq(Entry) /\ m.entries \in Seq(Entry) /\ MaxLog \in Nat
      /\ Len(l) \in Nat /\ Len(m.entries) \in Nat /\ prev \in Nat
  BY LogIsSeq, RaftConstants DEF Index
<1>2. CASE conflicts = {}
  BY <1>2 DEF Merge
<1>3. CASE conflicts # {}
  <2>1. Merge(l, m) = head \o tail
    BY <1>3 DEF Merge
  <2>2. first \in conflicts /\ \A j \in conflicts : first <= j
    <3>1. conflicts \in SUBSET Nat
      BY <1>1
    <3> HIDE DEF conflicts
    <3> QED
      BY <3>1, <1>3, LeastOf
  <2> HIDE DEF first
  <2>3. first \in 1..Len(m.entries)
    BY <2>2
  <2>4. \A i \in 1..(first - 1) :
          prev + i <= Len(l) /\ l[prev + i].term = m.entries[i].term
    <3>1. ASSUME NEW i \in 1..(first - 1)
          PROVE  i \notin conflicts /\ i \in 1..Len(m.entries)
      <4>1. i \in 1..Len(m.entries) /\ ~(first <= i)
        BY <2>3, <1>1
      <4> HIDE DEF conflicts
      <4> QED
        BY <4>1, <2>2
    <3> QED
      BY <3>1, <2>3, <1>1
  <2> HIDE DEF conflicts
  <2>5. /\ prev + first - 1 \in 0..Len(l)
        /\ head \in Seq(Entry) /\ Len(head) = prev + first - 1
        /\ \A i \in 1..(prev + first - 1) : i <= Len(l) /\ head[i] = l[i]
    <3>1. prev + first - 1 \in 0..Len(l)
      <4>1. CASE first = 1
        BY <4>1, <1>1
      <4>2. CASE first > 1
        <5>1. first - 1 \in 1..(first - 1)
          BY <4>2, <2>3, <1>1
        <5> QED
          BY <5>1, <2>3, <2>4, <1>1
      <4> QED
        BY <4>1, <4>2, <2>3, <1>1
    <3>2. head \in Log /\ Len(head) = prev + first - 1
          /\ \A i \in 1..(prev + first - 1) : head[i] = l[i]
      <4> DEFINE kept == prev + first - 1
      <4>1. kept \in 0..Len(l) /\ 1 \in Nat /\ 1 >= 1
        BY <3>1
      <4> HIDE DEF kept
      <4>2. /\ SubSeq(l, 1, kept) \in Log
            /\ Len(SubSeq(l, 1, kept)) = IF 1 <= kept THEN kept - 1 + 1 ELSE 0
            /\ \A k \in 1..(kept - 1 + 1) : SubSeq(l, 1, kept)[k] = l[1 + k - 1]
        BY <4>1, PartOfLog
      <4>3. /\ Len(SubSeq(l, 1, kept)) = kept
            /\ \A k \in 1..kept : SubSeq(l, 1, kept)[k] = l[k]
        BY <4>1, <4>2, <1>1
      <4> QED
        BY <4>2, <4>3 DEF kept
    <3> QED
      BY <3>1, <3>2, <1>1, LogIsSeq
  <2>6. /\ tail \in Seq(Entry) /\ Len(tail) = Len(m.entries) - first + 1
        /\ \A k \in 1..(Len(m.entries) - first + 1) : tail[k] = m.entries[first + k - 1]
    <3>1. first \in Nat /\ first >= 1 /\ Len(m.entries) \in 0..Len(m.entries)
      BY <2>3, <1>1
    <3>2. /\ tail \in Log
          /\ Len(tail) = IF first <= Len(m.entries) THEN Len(m.entries) - first + 1 ELSE 0
          /\ \A k \in 1..(Len(m.entries) - first + 1) : tail[k] = m.entries[first + k - 1]
      BY <3>1, PartOfLog
    <3> QED
      BY <3>2, <2>3, <1>1, LogIsSeq
  <2> HIDE DEF head, tail
  <2>7. /\ head \o tail \in Seq(Entry)
        /\ Len(head \o tail) = prev + Len(m.entries)
        /\ \A i \in 1..(prev + Len(m.entries)) :
             (head \o tail)[i] = IF i <= prev + first - 1 THEN head[i]
                                 ELSE tail[i - (prev + first - 1)]
    <3>1. head \in Seq(Entry) /\ tail \in Seq(Entry)
      BY <2>5, <2>6
    <3>2. /\ head \o tail \in Seq(Entry)
          /\ Len(head \o tail) = Len(head) + Len(tail)
          /\ \A i \in 1..(Len(head) + Len(tail)) :
             (head \o tail)[i] = IF i <= Len(head) THEN head[i] ELSE tail[i - Len(head)]
      BY <3>1, ConcatProperties
    <3>3. Len(head) = prev + first - 1 /\ Len(head) + Len(tail) = prev + Len(m.entries)
      BY <2>3, <2>5, <2>6, <1>1
    <3> QED
      BY <3>2, <3>3
  <2>8. head \o tail \in Log
    <3>1. Len(head \o tail) \in Index
      BY <2>7, <1>1 DEF Index
    <3> QED
      BY <3>1, <2>7, LogIsSeq
  <2>9. \A i \in 1..(prev + first - 1) : i <= Len(l) /\ (head \o tail)[i] = l[i]
    BY <2>3, <2>5, <2>7, <1>1
  <2>10. \A i \in (prev + first)..(prev + Len(m.entries)) :
           (head \o tail)[i] = m.entries[i - prev]
    <3>1. ASSUME NEW i \in (prev + first)..(prev + Len(m.entries))
          PROVE  (head \o tail)[i] = m.entries[i - prev]
      <4> DEFINE k == i - (prev + first - 1)
      <4>1. i \in 1..(prev + Len(m.entries)) /\ ~(i <= prev + first - 1)
        BY <2>3, <1>1
      <4>2. k \in 1..(Len(m.entries) - first + 1) /\ first + k - 1 = i - prev
        BY <2>3, <1>1
      <4>3. (head \o tail)[i] = tail[k]
        BY <4>1, <2>7
      <4> HIDE DEF k
      <4>4. tail[k] = m.entries[first + k - 1]
        BY <4>2, <2>6
      <4> QED
        BY <4>2, <4>3, <4>4
    <3> QED
      BY <3>1
  <2>11. \A i \in (prev + 1)..(prev + first - 1) :
           l[i].term = m.entries[i - prev].term
    <3>1. ASSUME NEW i \in (prev + 1)..(prev + first - 1)
          PROVE  l[i].term = m.entries[i - prev].term
      <4> DEFINE k == i - prev
      <4>1. k \in 1..(first - 1) /\ prev + k = i
        BY <2>3, <1>1
      <4> HIDE DEF k
      <4>2. l[prev + k].term = m.entries[k].term
        BY <4>1, <2>4
      <4> QED
        BY <4>1, <4>2 DEF k
    <3> QED
      BY <3>1
  <2>12. prev + first \in (prev + 1)..(prev + Len(m.entries))
    BY <2>3, <1>1
  <2> DEFINE k == prev + first
  <2>13. /\ \A i \in 1..(k - 1) : i <= Len(l) /\ Merge(l, m)[i] = l[i]
         /\ \A i \in (prev + 1)..(k - 1) : l[i].term = m.entries[i - prev].term
         /\ \A i \in k..(prev + Len(m.entries)) : Merge(l, m)[i] = m.entries[i - prev]
    <3>1. k - 1 = prev + first - 1
      BY <2>3, <1>1
    <3>2. \A i \in 1..(k - 1) : i <= Len(l) /\ Merge(l, m)[i] = l[i]
      <4> HIDE DEF k
      <4> QED
        BY <2>1, <2>9, <3>1
    <3>3. \A i \in (prev + 1)..(k - 1) : l[i].term = m.entries[i - prev].term
      <4> HIDE DEF k
      <4> QED
        BY <2>11, <3>1
    <3>4. \A i \in k..(prev + Len(m.entries)) : Merge(l, m)[i] = m.entries[i - prev]
      BY <2>1, <2>10
    <3> QED
      BY <3>2, <3>3, <3>4
  <2>14. /\ Merge(l, m) \in Log /\ Len(Merge(l, m)) = prev + Len(m.entries)
         /\ k \in (prev + 1)..(prev + Len(m.entries))
    BY <2>1, <2>7, <2>8, <2>12
  <2> HIDE DEF k
  <2> QED
    BY <2>13, <2>14
<1> QED
  BY <1>2, <1>3

TypeInv == TypeOK /\ Fit

\* Sending a message keeps the network typed, and requests short enough.
LEMMA SendKeepsTypes ==
  ASSUME TypeInv, NEW m \in Message, Send(m),
         m.type = "AppendEntries" => m.prev_log_index + Len(m.entries) <= MaxLog
  PROVE  msgs' \in SUBSET Message /\ Fit'
BY DEF TypeInv, TypeOK, Fit, Send

\* What a server's variables hold.
LEMMA Values ==
  ASSUME TypeOK, NEW s \in Server
  PROVE  /\ current_term[s] \in Term /\ log[s] \in Log /\ Len(log[s]) \in Index
         /\ log[s] \in Seq(Entry) /\ commit_index[s] \in Index
         /\ \A i \in 1..Len(log[s]) : log[s][i] \in Entry /\ log[s][i].term \in Term
         /\ LastTerm(log[s]) \in Term
<1>1. /\ current_term[s] \in Term /\ log[s] \in Log /\ Len(log[s]) \in Index
      /\ log[s] \in Seq(Entry) /\ commit_index[s] \in Index
  BY LogIsSeq DEF TypeOK
<1>2. \A i \in 1..Len(log[s]) : log[s][i] \in Entry /\ log[s][i].term \in Term
  <2>1. \A i \in 1..Len(log[s]) : log[s][i] \in Entry
    BY <1>1, ElementOfSeq
  <2>2. \A e \in Entry : e.term \in Term
    BY DEF Entry
  <2> QED
    BY <2>1, <2>2
<1>3. LastTerm(log[s]) \in Term
  <2>1. CASE log[s] = <<>>
    BY <2>1, RaftConstants DEF LastTerm, Term
  <2>2. CASE log[s] # <<>>
    <3>1. Len(log[s]) \in 1..Len(log[s])
      BY <2>2, <1>1, EmptySeq
    <3> QED
      BY <3>1, <2>2, <1>2 DEF LastTerm
  <2> QED
    BY <2>1, <2>2
<1> QED
  BY <1>1, <1>2, <1>3

\* What a message's fields hold, by its type.
LEMMA Fields ==
  ASSUME TypeInv, NEW m \in msgs
  PROVE  /\ m.from \in Server /\ m.term \in Term
         /\ m.type \in {"Vote", "AppendReply"} => m.to \in Server
         /\ m.type = "Vote" => m.granted \in BOOLEAN
         /\ m.type = "AppendReply" => m.success \in BOOLEAN
         /\ m.type = "AppendEntries" =>
              /\ m.prev_log_index \in Index /\ m.prev_log_term \in Term
              /\ m.entries \in Log /\ m.leader_commit \in Index
              /\ m.entries \in Seq(Entry) /\ Len(m.entries) \in Index
              /\ m.prev_log_index + Len(m.entries) <= MaxLog
         /\ m.type = "RequestVote" =>
              m.last_log_index \in Index /\ m.last_log_term \in Term
<1>1. m \in Message
  BY DEF TypeInv, TypeOK
<1>2. m.from \in Server /\ m.term \in Term
  BY <1>1 DEF Message
<1>3. m.type \in {"Vote", "AppendReply"} => m.to \in Server
  BY <1>1 DEF Message
<1>4. m.type = "Vote" => m.granted \in BOOLEAN
  BY <1>1 DEF Message
<1>5. m.type = "AppendReply" => m.success \in BOOLEAN
  BY <1>1 DEF Message
<1>6. m.type = "AppendEntries" =>
              /\ m.prev_log_index \in Index /\ m.prev_log_term \in Term
              /\ m.entries \in Log /\ m.leader_commit \in Index
  BY <1>1 DEF Message
<1>7. m.type = "RequestVote" =>
              m.last_log_index \in Index /\ m.last_log_term \in Term
  BY <1>1 DEF Message
<1> QED
  BY <1>2, <1>3, <1>4, <1>5, <1>6, <1>7, LogIsSeq DEF TypeInv, Fit

\* The handlers, one by one, keep the type invariant.
LEMMA TimeoutKeepsTypes ==
  ASSUME TypeInv, NEW s \in Server, ElectionTimeout(s)
  PROVE  TypeInv'
<1> DEFINE m == [type |-> "RequestVote", from |-> s, term |-> current_term'[s],
                 last_log_index |-> Len(log[s]), last_log_term |-> LastTerm(log[s])]
<1>1. current_term' \in [Server -> Term] /\ current_term'[s] \in Term
  BY RaftConstants DEF TypeInv, TypeOK, ElectionTimeout, Term
<1>2. m \in Message /\ m.type = "RequestVote"
  BY <1>1, Values DEF TypeInv, Message
<1>3. msgs' \in SUBSET Message /\ Fit'
  <2>1. Send(m)
    BY DEF ElectionTimeout
  <2> HIDE DEF m
  <2> QED
    BY <1>2, <2>1, SendKeepsTypes
<1> QED
  BY <1>1, <1>3 DEF TypeInv, TypeOK, ElectionTimeout, leaderVars, logVars

\* Handling a vote request keeps the types of the state.
LEMMA VoteKeepsTypes ==
  ASSUME TypeInv, NEW s \in Server, NEW m \in msgs, HandleRequestVote(s, m)
  PROVE  TypeInv'
<1> DEFINE r == [type |-> "Vote", from |-> s, to |-> m.from,
                 term |-> current_term'[s], granted |-> MayVote(s, m)]
<1>1. m.from \in Server /\ m.term \in Term
  BY Fields
<1>2. /\ current_term' \in [Server -> Term] /\ current_term'[s] \in Term
      /\ state' \in [Server -> {"FOLLOWER", "CANDIDATE", "LEADER"}]
      /\ voted_for' \in [Server -> Server \cup {None}]
  BY <1>1 DEF TypeInv, TypeOK, HandleRequestVote
<1>3. MayVote(s, m) \in BOOLEAN
  BY DEF MayVote
<1>4. r \in Message /\ r.type = "Vote"
  <2> HIDE DEF MayVote
  <2> QED
    BY <1>1, <1>2, <1>3 DEF Message
<1>5. msgs' \in SUBSET Message /\ Fit'
  <2>1. Send(r)
    BY DEF HandleRequestVote
  <2> HIDE DEF r
  <2> QED
    BY <1>4, <2>1, SendKeepsTypes
<1> QED
  BY <1>2, <1>5 DEF TypeInv, TypeOK, HandleRequestVote, leaderVars, logVars

\* Stepping down to a higher term keeps the types of what it sets.
LEMMA AdoptKeepsTypes ==
  ASSUME TypeInv, NEW s \in Server, NEW t \in Term, AdoptTerm(s, t)
  PROVE  /\ current_term' \in [Server -> Term]
         /\ state' \in [Server -> {"FOLLOWER", "CANDIDATE", "LEADER"}]
         /\ voted_for' \in [Server -> Server \cup {None}]
BY DEF TypeInv, TypeOK, AdoptTerm

\* A leader's own append keeps the types.
LEMMA AppendKeepsTypes ==
  ASSUME TypeInv, NEW s \in Server, NEW c \in Command, AppendCommand(s, c)
  PROVE  TypeInv'
<1> DEFINE e == [term |-> current_term[s], command |-> c]
<1>1. /\ log[s] \in Seq(Entry) /\ Len(log[s]) \in Index /\ current_term[s] \in Term
      /\ MaxLog \in Nat
  BY Values, RaftConstants DEF TypeInv
<1>2. e \in Entry
  BY <1>1 DEF Entry
<1>3. Append(log[s], e) \in Log
  <2> HIDE DEF e
  <2>1. /\ Append(log[s], e) \in Seq(Entry)
        /\ Len(Append(log[s], e)) = Len(log[s]) + 1
    BY <1>1, <1>2, AppendProperties
  <2>2. Len(log[s]) + 1 \in Index
    BY <1>1 DEF AppendCommand, Index
  <2> QED
    BY <2>1, <2>2, LogIsSeq
<1>4. log' \in [Server -> Log]
  <2>1. log' = [log EXCEPT ![s] = Append(log[s], e)]
    BY DEF AppendCommand, TypeInv, TypeOK
  <2> HIDE DEF e
  <2> QED
    BY <1>3, <2>1 DEF TypeInv, TypeOK
<1>5. match_index' \in [Server -> [Server -> Index]]
  <2>1. Len(log[s]) + 1 \in Index
    BY <1>1 DEF AppendCommand, Index
  <2> QED
    BY <2>1 DEF AppendCommand, TypeInv, TypeOK
<1> QED
  BY <1>4, <1>5 DEF AppendCommand, TypeInv, TypeOK, Fit, electionVars

\* Sending entries keeps the types: the message built is a message.
LEMMA SendAppendKeepsTypes ==
  ASSUME TypeInv, NEW s \in Server, NEW f \in Server, SendAppendEntries(s, f)
  PROVE  TypeInv'
<1> DEFINE prev == next_index[s][f] - 1
           m == [type |-> "AppendEntries", from |-> s, term |-> current_term[s],
                 prev_log_index |-> prev,
                 prev_log_term |-> IF prev \in 1..Len(log[s]) THEN log[s][prev].term ELSE 0,
                 entries |-> SubSeq(log[s], prev + 1, Len(log[s])),
                 leader_commit |-> commit_index[s]]
<1>1. /\ log[s] \in Log /\ Len(log[s]) \in Index /\ current_term[s] \in Term
      /\ commit_index[s] \in Index /\ Len(log[s]) \in 0..Len(log[s])
      /\ \A i \in 1..Len(log[s]) : log[s][i].term \in Term
      /\ MaxLog \in Nat /\ 0 \in Term
  BY Values, RaftConstants DEF TypeInv, Index, Term
<1>2. prev \in Index /\ prev + 1 \in Nat /\ prev + 1 >= 1
  <2>1. next_index[s][f] \in 1..MaxLog+1
    BY DEF TypeInv, TypeOK
  <2> QED
    BY <2>1, <1>1 DEF Index
<1>3. Send(m)
  BY DEF SendAppendEntries
<1> HIDE DEF prev
<1>4. /\ SubSeq(log[s], prev + 1, Len(log[s])) \in Log
      /\ Len(SubSeq(log[s], prev + 1, Len(log[s]))) =
           IF prev + 1 <= Len(log[s]) THEN Len(log[s]) - (prev + 1) + 1 ELSE 0
  BY <1>1, <1>2, PartOfLog
<1>5. (IF prev \in 1..Len(log[s]) THEN log[s][prev].term ELSE 0) \in Term
  BY <1>1
<1>6. m \in Message
  BY <1>1, <1>2, <1>4, <1>5 DEF Message
<1>7. m.prev_log_index + Len(m.entries) <= MaxLog
  BY <1>1, <1>2, <1>4 DEF Index
<1>8. msgs' \in SUBSET Message /\ Fit'
  <2> HIDE DEF m
  <2> QED
    BY <1>3, <1>6, <1>7, SendKeepsTypes
<1> QED
  BY <1>8 DEF SendAppendEntries, TypeInv, TypeOK, electionVars, leaderVars, logVars

\* Handling entries keeps the types: the truncated and extended log is a log.
LEMMA EntriesKeepTypes ==
  ASSUME TypeInv, NEW s \in Server, NEW m \in msgs, HandleAppendEntries(s, m)
  PROVE  TypeInv'
<1> DEFINE accepted == Accepts(s, m)
           last_new == m.prev_log_index + Len(m.entries)
           r == [type |-> "AppendReply", from |-> s, to |-> m.from,
                 term |-> current_term'[s], success |-> accepted]
<1>1. /\ m.from \in Server /\ m.term \in Term
      /\ m.prev_log_index \in Index /\ m.entries \in Log /\ m.leader_commit \in Index
      /\ Len(m.entries) \in Index /\ last_new <= MaxLog
  BY Fields DEF HandleAppendEntries
<1>2. /\ log[s] \in Log /\ Len(log[s]) \in Index /\ current_term[s] \in Term
      /\ commit_index[s] \in Index /\ MaxLog \in Nat
  BY Values, RaftConstants DEF TypeInv
<1>3. /\ current_term' \in [Server -> Term] /\ current_term'[s] \in Term
      /\ state' \in [Server -> {"FOLLOWER", "CANDIDATE", "LEADER"}]
      /\ voted_for' \in [Server -> Server \cup {None}]
  BY <1>1 DEF TypeInv, TypeOK, HandleAppendEntries
<1>4. accepted \in BOOLEAN
  BY DEF Accepts
<1>5. log' \in [Server -> Log]
  <2>1. accepted => Merge(log[s], m) \in Log
    <3>1. CASE accepted
      <4>1. m.prev_log_index <= Len(log[s])
        BY <3>1, <1>1, <1>2 DEF Accepts, HasPrev, Index
      <4> QED
        BY <4>1, <1>1, <1>2, MergeIs
    <3> QED
      BY <3>1
  <2>2. m.prev_log_index <= Len(log[s]) => SubSeq(log[s], 1, m.prev_log_index) \in Log
    <3>1. CASE m.prev_log_index <= Len(log[s])
      <4>1. m.prev_log_index \in 0..Len(log[s]) /\ 1 \in Nat /\ 1 >= 1
        BY <3>1, <1>1, <1>2 DEF Index
      <4> QED
        BY <4>1, <1>2, PartOfLog
    <3> QED
      BY <3>1
  <2>3. log' = [log EXCEPT ![s] =
                  IF accepted THEN Merge(@, m)
                  ELSE IF m.term >= current_term[s] /\ m.prev_log_index <= Len(@)
                       THEN SubSeq(@, 1, m.prev_log_index) ELSE @]
    BY DEF HandleAppendEntries
  <2> HIDE DEF accepted
  <2> QED
    BY <2>1, <2>2, <2>3, <1>2 DEF TypeInv, TypeOK
<1>6. commit_index' \in [Server -> Index]
  <2>1. Smaller(m.leader_commit, last_new) \in Index
    BY <1>1, <1>2 DEF Smaller, Index
  <2>2. commit_index' = [commit_index EXCEPT ![s] =
          IF accepted /\ Smaller(m.leader_commit, last_new) > @
          THEN Smaller(m.leader_commit, last_new) ELSE @]
    BY DEF HandleAppendEntries
  <2> HIDE DEF accepted, last_new
  <2> QED
    BY <2>1, <2>2 DEF TypeInv, TypeOK
<1>7. r \in Message /\ r.type = "AppendReply"
  <2> HIDE DEF accepted
  <2> QED
    BY <1>1, <1>3, <1>4 DEF Message
<1>8. msgs' \in SUBSET Message /\ Fit'
  <2>1. Send(r)
    BY DEF HandleAppendEntries
  <2> HIDE DEF r
  <2> QED
    BY <1>7, <2>1, SendKeepsTypes
<1> QED
  BY <1>3, <1>5, <1>6, <1>8 DEF TypeInv, TypeOK, HandleAppendEntries, leaderVars

\* raft_advance_commit_index never goes back or beyond the log.
LEMMA CommittedInLog ==
  ASSUME TypeInv, NEW s \in Server, NEW match
  PROVE  /\ Committed(s, match) \in Index
         /\ Committed(s, match) >= commit_index[s]
<1> DEFINE n == {i \in commit_index[s]+1 .. Len(log[s]) :
                   /\ log[s][i].term = current_term[s]
                   /\ Majority({t \in Server : match[t] >= i})}
           top == CHOOSE i \in n : \A j \in n : j <= i
<1>1. commit_index[s] \in Index /\ Len(log[s]) \in Index /\ MaxLog \in Nat
  BY Values, RaftConstants DEF TypeInv
<1>2. CASE n = {}
  BY <1>1, <1>2 DEF Committed, Index
<1>3. CASE n # {}
  <2>1. n \in SUBSET (0..Len(log[s])) /\ n \in SUBSET (commit_index[s]+1 .. Len(log[s]))
    BY <1>1 DEF Index
  <2>2. Committed(s, match) = top
    BY <1>3 DEF Committed
  <2>3. top \in n
    <3> HIDE DEF n
    <3>1. Len(log[s]) \in Nat
      BY <1>1 DEF Index
    <3> QED
      BY <1>3, <2>1, <3>1, GreatestOf
  <2> HIDE DEF n, top
  <2>4. top \in commit_index[s]+1 .. Len(log[s])
    BY <2>1, <2>3
  <2> QED
    BY <2>2, <2>4, <1>1 DEF Index
<1> QED
  BY <1>2, <1>3

\* Handling a reply keeps the types: the indices stay inside their bounds.
LEMMA ReplyKeepsTypes ==
  ASSUME TypeInv, NEW s \in Server, NEW m \in msgs, HandleAppendReply(s, m)
  PROVE  TypeInv'
<1>1. /\ m.from \in Server /\ m.term \in Term /\ m.success \in BOOLEAN
      /\ Len(log[s]) \in Index /\ MaxLog \in Nat
  BY Fields, Values, RaftConstants DEF HandleAppendReply, TypeInv
<1>2. /\ current_term' \in [Server -> Term]
      /\ state' \in [Server -> {"FOLLOWER", "CANDIDATE", "LEADER"}]
      /\ voted_for' \in [Server -> Server \cup {None}]
  BY <1>1, AdoptKeepsTypes DEF HandleAppendReply
<1>3. match_index' \in [Server -> [Server -> Index]]
  <2>1. CASE m.term > current_term[s]
    BY <2>1 DEF HandleAppendReply, TypeInv, TypeOK, leaderVars
  <2>2. CASE ~(m.term > current_term[s])
    <3>1. \/ match_index' = match_index
          \/ match_index' = [match_index EXCEPT ![s][m.from] = Len(log[s])]
      BY <2>2 DEF HandleAppendReply
    <3>2. CASE match_index' = match_index
      BY <3>2 DEF TypeInv, TypeOK
    <3>3. CASE match_index' = [match_index EXCEPT ![s][m.from] = Len(log[s])]
      BY <3>3, <1>1 DEF TypeInv, TypeOK
    <3> QED
      BY <3>1, <3>2, <3>3
  <2> QED
    BY <2>1, <2>2
<1>4. next_index' \in [Server -> [Server -> 1..MaxLog+1]]
  <2>1. CASE m.term > current_term[s]
    BY <2>1 DEF HandleAppendReply, TypeInv, TypeOK, leaderVars
  <2>2. CASE ~(m.term > current_term[s])
    <3>1. next_index[s][m.from] \in 1..MaxLog+1
      BY <1>1 DEF TypeInv, TypeOK
    <3>2. /\ StepBack(next_index[s][m.from]) \in 1..MaxLog+1
          /\ Len(log[s]) + 1 \in 1..MaxLog+1
      BY <3>1, <1>1 DEF StepBack, Index
    <3>3. next_index' = [next_index EXCEPT ![s][m.from] =
               IF m.success THEN Len(log[s]) + 1 ELSE StepBack(@)]
      BY <2>2 DEF HandleAppendReply
    <3> QED
      BY <3>2, <3>3, <1>1 DEF TypeInv, TypeOK
  <2> QED
    BY <2>1, <2>2
<1>5. commit_index' \in [Server -> Index]
  <2>1. CASE m.term > current_term[s]
    BY <2>1 DEF HandleAppendReply, TypeInv, TypeOK
  <2>2. CASE ~(m.term > current_term[s])
    <3>1. commit_index' = [commit_index EXCEPT ![s] = Committed(s, match_index'[s])]
      BY <2>2 DEF HandleAppendReply
    <3> QED
      BY <3>1, CommittedInLog DEF TypeInv, TypeOK
  <2> QED
    BY <2>1, <2>2
<1> QED
  BY <1>2, <1>3, <1>4, <1>5 DEF HandleAppendReply, TypeInv, TypeOK, Fit

\* The types are inductive: one action at a time.
LEMMA StepKeepsTypes == TypeInv /\ [Next]_vars => TypeInv'
<1> SUFFICES ASSUME TypeInv, [Next]_vars PROVE TypeInv'
  OBVIOUS
<1>1. ASSUME NEW m \in msgs, Lose(m) PROVE TypeInv'
  BY <1>1 DEF Lose, TypeInv, TypeOK, Fit, electionVars, leaderVars, logVars
<1>2. ASSUME NEW s \in Server, BecomeLeader(s) PROVE TypeInv'
  <2>1. Len(log[s]) + 1 \in 1..MaxLog+1 /\ 0 \in Index
    BY Values, RaftConstants DEF TypeInv, Index
  <2> QED
    BY <1>2, <2>1 DEF BecomeLeader, TypeInv, TypeOK, Fit, logVars
<1>3. ASSUME NEW s \in Server, NEW m \in msgs, HandleVote(s, m) PROVE TypeInv'
  <2>1. m.from \in Server /\ m.term \in Term
    BY Fields
  <2>2. votes' \in [Server -> SUBSET Server]
    BY <1>3, <2>1 DEF HandleVote, TypeInv, TypeOK
  <2> QED
    BY <1>3, <2>1, <2>2, AdoptKeepsTypes
       DEF HandleVote, TypeInv, TypeOK, Fit, leaderVars, logVars
<1>4. CASE UNCHANGED vars
  BY <1>4 DEF vars, electionVars, leaderVars, logVars, TypeInv, TypeOK, Fit
<1> QED
  BY <1>1, <1>2, <1>3, <1>4, TimeoutKeepsTypes, VoteKeepsTypes, AppendKeepsTypes,
     SendAppendKeepsTypes, EntriesKeepTypes, ReplyKeepsTypes DEF Next

\* The types hold initially.
LEMMA InitHasTypes == Init => TypeInv
<1>1. <<>> \in Log
  <2>1. <<>> \in Seq(Entry) /\ Len(<<>>) = 0
    OBVIOUS
  <2>2. Len(<<>>) \in Index
    BY <2>1, RaftConstants DEF Index
  <2> QED
    BY <2>1, <2>2, LogIsSeq
<1>2. 0 \in Term /\ 0 \in Index /\ 1 \in 1..MaxLog+1
  BY RaftConstants DEF Term, Index
<1> QED
  BY <1>1, <1>2 DEF Init, TypeInv, TypeOK, Fit

\* Types hold, and no request reaches further than a log can.
THEOREM TypesHold == Spec => []TypeInv
BY InitHasTypes, StepKeepsTypes, PTL DEF Spec

\* Every handler keeps every variable of every server within its type: terms and
\* indices within the bounds of raft_core.h, logs within MAX_LOG_ENTRIES.
THEOREM TypeCorrect == Spec => []TypeOK
BY TypesHold, PTL DEF TypeInv
-----------------------------------------------------------------------------
\* A log, and the stretch of a log that a request carries, are fragments: the
\* entries after an index, and the term of the entry at that index.
Requests == {m \in msgs : m.type = "AppendEntries"}
Whole(l) == [prev_log_index |-> 0, prev_log_term |-> 0, entries |-> l]
Fragments == {Whole(log[s]) : s \in Server} \cup Requests

Covers(f, i) == f.prev_log_index < i /\ i <= f.prev_log_index + Len(f.entries)
At(f, i) == f.entries[i - f.prev_log_index]
TermAt(f, i) == IF i = f.prev_log_index THEN f.prev_log_term ELSE At(f, i).term

\* Fragments that hold an entry of the same index and term agree on all they
\* both hold before it.
Agree(f, g) ==
  \A i \in Nat : Covers(f, i) /\ Covers(g, i) /\ At(f, i).term = At(g, i).term =>
    \A j \in 1..i :
      /\ Covers(f, j) /\ Covers(g, j) => At(f, j) = At(g, j)
      /\ f.prev_log_index <= j /\ g.prev_log_index <= j => TermAt(f, j) = TermAt(g, j)

\* Some majority has voted for l in term T, or can no longer vote in T.
Settled(T, l) ==
  \E Q \in SUBSET Server :
    /\ Majority(Q)
    /\ \A v \in Q :
         /\ current_term[v] > T \/ (current_term[v] = T /\ voted_for[v] = l)
         /\ \A m \in msgs : Granted(m) /\ m.from = v /\ m.term = T => m.to = l
         /\ \A c \in Server :
              state[c] # "FOLLOWER" /\ current_term[c] = T /\ v \in votes[c] => c = l

\* l leads term T, or has led it: nobody else ever can.
Led(l, T) ==
  /\ Settled(T, l)
  /\ current_term[l] > T \/ (current_term[l] = T /\ state[l] = "LEADER")

LogsAgree == \A f, g \in Fragments : Agree(f, g)

\* Entries and requests are made by the leader of their term.
TermsLed ==
  /\ \A f \in Fragments : \A i \in Nat :
       Covers(f, i) => \E l \in Server : Led(l, At(f, i).term)
  /\ \A m \in Requests : Led(m.from, m.term)

\* No fragment has more of the entries a leader has made than the leader.
LeaderHasOwn ==
  \A s \in Server : state[s] = "LEADER" =>
    \A f \in Fragments : \A i \in Nat :
      Covers(f, i) /\ At(f, i).term = current_term[s] => i <= Len(log[s])

LInv == TypeInv /\ IInv /\ LogsAgree /\ TermsLed /\ LeaderHasOwn

-----------------------------------------------------------------------------
Framed(f) == f.prev_log_index \in Nat /\ Len(f.entries) \in Nat

\* Agreement is symmetric and reflexive.
LEMMA AgreeEitherWay ==
  /\ \A f, g : Agree(f, g) => Agree(g, f)
  /\ \A f : Agree(f, f)
BY DEF Agree

\* f lies inside g.
Part(f, g) ==
  \A i \in Nat : Covers(f, i) =>
    /\ g.prev_log_index <= f.prev_log_index
    /\ f.prev_log_term = TermAt(g, f.prev_log_index)
    /\ Covers(g, i) /\ At(f, i) = At(g, i)

\* What lies inside a fragment agrees with whatever the fragment agrees with.
LEMMA PartAgrees ==
  ASSUME NEW f, NEW g, NEW h, Framed(f), Framed(g), Framed(h), Part(f, g), Agree(g, h)
  PROVE  Agree(f, h)
<1> SUFFICES ASSUME NEW i \in Nat, Covers(f, i), Covers(h, i), At(f, i).term = At(h, i).term,
                    NEW j \in 1..i
             PROVE  /\ Covers(f, j) /\ Covers(h, j) => At(f, j) = At(h, j)
                    /\ f.prev_log_index <= j /\ h.prev_log_index <= j
                         => TermAt(f, j) = TermAt(h, j)
  BY DEF Agree
<1>1. /\ g.prev_log_index <= f.prev_log_index
      /\ f.prev_log_term = TermAt(g, f.prev_log_index)
      /\ Covers(g, i) /\ At(g, i).term = At(h, i).term
  BY DEF Part
<1>2. /\ Covers(g, j) /\ Covers(h, j) => At(g, j) = At(h, j)
      /\ g.prev_log_index <= j /\ h.prev_log_index <= j => TermAt(g, j) = TermAt(h, j)
  BY <1>1 DEF Agree
<1>3. Covers(f, j) => Covers(g, j) /\ At(f, j) = At(g, j)
  BY DEF Part
<1>4. f.prev_log_index <= j => g.prev_log_index <= j /\ TermAt(f, j) = TermAt(g, j)
  <2>1. CASE j = f.prev_log_index
    BY <2>1, <1>1 DEF TermAt
  <2>2. CASE f.prev_log_index < j
    <3>1. Covers(f, j)
      BY <2>2 DEF Covers, Framed
    <3>2. g.prev_log_index < j /\ f.prev_log_index < j
      BY <2>2, <1>1 DEF Framed
    <3> QED
      BY <3>1, <3>2, <1>3 DEF TermAt, Framed
  <2> QED
    BY <2>1, <2>2 DEF Framed
<1> QED
  BY <1>2, <1>3, <1>4

\* A log made of the head of l up to prev_log_index and then the entries of m
\* agrees with whatever both l and m agree with.
LEMMA JoinAgrees ==
  ASSUME NEW l, NEW m, NEW n, NEW h, Framed(m), Framed(h), Len(l) \in Nat,
         m.prev_log_index <= Len(l),
         m.prev_log_index > 0 => l[m.prev_log_index].term = m.prev_log_term,
         Len(n) = m.prev_log_index + Len(m.entries),
         \A i \in 1..m.prev_log_index : n[i] = l[i],
         \A i \in Nat : Covers(m, i) => n[i] = At(m, i),
         Agree(Whole(l), h), Agree(m, h)
  PROVE  Agree(Whole(n), h)
<1> DEFINE prev == m.prev_log_index
<1>1. /\ prev \in Nat /\ Len(m.entries) \in Nat /\ h.prev_log_index \in Nat
      /\ Len(h.entries) \in Nat /\ Len(n) \in Nat
  BY DEF Framed
<1>2. \A i \in Nat, k \in {l, n} :
        /\ Covers(Whole(k), i) <=> 1 <= i /\ i <= Len(k)
        /\ At(Whole(k), i) = k[i] /\ Whole(k).prev_log_index = 0
        /\ TermAt(Whole(k), i) = IF i = 0 THEN 0 ELSE k[i].term
  BY <1>1 DEF Covers, At, TermAt, Whole
<1> SUFFICES ASSUME NEW i \in Nat, Covers(Whole(n), i), Covers(h, i), n[i].term = At(h, i).term,
                    NEW j \in 1..i
             PROVE  /\ Covers(h, j) => n[j] = At(h, j)
                    /\ h.prev_log_index <= j => n[j].term = TermAt(h, j)
  BY <1>2 DEF Agree
<1>3. /\ 1 <= i /\ i <= Len(n)
      /\ h.prev_log_index < i /\ i <= h.prev_log_index + Len(h.entries)
  BY <1>2 DEF Covers
\* below prev, once l and h have an entry of the same term there
<1>4. ASSUME NEW k \in 1..prev, j <= k, Covers(h, k), l[k].term = At(h, k).term
      PROVE  /\ Covers(h, j) => n[j] = At(h, j)
             /\ h.prev_log_index <= j => n[j].term = TermAt(h, j)
  <2>1. k \in Nat /\ j \in 1..k /\ j \in Nat /\ k <= Len(l) /\ j <= Len(l) /\ j \in 1..prev
    BY <1>1, <1>4
  <2>2. /\ Covers(Whole(l), k) /\ At(Whole(l), k).term = At(h, k).term
        /\ Covers(Whole(l), j) /\ At(Whole(l), j) = l[j] /\ TermAt(Whole(l), j) = l[j].term
        /\ Whole(l).prev_log_index <= j
    BY <2>1, <1>2, <1>4
  <2>3. /\ Covers(h, j) => At(Whole(l), j) = At(h, j)
        /\ h.prev_log_index <= j => TermAt(Whole(l), j) = TermAt(h, j)
    BY <2>1, <2>2, <1>4 DEF Agree
  <2>4. n[j] = l[j]
    BY <2>1
  <2> QED
    BY <2>2, <2>3, <2>4
<1>5. CASE i <= prev
  <2>1. i \in 1..prev /\ n[i] = l[i]
    BY <1>1, <1>3, <1>5
  <2> QED
    BY <1>4, <2>1
<1>6. CASE prev < i
  <2>1. Covers(m, i) /\ At(m, i).term = At(h, i).term
    BY <1>1, <1>3, <1>6 DEF Covers
  <2>2. /\ Covers(m, j) /\ Covers(h, j) => At(m, j) = At(h, j)
        /\ prev <= j /\ h.prev_log_index <= j => TermAt(m, j) = TermAt(h, j)
    BY <2>1 DEF Agree
  <2>3. CASE prev < j
    <3>1. Covers(m, j) /\ n[j] = At(m, j) /\ TermAt(m, j) = At(m, j).term
      BY <1>1, <1>3, <2>3 DEF Covers, TermAt
    <3> QED
      BY <3>1, <2>2, <2>3, <1>1
  <2>4. CASE j <= prev /\ h.prev_log_index < prev
    <3>1. /\ prev \in 1..prev /\ prev > 0 /\ Covers(h, prev) /\ prev \in 1..i
      BY <2>4, <1>1, <1>3, <1>6 DEF Covers
    <3>2. TermAt(m, prev) = TermAt(h, prev)
      BY <2>1, <2>4, <3>1, <1>1 DEF Agree
    <3>3. l[prev].term = At(h, prev).term
      BY <3>1, <3>2, <2>4, <1>1 DEF TermAt
    <3> QED
      BY <3>1, <3>3, <2>4, <1>4
  <2>5. CASE j = prev /\ h.prev_log_index = prev
    <3>1. ~Covers(h, j)
      BY <2>5, <1>1 DEF Covers
    <3>2. n[j] = l[j] /\ l[j].term = m.prev_log_term
      BY <2>5, <1>1
    <3> QED
      BY <3>1, <3>2, <2>2, <2>5, <1>1 DEF TermAt
  <2>6. CASE j < h.prev_log_index
    BY <2>6, <1>1 DEF Covers
  <2> QED
    BY <2>3, <2>4, <2>5, <2>6, <1>1
<1> QED
  BY <1>5, <1>6, <1>1

\* An entry at the end whose term h has nowhere beyond.
LEMMA LongerAgrees ==
  ASSUME NEW l \in Seq(Entry), NEW e \in Entry, NEW h, Framed(h), Agree(Whole(l), h),
         \A i \in Nat : Covers(h, i) /\ At(h, i).term = e.term => i <= Len(l)
  PROVE  Agree(Whole(Append(l, e)), h)
<1> DEFINE n == Append(l, e)
<1>1. /\ Len(l) \in Nat /\ Len(n) = Len(l) + 1 /\ n[Len(l) + 1] = e
      /\ \A i \in 1..Len(l) : n[i] = l[i]
  BY AppendProperties
<1> HIDE DEF n
<1>2. \A i \in Nat, k \in {l, n} :
        /\ Covers(Whole(k), i) <=> 1 <= i /\ i <= Len(k)
        /\ At(Whole(k), i) = k[i] /\ Whole(k).prev_log_index = 0
        /\ TermAt(Whole(k), i) = IF i = 0 THEN 0 ELSE k[i].term
  BY <1>1 DEF Covers, At, TermAt, Whole
<1>3. ASSUME NEW i \in Nat, Covers(Whole(n), i), Covers(h, i), n[i].term = At(h, i).term,
             NEW j \in 1..i
      PROVE  /\ Covers(h, j) => n[j] = At(h, j)
             /\ h.prev_log_index <= j => n[j].term = TermAt(h, j)
  <2>1. i \in 1..Len(l)
    <3>1. CASE i = Len(l) + 1
      BY <3>1, <1>1, <1>3
    <3> QED
      BY <3>1, <1>1, <1>2, <1>3
  <2>2. j \in 1..Len(l) /\ j \in Nat /\ n[j] = l[j] /\ n[i] = l[i]
    BY <2>1, <1>1
  <2>3. /\ Covers(Whole(l), i) /\ At(Whole(l), i).term = At(h, i).term
        /\ Covers(Whole(l), j) /\ At(Whole(l), j) = l[j] /\ TermAt(Whole(l), j) = l[j].term
        /\ Whole(l).prev_log_index <= j
    BY <2>1, <2>2, <1>2, <1>3
  <2> QED
    BY <2>2, <2>3, <1>3 DEF Agree
<1>4. Agree(Whole(n), h)
  BY <1>2, <1>3 DEF Agree
<1> QED
  BY <1>4 DEF n
-----------------------------------------------------------------------------
\* What any step may do to terms, candidacies and votes.
ElectionStep ==
  /\ \A v \in Server :
       /\ current_term[v] <= current_term'[v]
       /\ current_term'[v] = current_term[v] =>
            /\ voted_for'[v] = voted_for[v] \/ voted_for[v] = None
            /\ state[v] = "LEADER" => state'[v] = "LEADER"
  /\ \A m \in msgs' : Granted(m) =>
       m \in msgs \/ (m.term = current_term'[m.from] /\ voted_for'[m.from] = m.to)
  /\ \A c \in Server : \A v \in votes'[c] : state'[c] # "FOLLOWER" =>
       \/ /\ v = c /\ voted_for'[c] = c
       \/ /\ state[c] # "FOLLOWER" /\ current_term'[c] = current_term[c]
          /\ \/ v \in votes[c]
             \/ \E m \in msgs :
                  Granted(m) /\ m.from = v /\ m.to = c /\ m.term = current_term[c]

\* Steps that grant and count no vote.
LEMMA QuietElection ==
  ASSUME votes' = votes, \A m \in msgs' : Granted(m) => m \in msgs,
         \A v \in Server :
           /\ current_term[v] <= current_term'[v]
           /\ current_term'[v] = current_term[v] =>
                voted_for'[v] = voted_for[v] /\ (state[v] = "LEADER" => state'[v] = "LEADER")
           /\ state'[v] # "FOLLOWER" =>
                state[v] # "FOLLOWER" /\ current_term'[v] = current_term[v]
  PROVE  ElectionStep
BY DEF ElectionStep, Granted

\* Adopting a term ends a candidacy or a lead and changes no other.
LEMMA AdoptIsMild ==
  ASSUME TypeInv, NEW s \in Server, NEW t \in Term, AdoptTerm(s, t)
  PROVE  \A v \in Server :
           /\ current_term[v] <= current_term'[v]
           /\ current_term'[v] = current_term[v] =>
                voted_for'[v] = voted_for[v] /\ (state[v] = "LEADER" => state'[v] = "LEADER")
           /\ state'[v] # "FOLLOWER" =>
                state[v] # "FOLLOWER" /\ current_term'[v] = current_term[v]
<1>1. t \in Nat /\ \A v \in Server : current_term[v] \in Nat
  BY RaftConstants DEF TypeInv, TypeOK, Term
<1> QED
  BY <1>1 DEF AdoptTerm, TypeInv, TypeOK

\* Every step of the model is such a step.
LEMMA ElectionSteps ==
  TypeInv /\ [Next]_vars => ElectionStep
<1> SUFFICES ASSUME TypeInv, [Next]_vars PROVE ElectionStep
  OBVIOUS
<1>0. /\ \A v \in Server : current_term[v] \in Nat
      /\ \A m \in msgs : m.from \in Server /\ m.term \in Nat /\ m.term \in Term
      /\ None \notin Server
  BY Fields, RaftConstants DEF TypeInv, TypeOK, Term
<1>1. ASSUME UNCHANGED electionVars, \A m \in msgs' : Granted(m) => m \in msgs
      PROVE  ElectionStep
  BY <1>0, <1>1, QuietElection DEF electionVars
<1>2. ASSUME NEW m \in msgs, Lose(m) PROVE ElectionStep
  BY <1>1, <1>2 DEF Lose, electionVars
<1>3. ASSUME NEW s \in Server, BecomeLeader(s) PROVE ElectionStep
  BY <1>0, <1>3, QuietElection DEF BecomeLeader, TypeInv, TypeOK
<1>4. ASSUME NEW s \in Server, ElectionTimeout(s) PROVE ElectionStep
  <2>1. \A m \in msgs' : Granted(m) => m \in msgs
    BY <1>4 DEF ElectionTimeout, Send, Granted
  <2>2. /\ current_term'[s] = current_term[s] + 1 /\ voted_for'[s] = s /\ votes'[s] = {s}
        /\ state[s] # "LEADER"
        /\ \A v \in Server \ {s} :
             /\ current_term'[v] = current_term[v] /\ voted_for'[v] = voted_for[v]
             /\ votes'[v] = votes[v] /\ state'[v] = state[v]
    BY <1>4 DEF ElectionTimeout, TypeInv, TypeOK
  <2> QED
    BY <2>1, <2>2, <1>0 DEF ElectionStep, Granted
<1>5. ASSUME NEW s \in Server, NEW m \in msgs, HandleRequestVote(s, m) PROVE ElectionStep
  <2> DEFINE r == [type |-> "Vote", from |-> s, to |-> m.from,
                   term |-> current_term'[s], granted |-> MayVote(s, m)]
  <2>1. msgs' = msgs \cup {r} /\ votes' = votes
    BY <1>5 DEF HandleRequestVote, Send
  <2>2. MayVote(s, m) => voted_for'[s] = m.from
    BY <1>5 DEF HandleRequestVote, TypeInv, TypeOK
  <2>3. r.from = s /\ r.to = m.from /\ r.term = current_term'[s] /\ (Granted(r) => MayVote(s, m))
    BY DEF Granted
  <2> HIDE DEF r
  <2>4. \A n \in msgs' : Granted(n) =>
          n \in msgs \/ (n.term = current_term'[n.from] /\ voted_for'[n.from] = n.to)
    BY <2>1, <2>2, <2>3
  <2>5. \A v \in Server \ {s} :
          /\ current_term'[v] = current_term[v] /\ voted_for'[v] = voted_for[v]
          /\ state'[v] = state[v]
    BY <1>5 DEF HandleRequestVote, TypeInv, TypeOK
  <2>6. /\ current_term[s] <= current_term'[s]
        /\ current_term'[s] = current_term[s] => state'[s] = state[s]
        /\ state'[s] # "FOLLOWER" => state[s] # "FOLLOWER" /\ current_term'[s] = current_term[s]
    BY <1>0, <1>5 DEF HandleRequestVote, TypeInv, TypeOK
  <2>7. current_term'[s] = current_term[s] => voted_for'[s] = voted_for[s] \/ voted_for[s] = None
    BY <1>0, <1>5 DEF HandleRequestVote, MayVote, TypeInv, TypeOK
  <2> QED
    BY <2>1, <2>4, <2>5, <2>6, <2>7, <1>0 DEF ElectionStep, Granted
<1>6. ASSUME NEW s \in Server, NEW m \in msgs, HandleVote(s, m) PROVE ElectionStep
  <2>1. \A v \in Server :
           /\ current_term[v] <= current_term'[v]
           /\ current_term'[v] = current_term[v] =>
                voted_for'[v] = voted_for[v] /\ (state[v] = "LEADER" => state'[v] = "LEADER")
           /\ state'[v] # "FOLLOWER" =>
                state[v] # "FOLLOWER" /\ current_term'[v] = current_term[v]
    BY <1>0, <1>6, AdoptIsMild DEF HandleVote
  <2>2. \A c \in Server : \A v \in votes'[c] :
          \/ v \in votes[c]
          \/ /\ Granted(m) /\ m.from = v /\ m.to = c /\ m.term = current_term[c]
    <3>1. CASE m.granted /\ state[s] = "CANDIDATE" /\ m.term = current_term[s]
      BY <3>1, <1>6 DEF HandleVote, Granted, TypeInv, TypeOK
    <3>2. CASE ~(m.granted /\ state[s] = "CANDIDATE" /\ m.term = current_term[s])
      BY <3>2, <1>6 DEF HandleVote
    <3> QED
      BY <3>1, <3>2
  <2>3. msgs' = msgs
    BY <1>6 DEF HandleVote
  <2> QED
    BY <2>1, <2>2, <2>3 DEF ElectionStep, Granted
<1>7. ASSUME NEW s \in Server, NEW m \in msgs, HandleAppendEntries(s, m) PROVE ElectionStep
  <2>1. \A n \in msgs' : Granted(n) => n \in msgs
    BY <1>7 DEF HandleAppendEntries, Send, Granted
  <2>2. \A v \in Server :
           /\ current_term[v] <= current_term'[v]
           /\ current_term'[v] = current_term[v] =>
                voted_for'[v] = voted_for[v] /\ (state[v] = "LEADER" => state'[v] = "LEADER")
           /\ state'[v] # "FOLLOWER" =>
                state[v] # "FOLLOWER" /\ current_term'[v] = current_term[v]
    <3>1. CASE m.term > current_term[s]
      BY <3>1, <1>0, <1>7 DEF HandleAppendEntries, TypeInv, TypeOK
    <3>2. CASE ~(m.term > current_term[s])
      BY <3>2, <1>0, <1>7 DEF HandleAppendEntries, TypeInv, TypeOK
    <3> QED
      BY <3>1, <3>2
  <2>3. votes' = votes
    BY <1>7 DEF HandleAppendEntries
  <2> QED
    BY <2>1, <2>2, <2>3, QuietElection
<1>8. ASSUME NEW s \in Server, NEW m \in msgs, HandleAppendReply(s, m) PROVE ElectionStep
  BY <1>0, <1>8, AdoptIsMild, QuietElection DEF HandleAppendReply
<1>9. ASSUME NEW s \in Server, NEW c \in Command, AppendCommand(s, c) PROVE ElectionStep
  BY <1>1, <1>9 DEF AppendCommand
<1>10. ASSUME NEW s \in Server, NEW f \in Server, SendAppendEntries(s, f) PROVE ElectionStep
  BY <1>1, <1>10 DEF SendAppendEntries, Send, Granted
<1>11. CASE UNCHANGED vars
  BY <1>1, <1>11 DEF vars
<1> QED
  BY <1>2, <1>3, <1>4, <1>5, <1>6, <1>7, <1>8, <1>9, <1>10, <1>11 DEF Next

\* Who leads or has led a term stays so.
LEMMA LedStays ==
  ASSUME TypeInv, TypeInv', ElectionStep, NEW T \in Nat, NEW l \in Server, Led(l, T)
  PROVE  Led(l, T)'
<1>0. /\ \A v \in Server : current_term[v] \in Nat /\ current_term'[v] \in Nat
      /\ None # l
  BY RaftConstants DEF TypeInv, TypeOK, Term
<1>1. Settled(T, l)'
  <2>1. PICK Q \in SUBSET Server :
          /\ Majority(Q)
          /\ \A v \in Q :
            /\ current_term[v] > T \/ (current_term[v] = T /\ voted_for[v] = l)
            /\ \A m \in msgs : Granted(m) /\ m.from = v /\ m.term = T => m.to = l
            /\ \A c \in Server :
                 state[c] # "FOLLOWER" /\ current_term[c] = T /\ v \in votes[c] => c = l
    BY DEF Led, Settled
  <2>2. ASSUME NEW v \in Q
        PROVE  current_term'[v] > T \/ (current_term'[v] = T /\ voted_for'[v] = l)
    BY <2>1, <2>2, <1>0 DEF ElectionStep
  <2>3. ASSUME NEW v \in Q, NEW m \in msgs', Granted(m), m.from = v, m.term = T
        PROVE  m.to = l
    BY <2>1, <2>2, <2>3, <1>0 DEF ElectionStep
  <2>4. ASSUME NEW v \in Q, NEW c \in Server, state'[c] # "FOLLOWER", current_term'[c] = T,
               v \in votes'[c]
        PROVE  c = l
    <3>1. CASE v = c /\ voted_for'[c] = c
      BY <3>1, <2>2, <2>4, <1>0
    <3>2. CASE state[c] # "FOLLOWER" /\ current_term[c] = T /\ v \in votes[c]
      BY <3>2, <2>1
    <3>3. CASE \E m \in msgs : Granted(m) /\ m.from = v /\ m.to = c /\ m.term = T
      BY <3>3, <2>1
    <3> QED
      BY <3>1, <3>2, <3>3, <2>4 DEF ElectionStep
  <2> QED
    BY <2>1, <2>2, <2>3, <2>4 DEF Settled, Majority, Granted
<1>2. (current_term[l] > T \/ (current_term[l] = T /\ state[l] = "LEADER"))'
  BY <1>0 DEF Led, ElectionStep
<1> QED
  BY <1>1, <1>2 DEF Led

\* Whoever has a majority of a term's votes settles it, and is the one that
\* has led it if anybody has.
LEMMA ElectedSettles ==
  ASSUME TypeInv, IInv, NEW s \in Server, state[s] # "FOLLOWER", Majority(votes[s])
  PROVE  /\ Settled(current_term[s], s)
         /\ \A l \in Server : Led(l, current_term[s]) => l = s
<1>1. votes[s] \in SUBSET Server
  BY DEF TypeInv, TypeOK
<1>2. Settled(current_term[s], s)
  <2>1. ASSUME NEW v \in votes[s]
        PROVE  /\ current_term[v] > current_term[s]
                  \/ (current_term[v] = current_term[s] /\ voted_for[v] = s)
               /\ \A m \in msgs : Granted(m) /\ m.from = v /\ m.term = current_term[s] => m.to = s
               /\ \A c \in Server :
                    /\ state[c] # "FOLLOWER" /\ current_term[c] = current_term[s]
                    /\ v \in votes[c]
                    => c = s
    <3>1. /\ current_term[s] <= current_term[v]
          /\ current_term[s] = current_term[v] => voted_for[v] = s
      BY <1>1 DEF IInv, VotesRemembered
    <3>2. current_term[s] \in Nat /\ current_term[v] \in Nat
      BY <1>1 DEF IInv, VoteTypes
    <3> QED
      BY <1>1, <3>1, <3>2 DEF IInv, OneVotePerTerm
  <2> QED
    BY <1>1, <2>1 DEF Settled
<1>3. ASSUME NEW l \in Server, Led(l, current_term[s])
      PROVE  l = s
  <2>1. PICK Q \in SUBSET Server :
          /\ Majority(Q)
          /\ \A v \in Q : \A c \in Server :
               state[c] # "FOLLOWER" /\ current_term[c] = current_term[s] /\ v \in votes[c] => c = l
    BY <1>3 DEF Led, Settled
  <2>2. PICK v \in Q : v \in votes[s]
    BY <1>1, <2>1, MajoritiesIntersect
  <2> QED
    BY <2>1, <2>2
<1> QED
  BY <1>2, <1>3

\* A leader leads its term, and nobody else has.
LEMMA LeadersLead ==
  ASSUME TypeInv, IInv, NEW s \in Server, state[s] = "LEADER"
  PROVE  /\ Led(s, current_term[s])
         /\ \A l \in Server : Led(l, current_term[s]) => l = s
BY ElectedSettles DEF Led, IInv, LeadersElected
-----------------------------------------------------------------------------
\* The fragments of typed states are well formed.
LEMMA FragmentsFramed ==
  ASSUME TypeInv
  PROVE  /\ \A f \in Fragments : Framed(f)
         /\ \A l \in Log : Framed(Whole(l))
         /\ \A s \in Server : Framed(Whole(log[s])) /\ Whole(log[s]) \in Fragments
<1>1. \A l \in Log : Framed(Whole(l))
  BY LogIsSeq, RaftConstants DEF Framed, Whole, Index
<1>2. \A s \in Server : log[s] \in Log
  BY DEF TypeInv, TypeOK
<1>3. \A m \in Requests : Framed(m)
  BY Fields, RaftConstants DEF Framed, Requests, Index
<1> QED
  BY <1>1, <1>2, <1>3 DEF Fragments

\* A whole log as a fragment.
LEMMA WholeLog ==
  ASSUME NEW l \in Log
  PROVE  \A i \in Nat :
           /\ Covers(Whole(l), i) <=> i \in 1..Len(l)
           /\ At(Whole(l), i) = l[i]
           /\ TermAt(Whole(l), i) = IF i = 0 THEN 0 ELSE l[i].term
           /\ Whole(l).prev_log_index = 0 /\ Whole(l).prev_log_term = 0
<1>1. Len(l) \in Nat
  BY LogIsSeq, RaftConstants DEF Index
<1> QED
  BY <1>1 DEF Covers, At, TermAt, Whole

\* An entry of f was in a fragment before.
Drawn(f, i) == \E g \in Fragments : Covers(g, i) /\ At(g, i) = At(f, i)

\* A step that adds one fragment, which agrees with all there are and whose
\* entries were made by leaders, keeps the logs in agreement.
LEMMA OneNewFragment ==
  ASSUME LInv, TypeInv', ElectionStep, NEW f, Fragments' \subseteq Fragments \cup {f},
         \A g \in Fragments : Agree(f, g),
         \A i \in Nat : Covers(f, i) => \E l \in Server : Led(l, At(f, i).term),
         \A m \in Requests' : m \in Requests \/ \E s \in Server :
            state[s] = "LEADER" /\ m.from = s /\ m.term = current_term[s]
  PROVE  LogsAgree' /\ TermsLed'
<1>1. LogsAgree'
  <2> SUFFICES ASSUME NEW g \in Fragments', NEW h \in Fragments' PROVE Agree(g, h)
    BY DEF LogsAgree, Agree, Covers, At, TermAt
  <2>1. g \in Fragments /\ h \in Fragments => Agree(g, h)
    BY DEF LInv, LogsAgree
  <2> QED
    BY <2>1, AgreeEitherWay
<1>2. \A T \in Nat, l \in Server : Led(l, T) => Led(l, T)'
  BY LedStays DEF LInv
<1>3. ASSUME NEW g \in Fragments', NEW i \in Nat, Covers(g, i)
      PROVE  \E l \in Server : Led(l, At(g, i).term)'
  <2>1. PICK l \in Server : Led(l, At(g, i).term)
    BY <1>3 DEF LInv, TermsLed
  <2>2. At(g, i).term \in Nat
    <3>1. \A e \in Entry : e.term \in Nat
      BY RaftConstants DEF Entry, Term
    <3>2. g.entries \in Seq(Entry) /\ g.prev_log_index \in Nat
      <4>1. CASE g \in Requests'
        <5>1. g \in Message /\ g.type = "AppendEntries"
          BY <4>1 DEF Requests, TypeInv, TypeOK
        <5>2. g.entries \in Log /\ g.prev_log_index \in Index
          BY <5>1 DEF Message
        <5> QED
          BY <5>2, LogIsSeq, RaftConstants DEF Index
      <4>2. CASE \E s \in Server : g = Whole(log'[s])
        BY <4>2, LogIsSeq DEF TypeInv, TypeOK, Whole
      <4> QED
        BY <4>1, <4>2 DEF Fragments, Whole
    <3>3. i - g.prev_log_index \in 1..Len(g.entries)
      BY <3>2, <1>3 DEF Covers
    <3> QED
      BY <3>1, <3>2, <3>3, ElementOfSeq DEF At
  <2> QED
    BY <2>1, <2>2, <1>2
<1>4. ASSUME NEW m \in Requests'
      PROVE  Led(m.from, m.term)'
  <2>1. Led(m.from, m.term)
    BY <1>4, LeadersLead DEF LInv, TermsLed
  <2>2. m.from \in Server /\ m.term \in Nat
    <3>1. m \in Message
      BY <1>4 DEF Requests, TypeInv, TypeOK
    <3> QED
      BY <3>1, RaftConstants DEF Message, Term
  <2> QED
    BY <2>1, <2>2, <1>2
<1>5. TermsLed'
  BY <1>3, <1>4 DEF TermsLed, Covers, At
<1> QED
  BY <1>1, <1>5

\* What was in a fragment before was made by a leader.
LEMMA DrawnIsLed ==
  ASSUME LInv, NEW f, NEW i \in Nat, Drawn(f, i)
  PROVE  \E l \in Server : Led(l, At(f, i).term)
BY DEF LInv, TermsLed, Drawn

\* A server that goes on leading keeps at least its entries, and what is new
\* was in a fragment before or is its own.
LEMMA LeaderKeepsOwn ==
  ASSUME LInv, NEW f, Fragments' \subseteq Fragments \cup {f},
         \A s \in Server : state'[s] = "LEADER" =>
            /\ state[s] = "LEADER" /\ current_term'[s] = current_term[s]
            /\ Len(log[s]) \in Nat /\ Len(log'[s]) \in Nat /\ Len(log'[s]) >= Len(log[s])
            /\ \A i \in Nat : Covers(f, i) =>
                 Drawn(f, i) \/ i <= Len(log'[s]) \/ At(f, i).term # current_term[s]
  PROVE  LeaderHasOwn'
<1> SUFFICES ASSUME NEW s \in Server, state'[s] = "LEADER", NEW g \in Fragments', NEW i \in Nat,
                    Covers(g, i), At(g, i).term = current_term'[s]
             PROVE  i <= Len(log'[s])
  BY DEF LeaderHasOwn, Covers, At
<1>1. /\ state[s] = "LEADER" /\ current_term'[s] = current_term[s]
      /\ Len(log[s]) \in Nat /\ Len(log'[s]) \in Nat /\ Len(log'[s]) >= Len(log[s])
  OBVIOUS
<1>2. ASSUME NEW h \in Fragments, Covers(h, i), At(h, i) = At(g, i)
      PROVE  i <= Len(log'[s])
  <2>1. i <= Len(log[s])
    BY <1>1, <1>2 DEF LInv, LeaderHasOwn
  <2> QED
    BY <2>1, <1>1
<1>3. CASE g \in Fragments
  BY <1>2, <1>3
<1>4. CASE g = f
  BY <1>1, <1>2, <1>4 DEF Drawn
<1> QED
  BY <1>3, <1>4

\* A leader gets no request of its own term from another.
LEMMA NoRivalRequest ==
  ASSUME LInv, NEW s \in Server, state[s] = "LEADER", NEW m \in Requests,
         m.from # s, m.term = current_term[s]
  PROVE  FALSE
<1>1. Led(m.from, m.term) /\ m.from \in Server
  BY Fields DEF LInv, TermsLed, Requests
<1> QED
  BY <1>1, LeadersLead DEF LInv

\* A step that makes no fragment and no leader.
LEMMA QuietLogs ==
  ASSUME LInv, TypeInv', IInv', ElectionStep, log' = log, Requests' \subseteq Requests,
         \A s \in Server : state'[s] = "LEADER" =>
            state[s] = "LEADER" /\ current_term'[s] = current_term[s]
  PROVE  LInv'
<1>1. PICK f : f \in Fragments \/ Fragments = {}
  OBVIOUS
<1>2. Fragments' \subseteq Fragments
  BY DEF Fragments, Whole
<1>3. CASE Fragments = {}
  BY <1>2, <1>3 DEF LInv, LogsAgree, TermsLed, LeaderHasOwn, Fragments
<1>4. CASE f \in Fragments
  <2>1. /\ Fragments' \subseteq Fragments \cup {f} /\ \A g \in Fragments : Agree(f, g)
        /\ \A i \in Nat : Covers(f, i) => Drawn(f, i)
    BY <1>2, <1>4 DEF LInv, LogsAgree, Drawn
  <2>2. \A i \in Nat : Covers(f, i) => \E l \in Server : Led(l, At(f, i).term)
    BY <2>1, DrawnIsLed
  <2>3. LogsAgree' /\ TermsLed'
    BY <2>1, <2>2, OneNewFragment
  <2>4. \A s \in Server : Len(log[s]) \in Nat
    BY Values, RaftConstants DEF LInv, TypeInv, Index
  <2>5. LeaderHasOwn'
    BY <2>1, <2>4, LeaderKeepsOwn
  <2> QED
    BY <2>3, <2>5 DEF LInv
<1> QED
  BY <1>1, <1>3, <1>4

\* The entry a leader appends is the only one of its term at its index.
LEMMA AppendKeepsLogs ==
  ASSUME LInv, TypeInv', IInv', ElectionStep, NEW s \in Server, NEW c \in Command,
         AppendCommand(s, c)
  PROVE  LInv'
<1> DEFINE e == [term |-> current_term[s], command |-> c]
           f == Whole(Append(log[s], e))
<1>1. /\ log[s] \in Seq(Entry) /\ log[s] \in Log /\ Len(log[s]) \in Nat
      /\ \A t \in Server : Len(log[t]) \in Nat
      /\ e \in Entry /\ e.term = current_term[s]
      /\ \A t \in Server : current_term[t] \in Nat
  <2>1. \A t \in Server : /\ log[t] \in Seq(Entry) /\ log[t] \in Log /\ Len(log[t]) \in Nat
                          /\ current_term[t] \in Term /\ current_term[t] \in Nat
    BY Values, RaftConstants DEF LInv, TypeInv, Index, Term
  <2> QED
    BY <2>1 DEF Entry
<1>2. /\ state[s] = "LEADER" /\ UNCHANGED electionVars /\ msgs' = msgs
      /\ log' = [log EXCEPT ![s] = Append(log[s], e)]
  BY DEF AppendCommand, LInv, TypeInv, TypeOK
<1> HIDE DEF e
<1>3. /\ Append(log[s], e) \in Log
      /\ Len(Append(log[s], e)) = Len(log[s]) + 1
      /\ Append(log[s], e)[Len(log[s]) + 1] = e
      /\ \A i \in 1..Len(log[s]) : Append(log[s], e)[i] = log[s][i]
  <2>1. log'[s] = Append(log[s], e) /\ log'[s] \in Log
    BY <1>2 DEF LInv, TypeInv, TypeOK
  <2> QED
    BY <2>1, <1>1, AppendProperties
<1>4. Fragments' \subseteq Fragments \cup {f}
  BY <1>2 DEF Fragments, Requests, LInv, TypeInv, TypeOK
<1>5. \A g \in Fragments : Agree(f, g)
  <2>1. ASSUME NEW g \in Fragments PROVE Agree(f, g)
    <3>1. Framed(g) /\ Agree(Whole(log[s]), g)
      BY FragmentsFramed DEF LInv, LogsAgree
    <3>2. \A i \in Nat : Covers(g, i) /\ At(g, i).term = e.term => i <= Len(log[s])
      BY <1>1, <1>2 DEF LInv, LeaderHasOwn
    <3> QED
      BY <1>1, <3>1, <3>2, LongerAgrees
  <2> QED
    BY <2>1
<1>6. \A i \in Nat : Covers(f, i) =>
        \/ i \in 1..Len(log[s]) /\ Drawn(f, i)
        \/ i = Len(log[s]) + 1 /\ At(f, i) = e
  <2>1. ASSUME NEW i \in Nat, Covers(f, i)
        PROVE  \/ i \in 1..Len(log[s]) /\ Drawn(f, i)
               \/ i = Len(log[s]) + 1 /\ At(f, i) = e
    <3>1. i \in 1..(Len(log[s]) + 1) /\ At(f, i) = Append(log[s], e)[i]
      BY <1>3, <2>1, WholeLog
    <3>2. CASE i \in 1..Len(log[s])
      <4>1. /\ Whole(log[s]) \in Fragments /\ Covers(Whole(log[s]), i)
            /\ At(Whole(log[s]), i) = log[s][i]
        BY <3>2, <1>1, FragmentsFramed, WholeLog DEF LInv
      <4> QED
        BY <4>1, <3>1, <3>2, <1>3 DEF Drawn
    <3> QED
      BY <3>1, <3>2, <1>1, <1>3
  <2> QED
    BY <2>1
<1>7. \A i \in Nat : Covers(f, i) => \E l \in Server : Led(l, At(f, i).term)
  <2>1. Led(s, e.term)
    BY <1>1, <1>2, LeadersLead DEF LInv
  <2> HIDE DEF f
  <2> QED
    BY <1>6, <2>1, DrawnIsLed
<1>8. Requests' = Requests
  BY <1>2 DEF Requests
<1>9. LogsAgree' /\ TermsLed'
  <2> HIDE DEF f
  <2> QED
    BY <1>4, <1>5, <1>7, <1>8, OneNewFragment
<1>10. \A t \in Server : state'[t] = "LEADER" =>
         /\ state[t] = "LEADER" /\ current_term'[t] = current_term[t]
         /\ Len(log[t]) \in Nat /\ Len(log'[t]) \in Nat /\ Len(log'[t]) >= Len(log[t])
         /\ \A i \in Nat : Covers(f, i) =>
              Drawn(f, i) \/ i <= Len(log'[t]) \/ At(f, i).term # current_term[t]
  <2>1. log'[s] = Append(log[s], e) /\ \A t \in Server \ {s} : log'[t] = log[t]
    BY <1>2 DEF LInv, TypeInv, TypeOK
  <2>2. \A t \in Server : state[t] = "LEADER" /\ current_term[t] = current_term[s] => t = s
    BY <1>2, LeadersLead DEF LInv
  <2> HIDE DEF f
  <2> QED
    BY <1>1, <1>2, <1>3, <1>6, <2>1, <2>2 DEF electionVars
<1>11. LeaderHasOwn'
  <2> HIDE DEF f
  <2> QED
    BY <1>4, <1>10, LeaderKeepsOwn
<1> QED
  BY <1>9, <1>11 DEF LInv

\* A leader sends a part of its log.
LEMMA SendKeepsLogs ==
  ASSUME LInv, TypeInv', IInv', ElectionStep, NEW s \in Server, NEW r \in Server,
         SendAppendEntries(s, r)
  PROVE  LInv'
<1> DEFINE prev == next_index[s][r] - 1
           l == log[s]
           m == [type |-> "AppendEntries", from |-> s, term |-> current_term[s],
                 prev_log_index |-> prev,
                 prev_log_term |-> IF prev \in 1..Len(log[s]) THEN log[s][prev].term ELSE 0,
                 entries |-> SubSeq(log[s], prev + 1, Len(log[s])),
                 leader_commit |-> commit_index[s]]
<1>1. \A t \in Server : /\ log[t] \in Seq(Entry) /\ log[t] \in Log /\ Len(log[t]) \in Nat
                        /\ Len(log[t]) \in 0..Len(log[t])
  BY Values, RaftConstants DEF LInv, TypeInv, Index
<1>2. prev \in Nat /\ prev + 1 \in Nat /\ prev + 1 >= 1
  <2>1. next_index[s][r] \in 1..MaxLog+1
    BY DEF LInv, TypeInv, TypeOK
  <2> QED
    BY <2>1, RaftConstants
<1>3. /\ state[s] = "LEADER" /\ UNCHANGED electionVars /\ log' = log /\ msgs' = msgs \cup {m}
  BY DEF SendAppendEntries, Send, logVars
<1> HIDE DEF prev
<1>4. /\ Len(SubSeq(l, prev + 1, Len(l))) =
           IF prev + 1 <= Len(l) THEN Len(l) - (prev + 1) + 1 ELSE 0
      /\ \A k \in 1..(Len(l) - (prev + 1) + 1) :
           SubSeq(l, prev + 1, Len(l))[k] = l[prev + 1 + k - 1]
  BY <1>1, <1>2, PartOfLog
<1>5. /\ m.type = "AppendEntries" /\ m.prev_log_index = prev
      /\ m.from = s /\ m.term = current_term[s]
      /\ m.prev_log_term = (IF prev \in 1..Len(l) THEN l[prev].term ELSE 0)
      /\ m.entries = SubSeq(l, prev + 1, Len(l))
  OBVIOUS
<1> HIDE DEF m
<1>6. Framed(m)
  BY <1>1, <1>2, <1>4, <1>5 DEF Framed
<1>7. ASSUME NEW i \in Nat, Covers(m, i)
      PROVE  i \in 1..Len(l) /\ At(m, i) = l[i] /\ prev < Len(l) /\ prev < i
  <2> DEFINE k == i - prev
  <2>1. /\ prev + 1 <= Len(l) /\ k \in 1..(Len(l) - (prev + 1) + 1) /\ prev + 1 + k - 1 = i
        /\ i \in 1..Len(l) /\ prev < i
    BY <1>1, <1>2, <1>4, <1>5, <1>7 DEF Covers
  <2>2. At(m, i) = m.entries[k]
    BY <1>5 DEF At
  <2> HIDE DEF k
  <2> QED
    BY <2>1, <2>2, <1>1, <1>2, <1>4, <1>5
<1>8. Part(m, Whole(l))
  <2>1. ASSUME NEW i \in Nat, Covers(m, i)
        PROVE  /\ 0 <= prev
               /\ m.prev_log_term = TermAt(Whole(l), prev)
               /\ Covers(Whole(l), i) /\ At(m, i) = At(Whole(l), i)
    <3>1. TermAt(Whole(l), prev) = IF prev = 0 THEN 0 ELSE l[prev].term
      BY <1>1, <1>2, WholeLog
    <3>2. m.prev_log_term = TermAt(Whole(l), prev)
      BY <3>1, <1>1, <1>2, <1>5, <1>7, <2>1
    <3>3. Covers(Whole(l), i) /\ At(m, i) = At(Whole(l), i)
      BY <1>1, <1>7, <2>1, WholeLog
    <3> QED
      BY <1>2, <3>2, <3>3
  <2>2. Whole(l).prev_log_index = 0
    BY DEF Whole
  <2> HIDE DEF l
  <2> QED
    BY <2>1, <2>2, <1>5 DEF Part
<1>9. Whole(l) \in Fragments /\ Framed(Whole(l))
  BY FragmentsFramed DEF LInv
<1>10. \A g \in Fragments : Agree(m, g)
  <2>1. \A g \in Fragments : Framed(g) /\ Agree(Whole(l), g)
    BY <1>9, FragmentsFramed DEF LInv, LogsAgree
  <2> HIDE DEF l
  <2> QED
    BY <1>6, <1>8, <1>9, <2>1, PartAgrees
<1>11. \A i \in Nat : Covers(m, i) => Drawn(m, i)
  BY <1>8, <1>9 DEF Part, Drawn
<1>12. Fragments' \subseteq Fragments \cup {m}
  BY <1>3, <1>5 DEF Fragments, Requests
<1>13. LogsAgree' /\ TermsLed'
  <2>1. \A n \in Requests' : n \in Requests \/ \E t \in Server :
          state[t] = "LEADER" /\ n.from = t /\ n.term = current_term[t]
    BY <1>3, <1>5 DEF Requests
  <2>2. \A i \in Nat : Covers(m, i) => \E t \in Server : Led(t, At(m, i).term)
    BY <1>11, DrawnIsLed
  <2> QED
    BY <1>10, <1>12, <2>1, <2>2, OneNewFragment
<1>14. LeaderHasOwn'
  <2>1. \A t \in Server : state'[t] = "LEADER" =>
         /\ state[t] = "LEADER" /\ current_term'[t] = current_term[t]
         /\ Len(log[t]) \in Nat /\ Len(log'[t]) \in Nat /\ Len(log'[t]) >= Len(log[t])
         /\ \A i \in Nat : Covers(m, i) =>
              Drawn(m, i) \/ i <= Len(log'[t]) \/ At(m, i).term # current_term[t]
    BY <1>1, <1>3, <1>11 DEF electionVars
  <2> QED
    BY <1>12, <2>1, LeaderKeepsOwn
<1> QED
  BY <1>13, <1>14 DEF LInv

\* A follower takes what a leader sent, after what it has in common with it.
LEMMA EntriesKeepLogs ==
  ASSUME LInv, TypeInv', IInv', ElectionStep, NEW s \in Server, NEW m \in msgs,
         HandleAppendEntries(s, m)
  PROVE  LInv'
<1> DEFINE l == log[s]
           n == log'[s]
           prev == m.prev_log_index
<1>1. /\ m \in Requests /\ m.term \in Nat /\ m.from # s
      /\ prev \in Index /\ prev \in Nat /\ m.entries \in Log /\ Len(m.entries) \in Nat
      /\ prev + Len(m.entries) <= MaxLog
  BY Fields, RaftConstants DEF LInv, HandleAppendEntries, Requests, Index, Term
<1>2. \A t \in Server : /\ log[t] \in Log /\ Len(log[t]) \in Nat /\ current_term[t] \in Nat
                        /\ log'[t] \in Log /\ Len(log'[t]) \in Nat
  <2>1. \A t \in Server : log[t] \in Log /\ log'[t] \in Log /\ current_term[t] \in Term
    BY DEF LInv, TypeInv, TypeOK
  <2> QED
    BY <2>1, LogIsSeq, RaftConstants DEF Index, Term
<1>3. /\ \A t \in Server \ {s} :
           log'[t] = log[t] /\ state'[t] = state[t] /\ current_term'[t] = current_term[t]
      /\ state'[s] = "LEADER" => state[s] = "LEADER" /\ m.term <= current_term[s]
                                   /\ current_term'[s] = current_term[s]
      /\ n = IF Accepts(s, m) THEN Merge(l, m)
             ELSE IF m.term >= current_term[s] /\ prev <= Len(l) THEN SubSeq(l, 1, prev) ELSE l
  <2>1. n = IF Accepts(s, m) THEN Merge(l, m)
            ELSE IF m.term >= current_term[s] /\ prev <= Len(l) THEN SubSeq(l, 1, prev) ELSE l
    BY DEF HandleAppendEntries, LInv, TypeInv, TypeOK
  <2>2. \A t \in Server \ {s} :
           log'[t] = log[t] /\ state'[t] = state[t] /\ current_term'[t] = current_term[t]
    BY DEF HandleAppendEntries, LInv, TypeInv, TypeOK
  <2>3. state'[s] = "LEADER" => state[s] = "LEADER" /\ m.term <= current_term[s]
                                   /\ current_term'[s] = current_term[s]
    BY <1>1, <1>2 DEF HandleAppendEntries, LInv, TypeInv, TypeOK
  <2> QED
    BY <2>1, <2>2, <2>3
<1>4. Requests' = Requests
  BY DEF HandleAppendEntries, Send, Requests
<1>5. Fragments' \subseteq Fragments \cup {Whole(n)}
  BY <1>3, <1>4 DEF Fragments, Whole
<1>6. m.term < current_term[s] => n = l
  BY <1>1, <1>2, <1>3 DEF Accepts
<1>7. /\ Whole(l) \in Fragments /\ Framed(Whole(l)) /\ Framed(Whole(n)) /\ m \in Fragments
      /\ \A g \in Fragments : Framed(g)
  BY <1>1, <1>2, FragmentsFramed DEF LInv, Fragments
<1> HIDE DEF n
\* the two ways to a new log
<1>8. ASSUME n = l \/ (prev <= Len(l) /\ n = SubSeq(l, 1, prev))
      PROVE  /\ \A g \in Fragments : Agree(Whole(n), g)
             /\ \A i \in Nat : Covers(Whole(n), i) => Drawn(Whole(n), i)
  <2>1. /\ n \in Log /\ Len(n) \in Nat
        /\ \A i \in 1..Len(n) : i \in 1..Len(l) /\ n[i] = l[i]
    <3>1. CASE n = l
      BY <3>1, <1>2
    <3>2. CASE prev <= Len(l) /\ n = SubSeq(l, 1, prev)
      <4>1. prev \in 0..Len(l) /\ 1 \in Nat /\ 1 >= 1 /\ prev - 1 + 1 = prev /\ l \in Log
        BY <3>2, <1>1, <1>2
      <4>2. /\ SubSeq(l, 1, prev) \in Log
            /\ Len(SubSeq(l, 1, prev)) = IF 1 <= prev THEN prev - 1 + 1 ELSE 0
            /\ \A k \in 1..(prev - 1 + 1) : SubSeq(l, 1, prev)[k] = l[1 + k - 1]
        BY <4>1, PartOfLog
      <4>3. Len(n) = prev /\ \A k \in 1..prev : n[k] = l[1 + k - 1]
        BY <3>2, <4>1, <4>2
      <4> QED
        BY <3>2, <4>1, <4>2, <4>3
    <3> QED
      BY <1>8, <3>1, <3>2
  <2>2. \A i \in Nat : Covers(Whole(n), i) =>
          Covers(Whole(l), i) /\ At(Whole(n), i) = At(Whole(l), i)
    BY <2>1, <1>2, WholeLog
  <2>3. /\ Whole(n).prev_log_index = 0 /\ Whole(n).prev_log_term = 0
        /\ Whole(l).prev_log_index = 0 /\ TermAt(Whole(l), 0) = 0
    BY DEF Whole, TermAt
  <2> HIDE DEF l
  <2>4. Part(Whole(n), Whole(l))
    BY <2>2, <2>3 DEF Part
  <2>5. \A g \in Fragments : Agree(Whole(n), g)
    <3>1. ASSUME NEW g \in Fragments PROVE Agree(Whole(n), g)
      <4>1. Agree(Whole(l), g) /\ Framed(g)
        BY <1>7 DEF LInv, LogsAgree
      <4> QED
        BY <4>1, <1>7, <2>4, PartAgrees
    <3> QED
      BY <3>1
  <2> QED
    BY <2>2, <2>5, <1>7 DEF Drawn
<1>9. ASSUME Accepts(s, m), n # l
      PROVE  /\ \A g \in Fragments : Agree(Whole(n), g)
             /\ \A i \in Nat : Covers(Whole(n), i) => Drawn(Whole(n), i)
  <2>1. /\ n = Merge(l, m) /\ prev <= Len(l)
        /\ prev > 0 => l[prev].term = m.prev_log_term
    BY <1>1, <1>2, <1>3, <1>9 DEF Accepts, HasPrev
  <2>2. PICK k \in (prev + 1)..(prev + Len(m.entries)) :
          /\ n \in Log /\ Len(n) = prev + Len(m.entries)
          /\ \A i \in 1..(k - 1) : i <= Len(l) /\ n[i] = l[i]
          /\ \A i \in (prev + 1)..(k - 1) : l[i].term = m.entries[i - prev].term
          /\ \A i \in k..(prev + Len(m.entries)) : n[i] = m.entries[i - prev]
    <3>1. l \in Log /\ Merge(l, m) # l
      BY <1>2, <1>9, <2>1
    <3> HIDE DEF l
    <3> QED
      BY <1>1, <2>1, <3>1, MergeIs
  \* the entries it keeps after prev are those of the request
  <2>3. \A i \in Nat : Covers(m, i) => n[i] = At(m, i)
    <3>1. ASSUME NEW i \in Nat, Covers(m, i) PROVE n[i] = At(m, i)
      <4>1. i \in (prev + 1)..(prev + Len(m.entries)) /\ At(m, i) = m.entries[i - prev]
        BY <1>1, <3>1 DEF Covers, At
      <4>2. CASE k <= i
        BY <4>1, <4>2, <2>2, <1>1
      <4>3. CASE i < k
        <5>1. /\ i \in 1..(k - 1) /\ i \in (prev + 1)..(k - 1) /\ i \in 1..i
          BY <4>1, <4>3, <2>2, <1>1
        <5>2. i \in 1..Len(l) /\ n[i] = l[i] /\ l[i].term = At(m, i).term
          BY <5>1, <4>1, <2>2, <1>2
        <5>3. Covers(Whole(l), i) /\ At(Whole(l), i) = l[i]
          BY <5>2, <1>2, WholeLog
        <5>4. Agree(Whole(l), m)
          BY <1>7 DEF LInv, LogsAgree
        <5> HIDE DEF l
        <5>5. At(Whole(l), i) = At(m, i)
          BY <5>1, <5>2, <5>3, <5>4, <3>1 DEF Agree
        <5> QED
          BY <5>2, <5>3, <5>5
      <4> QED
        BY <4>1, <4>2, <4>3, <2>2, <1>1
    <3> QED
      BY <3>1
  <2>4. \A i \in 1..prev : n[i] = l[i] /\ i \in 1..Len(l)
    BY <1>1, <1>2, <2>1, <2>2
  <2>5. \A g \in Fragments : Agree(Whole(n), g)
    <3>1. ASSUME NEW g \in Fragments PROVE Agree(Whole(n), g)
      <4>1. Agree(Whole(l), g) /\ Agree(m, g) /\ Framed(g) /\ Framed(m) /\ Len(l) \in Nat
        BY <1>2, <1>7 DEF LInv, LogsAgree
      <4> HIDE DEF l
      <4> QED
        BY <4>1, <2>1, <2>2, <2>3, <2>4, JoinAgrees
    <3> QED
      BY <3>1
  <2>6. ASSUME NEW i \in Nat, Covers(Whole(n), i)
        PROVE  Drawn(Whole(n), i)
    <3>1. i \in 1..(prev + Len(m.entries)) /\ At(Whole(n), i) = n[i]
      BY <2>2, <2>6, WholeLog
    <3>2. CASE i <= prev
      <4>1. n[i] = l[i] /\ i \in 1..Len(l)
        BY <3>1, <3>2, <2>4, <1>1
      <4>2. Covers(Whole(l), i) /\ At(Whole(l), i) = l[i]
        BY <4>1, <1>2, WholeLog
      <4> HIDE DEF l
      <4> QED
        BY <4>1, <4>2, <3>1, <1>7 DEF Drawn
    <3>3. CASE prev < i
      <4>1. Covers(m, i)
        BY <3>1, <3>3, <1>1 DEF Covers
      <4> QED
        BY <4>1, <2>3, <3>1, <1>7 DEF Drawn
    <3> QED
      BY <3>2, <3>3, <1>1
  <2> QED
    BY <2>5, <2>6
<1>10. /\ \A g \in Fragments : Agree(Whole(n), g)
       /\ \A i \in Nat : Covers(Whole(n), i) => Drawn(Whole(n), i)
  BY <1>3, <1>8, <1>9
<1>11. LogsAgree' /\ TermsLed'
  <2>1. \A i \in Nat : Covers(Whole(n), i) => \E t \in Server : Led(t, At(Whole(n), i).term)
    BY <1>10, DrawnIsLed
  <2> QED
    BY <1>4, <1>5, <1>10, <2>1, OneNewFragment
<1>12. state'[s] = "LEADER" => n = l
  BY <1>1, <1>2, <1>3, <1>6, NoRivalRequest
<1>13. LeaderHasOwn'
  <2>1. \A t \in Server : state'[t] = "LEADER" =>
         /\ state[t] = "LEADER" /\ current_term'[t] = current_term[t]
         /\ Len(log[t]) \in Nat /\ Len(log'[t]) \in Nat /\ Len(log'[t]) >= Len(log[t])
         /\ \A i \in Nat : Covers(Whole(n), i) =>
              \/ Drawn(Whole(n), i) \/ i <= Len(log'[t])
              \/ At(Whole(n), i).term # current_term[t]
    BY <1>2, <1>3, <1>10, <1>12 DEF n
  <2> QED
    BY <1>5, <2>1, LeaderKeepsOwn
<1> QED
  BY <1>11, <1>13 DEF LInv

\* A new leader finds no entry of its term anywhere.
LEMMA LeaderKeepsLogs ==
  ASSUME LInv, TypeInv', IInv', ElectionStep, NEW s \in Server, BecomeLeader(s)
  PROVE  LInv'
<1>1. /\ state[s] = "CANDIDATE" /\ Majority(votes[s]) /\ UNCHANGED <<current_term, log, msgs>>
      /\ \A t \in Server \ {s} : state'[t] = state[t]
  BY DEF BecomeLeader, logVars, LInv, TypeInv, TypeOK
<1>2. Fragments' = Fragments /\ Requests' = Requests
  BY <1>1 DEF Fragments, Requests
<1>3. ASSUME NEW f \in Fragments, NEW i \in Nat, Covers(f, i), At(f, i).term = current_term[s]
      PROVE  FALSE
  <2>1. PICK l \in Server : Led(l, current_term[s])
    BY <1>3 DEF LInv, TermsLed
  <2>2. l = s
    BY <2>1, <1>1, ElectedSettles DEF LInv
  <2>3. current_term[s] \in Nat
    BY RaftConstants DEF LInv, TypeInv, TypeOK, Term
  <2> QED
    BY <2>1, <2>2, <2>3, <1>1 DEF Led
<1>4. LeaderHasOwn'
  <2> SUFFICES ASSUME NEW t \in Server, state'[t] = "LEADER", NEW f \in Fragments, NEW i \in Nat,
                      Covers(f, i), At(f, i).term = current_term[t]
               PROVE  i <= Len(log[t])
    BY <1>1, <1>2 DEF LeaderHasOwn, Covers, At
  <2> QED
    BY <1>1, <1>3 DEF LInv, LeaderHasOwn
<1>5. Whole(log[s]) \in Fragments
  BY DEF Fragments
<1>6. LogsAgree' /\ TermsLed'
  <2> DEFINE f == Whole(log[s])
  <2>1. /\ Fragments' \subseteq Fragments \cup {f} /\ \A g \in Fragments : Agree(f, g)
        /\ \A i \in Nat : Covers(f, i) => \E l \in Server : Led(l, At(f, i).term)
        /\ \A m \in Requests' : m \in Requests
    BY <1>2, <1>5 DEF LInv, LogsAgree, TermsLed
  <2> HIDE DEF f
  <2> QED
    BY <2>1, OneNewFragment
<1> QED
  BY <1>4, <1>6 DEF LInv

\* Every step keeps the invariant.
LEMMA StepKeepsLogs == LInv /\ [Next]_vars => LInv'
<1> SUFFICES ASSUME LInv, [Next]_vars PROVE LInv'
  OBVIOUS
<1>0. TypeInv' /\ IInv' /\ ElectionStep
  BY StepKeepsTypes, StepKeepsInv, ElectionSteps DEF LInv
<1>1. ASSUME log' = log, Requests' \subseteq Requests,
             \A v \in Server : state'[v] = "LEADER" =>
               state[v] = "LEADER" /\ current_term'[v] = current_term[v]
      PROVE  LInv'
  BY <1>0, <1>1, QuietLogs
<1>2. ASSUME NEW m \in msgs, Lose(m) PROVE LInv'
  BY <1>1, <1>2 DEF Lose, Requests, electionVars, logVars
<1>3. ASSUME NEW s \in Server, ElectionTimeout(s) PROVE LInv'
  <2>1. log' = log /\ Requests' \subseteq Requests
    BY <1>3 DEF ElectionTimeout, Send, Requests, logVars
  <2>2. \A v \in Server : state'[v] = "LEADER" =>
               state[v] = "LEADER" /\ current_term'[v] = current_term[v]
    BY <1>3 DEF ElectionTimeout, LInv, TypeInv, TypeOK
  <2> QED
    BY <1>1, <2>1, <2>2
<1>4. ASSUME NEW s \in Server, NEW m \in msgs, HandleRequestVote(s, m) PROVE LInv'
  <2>1. log' = log /\ Requests' \subseteq Requests
    BY <1>4 DEF HandleRequestVote, Send, Requests, logVars
  <2>2. \A v \in Server : state'[v] = "LEADER" =>
               state[v] = "LEADER" /\ current_term'[v] = current_term[v]
    BY <1>4 DEF HandleRequestVote, LInv, TypeInv, TypeOK
  <2> QED
    BY <1>1, <2>1, <2>2
<1>5. ASSUME NEW s \in Server, NEW t \in Term, AdoptTerm(s, t), log' = log, msgs' = msgs
      PROVE  LInv'
  <2>1. \A v \in Server : state'[v] = "LEADER" =>
               state[v] = "LEADER" /\ current_term'[v] = current_term[v]
    BY <1>5 DEF AdoptTerm, LInv, TypeInv, TypeOK
  <2> QED
    BY <1>1, <1>5, <2>1 DEF Requests
<1>6. ASSUME NEW s \in Server, NEW m \in msgs, HandleVote(s, m) \/ HandleAppendReply(s, m)
      PROVE  LInv'
  BY <1>5, <1>6, Fields DEF HandleVote, HandleAppendReply, logVars, LInv
<1>7. CASE UNCHANGED vars
  BY <1>1, <1>7 DEF vars, electionVars, logVars, Requests
<1> QED
  BY <1>0, <1>2, <1>3, <1>4, <1>6, <1>7, AppendKeepsLogs, SendKeepsLogs, EntriesKeepLogs,
     LeaderKeepsLogs DEF Next

\* All logs are empty and no request was sent.
LEMMA InitHasLogs == Init => LInv
<1> SUFFICES ASSUME Init PROVE LInv
  OBVIOUS
<1>1. TypeInv /\ IInv
  BY InitHasTypes, InitHasInv
<1>2. \A f \in Fragments : f = Whole(<<>>)
  BY DEF Init, Fragments, Requests
<1>3. \A i \in Nat : ~Covers(Whole(<<>>), i)
  BY DEF Covers, Whole
<1>4. LogsAgree
  BY <1>2, AgreeEitherWay DEF LogsAgree
<1>5. TermsLed /\ LeaderHasOwn
  BY <1>2, <1>3 DEF TermsLed, LeaderHasOwn, Init, Requests
<1> QED
  BY <1>1, <1>4, <1>5 DEF LInv

\* All logs and all requests in the network agree with each other, every entry
\* was made by the one leader of its term, and no one has more of a leader's
\* entries than the leader, in every reachable state.
THEOREM LogsStayMatched == Spec => []LInv
BY InitHasLogs, StepKeepsLogs, PTL DEF Spec

\* Log Matching (raft_core.h): logs that hold an entry of the same index and term
\* are the same up to it, whatever raft_handle_append_entries has cut, kept and
\* copied, and in whatever order requests arrived.
THEOREM LogsMatch == Spec => []LogMatching
<1>1. LInv => LogMatching
  <2> SUFFICES ASSUME LInv, NEW s \in Server, NEW t \in Server,
                      NEW i \in 1..Smaller(Len(log[s]), Len(log[t])),
                      log[s][i].term = log[t][i].term
               PROVE  SubSeq(log[s], 1, i) = SubSeq(log[t], 1, i)
    BY DEF LogMatching
  <2>1. \A r \in {s, t} : /\ log[r] \in Log /\ Len(log[r]) \in Nat
                          /\ i \in 1..Len(log[r]) /\ i \in 0..Len(log[r])
    BY Values, RaftConstants DEF LInv, TypeInv, Index, Smaller
  <2>2. /\ Covers(Whole(log[s]), i) /\ Covers(Whole(log[t]), i)
        /\ At(Whole(log[s]), i).term = At(Whole(log[t]), i).term
    BY <2>1, WholeLog
  <2>3. \A j \in 1..i : log[s][j] = log[t][j]
    <3>1. ASSUME NEW j \in 1..i PROVE log[s][j] = log[t][j]
      <4>1. \A r \in {s, t} :
              j \in Nat /\ Covers(Whole(log[r]), j) /\ At(Whole(log[r]), j) = log[r][j]
        BY <2>1, WholeLog
      <4>2. Agree(Whole(log[s]), Whole(log[t]))
        BY FragmentsFramed DEF LInv, LogsAgree
      <4>3. i \in Nat
        BY <2>1
      <4> QED
        BY <4>1, <4>2, <4>3, <2>2 DEF Agree
    <3> QED
      BY <3>1
  <2>4. \A r \in {s, t} : /\ SubSeq(log[r], 1, i) \in Seq(Entry)
                          /\ Len(SubSeq(log[r], 1, i)) = i
                          /\ \A k \in 1..i : SubSeq(log[r], 1, i)[k] = log[r][k]
    <3>1. ASSUME NEW r \in {s, t}
          PROVE  /\ SubSeq(log[r], 1, i) \in Seq(Entry)
                 /\ Len(SubSeq(log[r], 1, i)) = i
                 /\ \A k \in 1..i : SubSeq(log[r], 1, i)[k] = log[r][k]
      <4>1. log[r] \in Log /\ i \in 0..Len(log[r]) /\ i \in 1..Len(log[r]) /\ 1 \in Nat /\ 1 >= 1
        BY <2>1
      <4>2. /\ SubSeq(log[r], 1, i) \in Log
            /\ Len(SubSeq(log[r], 1, i)) = IF 1 <= i THEN i - 1 + 1 ELSE 0
            /\ \A k \in 1..(i - 1 + 1) : SubSeq(log[r], 1, i)[k] = log[r][1 + k - 1]
        BY <4>1, PartOfLog
      <4> QED
        BY <4>1, <4>2, LogIsSeq
    <3> QED
      BY <3>1
  <2> QED
    BY <2>3, <2>4, SeqEqual
<1> QED
  BY <1>1, LogsStayMatched, PTL

\* Leader Append-Only: no request makes a leader cut or change its log, since none
\* of its own term can come from another server.
THEOREM LeadersAppendOnly == Spec => LeaderAppendOnly
<1> DEFINE Grows == \A s \in Server :
       state[s] = "LEADER" /\ state'[s] = "LEADER" /\ current_term'[s] = current_term[s]
         => /\ Len(log'[s]) >= Len(log[s])
            /\ SubSeq(log'[s], 1, Len(log[s])) = log[s]
<1>1. ASSUME LInv, [Next]_vars PROVE Grows
  <2> SUFFICES ASSUME NEW s \in Server, state[s] = "LEADER", state'[s] = "LEADER",
                      current_term'[s] = current_term[s]
               PROVE  /\ Len(log'[s]) >= Len(log[s])
                      /\ SubSeq(log'[s], 1, Len(log[s])) = log[s]
    OBVIOUS
  <2>1. log[s] \in Log /\ log[s] \in Seq(Entry) /\ Len(log[s]) \in Nat
    BY <1>1, Values, RaftConstants DEF LInv, TypeInv, Index
  <2>2. CASE log'[s] = log[s]
    <3>1. SubSeq(log[s], 1, Len(log[s])) = log[s]
      BY <2>1, SubSeqFull
    <3> QED
      BY <2>1, <2>2, <3>1
  <2>3. CASE \E c \in Command :
               log'[s] = Append(log[s], [term |-> current_term[s], command |-> c])
    <3>1. PICK e \in Entry : log'[s] = Append(log[s], e)
      <4>1. current_term[s] \in Term
        BY <1>1 DEF LInv, TypeInv, TypeOK
      <4> QED
        BY <2>3, <4>1 DEF Entry
    <3>2. /\ Len(log'[s]) = Len(log[s]) + 1 /\ log'[s] \in Seq(Entry)
          /\ \A i \in 1..Len(log[s]) : log'[s][i] = log[s][i]
      BY <3>1, <2>1, AppendProperties
    <3>3. /\ SubSeq(log'[s], 1, Len(log[s])) \in Seq(Entry)
          /\ Len(SubSeq(log'[s], 1, Len(log[s]))) = Len(log[s])
          /\ \A i \in 1..Len(log[s]) : SubSeq(log'[s], 1, Len(log[s]))[i] = log'[s][i]
      <4> DEFINE n == Len(log[s])
      <4>1. n \in Nat /\ 1 \in Int /\ n \in Int /\ \A i \in 1..n : log'[s][i] \in Entry
        BY <2>1, <3>2, ElementOfSeq
      <4> HIDE DEF n
      <4>2. /\ SubSeq(log'[s], 1, n) \in Seq(Entry)
            /\ Len(SubSeq(log'[s], 1, n)) = IF 1 <= n THEN n - 1 + 1 ELSE 0
            /\ \A i \in 1..(n - 1 + 1) : SubSeq(log'[s], 1, n)[i] = log'[s][1 + i - 1]
        BY <4>1, SubSeqProperties
      <4>3. /\ Len(SubSeq(log'[s], 1, n)) = n
            /\ \A i \in 1..n : SubSeq(log'[s], 1, n)[i] = log'[s][i]
        BY <4>1, <4>2
      <4> QED
        BY <4>2, <4>3 DEF n
    <3>4. SubSeq(log'[s], 1, Len(log[s])) = log[s]
      BY <2>1, <3>2, <3>3, SeqEqual
    <3> QED
      BY <2>1, <3>2, <3>4
  <2>4. \/ log'[s] = log[s]
        \/ \E c \in Command : log'[s] = Append(log[s], [term |-> current_term[s], command |-> c])
    <3>1. ASSUME NEW t \in Server, NEW c \in Command, AppendCommand(t, c)
          PROVE  \/ log'[s] = log[s]
                 \/ log'[s] = Append(log[s], [term |-> current_term[s], command |-> c])
      BY <1>1, <3>1 DEF AppendCommand, LInv, TypeInv, TypeOK
    <3>2. ASSUME NEW t \in Server, NEW m \in msgs, HandleAppendEntries(t, m)
          PROVE  log'[s] = log[s]
      <4>1. CASE t # s
        BY <1>1, <3>2, <4>1 DEF HandleAppendEntries, LInv, TypeInv, TypeOK
      <4>2. CASE t = s
        <5>1. /\ m \in Requests /\ m.from # s /\ m.term \in Nat /\ current_term[s] \in Nat
          BY <1>1, <3>2, <4>2, Fields, RaftConstants
             DEF HandleAppendEntries, Requests, LInv, TypeInv, TypeOK, Term
        <5>2. ~(m.term > current_term[s])
          BY <1>1, <3>2, <4>2, <5>1 DEF HandleAppendEntries, LInv, TypeInv, TypeOK
        <5>3. m.term # current_term[s]
          BY <1>1, <5>1, NoRivalRequest
        <5> QED
          BY <1>1, <3>2, <4>2, <5>1, <5>2, <5>3
             DEF HandleAppendEntries, Accepts, LInv, TypeInv, TypeOK
      <4> QED
        BY <4>1, <4>2
    <3>3. CASE UNCHANGED log
      BY <3>3
    <3> QED
      BY <1>1, <3>1, <3>2, <3>3
         DEF Next, Lose, ElectionTimeout, BecomeLeader, HandleRequestVote, HandleVote,
             HandleAppendReply, SendAppendEntries, vars, logVars
  <2> QED
    BY <2>2, <2>3, <2>4
<1>2. LInv /\ [Next]_vars => [Grows]_vars
  BY <1>1
<1> HIDE DEF Grows
<1>3. Spec => [][Grows]_vars
  BY <1>2, LogsStayMatched, PTL DEF Spec
<1> QED
  BY <1>3 DEF Grows, LeaderAppendOnly
=============================================================================
