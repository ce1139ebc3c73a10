-------------------------------- MODULE CftRaft --------------------------------
(***************************************************************************)
(* raft.c of mini-consensus-fault-tolerance: servers that call each        *)
(* other's handlers directly.  An election or a command is one call, which *)
(* visits the other servers in the order of their ids and gives up at the  *)
(* first one whose term is higher; callers interleave whole calls.         *)
(***************************************************************************)
EXTENDS Integers, Sequences, FiniteSets

CONSTANTS Server,    \* server ids, 0 .. num_servers - 1
          Command,
          MaxTerm,   \* bound: no server times out in this term
          MaxLog     \* bound: no command is appended to a log of this length

ASSUME CftRaftConstants ==
  /\ IsFiniteSet(Server) /\ Server = 0 .. Cardinality(Server) - 1
  /\ MaxTerm \in Nat /\ MaxLog \in Nat

None == -1

VARIABLES state, current_term, voted_for, log, commit_index, last_applied,
          next_index, match_index,
          elected      \* history: the server and term of every election won

vars == <<state, current_term, voted_for, log, commit_index, last_applied,
          next_index, match_index, elected>>
logVars == <<log, commit_index, last_applied>>

Entry == [term : 0 .. MaxTerm, command : Command]

TypeOK ==
  /\ state \in [Server -> {"FOLLOWER", "CANDIDATE", "LEADER"}]
  /\ current_term \in [Server -> 0 .. MaxTerm]
  /\ voted_for \in [Server -> Server \cup {None}]
  /\ \A s \in Server : log[s] \in Seq(Entry) /\ Len(log[s]) <= MaxLog
  /\ commit_index \in [Server -> 0 .. MaxLog]
  /\ last_applied \in [Server -> 0 .. MaxLog]
  /\ next_index \in [Server -> [Server -> 0 .. MaxLog + 1]]
  /\ match_index \in [Server -> [Server -> 0 .. MaxLog]]
  /\ elected \subseteq Server \X (1 .. MaxTerm)

\* raft_cluster_init: calloc leaves next_index and match_index 0.
Init ==
  /\ state = [s \in Server |-> "FOLLOWER"]
  /\ current_term = [s \in Server |-> 0]
  /\ voted_for = [s \in Server |-> None]
  /\ log = [s \in Server |-> <<>>]
  /\ commit_index = [s \in Server |-> 0]
  /\ last_applied = [s \in Server |-> 0]
  /\ next_index = [s \in Server |-> [t \in Server |-> 0]]
  /\ match_index = [s \in Server |-> [t \in Server |-> 0]]
  /\ elected = {}

Majority(S) == 2 * Cardinality(S) > Cardinality(Server)
LastTerm(s) == IF log[s] = <<>> THEN 0 ELSE log[s][Len(log[s])].term

\* The servers with a higher term than s: a call of s stops at the first of them.
Ahead(s) == {p \in Server : current_term[p] > current_term[s]}
Contacted(s) == {p \in Server \ {s} : \A a \in Ahead(s) : p < a}
FirstAhead(s) == CHOOSE a \in Ahead(s) : \A b \in Ahead(s) : a <= b

\* What the caller does when a timer of a server that does not lead runs out.
Timeout(s) ==
  /\ state[s] # "LEADER" /\ current_term[s] < MaxTerm
  /\ state' = [state EXCEPT ![s] = "CANDIDATE"]
  /\ current_term' = [current_term EXCEPT ![s] = @ + 1]
  /\ voted_for' = [voted_for EXCEPT ![s] = s]
  /\ UNCHANGED <<logVars, next_index, match_index, elected>>

\* The candidate's log is at least as up to date as p's.
LogOk(c, p) ==
  \/ LastTerm(c) > LastTerm(p)
  \/ LastTerm(c) = LastTerm(p) /\ Len(log[c]) >= Len(log[p])

\* mutant: the logs are not compared
GrantsBlindly(c, p) ==
  current_term[p] < current_term[c] \/ voted_for[p] \in {None, c}

\* raft_handle_request_vote at a server p whose term is not higher.
Grants(c, p) ==
  /\ current_term[p] < current_term[c] \/ voted_for[p] \in {None, c}
  /\ LogOk(c, p)

\* The election is won: a majority granted, and no server stopped it.
WonByVotes(c, granting) == Majority(granting \cup {c})  \* mutant: not stopped
Won(c, granting) == Ahead(c) = {} /\ Majority(granting \cup {c})

MayStandUnasked(c) == state[c] # "LEADER"     \* mutant: without a timeout
MayStand(c) == state[c] = "CANDIDATE"

\* raft_start_election.
StartElection(c) ==
  LET granting == {p \in Contacted(c) : Grants(c, p)}
      adopting == {p \in Contacted(c) : current_term[p] < current_term[c]}
  IN
  /\ MayStand(c)
  /\ current_term' = [p \in Server |->
       IF p \in adopting THEN current_term[c]
       ELSE IF p = c /\ Ahead(c) # {} THEN current_term[FirstAhead(c)] ELSE current_term[p]]
  /\ voted_for' = [p \in Server |->
       IF p \in granting THEN c
       ELSE IF p \in adopting \/ (p = c /\ Ahead(c) # {}) THEN None ELSE voted_for[p]]
  /\ state' = [p \in Server |->
       IF p = c /\ Won(c, granting) THEN "LEADER"
       ELSE IF p \in adopting \/ (p = c /\ Ahead(c) # {}) THEN "FOLLOWER" ELSE state[p]]
  /\ IF Won(c, granting)
     THEN /\ next_index' = [next_index EXCEPT ![c] = [p \in Server |-> Len(log[c]) + 1]]
          /\ match_index' = [match_index EXCEPT ![c] = [p \in Server |-> 0]]
          /\ elected' = elected \cup {<<c, current_term[c]>>}
     ELSE UNCHANGED <<next_index, match_index, elected>>
  /\ UNCHANGED logVars

HasPrevIndex(l, sent, prev) == prev <= Len(l)     \* mutant: of any term

\* The entry before the ones sent: the follower's log l has it.
HasPrev(l, sent, prev) ==
  prev > 0 => prev <= Len(l) /\ l[prev].term = sent[prev].term

\* What raft_handle_append_entries makes of the log l when the leader's log is
\* sent and its entries after prev are: from the first entry that is missing or
\* of another term on, the leader's; and without the entry before, l is cut
\* there if its term is another.
Replicated(l, sent, prev) ==
  LET differ == {i \in prev + 1 .. Len(sent) : i > Len(l) \/ l[i].term # sent[i].term}
      first == CHOOSE i \in differ : \A j \in differ : i <= j
  IN CASE ~HasPrev(l, sent, prev) -> IF prev <= Len(l) THEN SubSeq(l, 1, prev - 1) ELSE l
       [] HasPrev(l, sent, prev) /\ differ = {} -> l
       [] OTHER -> SubSeq(l, 1, first - 1) \o SubSeq(sent, first, Len(sent))

Smaller(i, j) == IF i < j THEN i ELSE j

\* raft_append_command.  A leader that meets a higher term steps down in its own
\* term and forgets its vote.
AppendCommand(s, cmd) ==
  LET sent == Append(log[s], [term |-> current_term[s], command |-> cmd])
      prev(f) == next_index[s][f] - 1
      taking == {f \in Contacted(s) : HasPrev(log[f], sent, prev(f))}
      newLog(f) == Replicated(log[f], sent, prev(f))
  IN
  /\ state[s] = "LEADER" /\ Len(log[s]) < MaxLog
  /\ log' = [f \in Server |-> IF f = s THEN sent
                              ELSE IF f \in Contacted(s) THEN newLog(f) ELSE log[f]]
  /\ current_term' = [f \in Server |->
       IF f \in Contacted(s) THEN current_term[s] ELSE current_term[f]]
  /\ state' = [f \in Server |->
       IF f \in Contacted(s) \/ (f = s /\ Ahead(s) # {}) THEN "FOLLOWER" ELSE state[f]]
  /\ voted_for' = [voted_for EXCEPT ![s] = IF Ahead(s) # {} THEN None ELSE @]
  /\ commit_index' = [f \in Server |->
       IF f \in taking /\ commit_index[s] > commit_index[f]
       THEN Smaller(commit_index[s], Len(newLog(f))) ELSE commit_index[f]]
  /\ match_index' = [match_index EXCEPT ![s] = [f \in Server |->
       IF f \in taking \cup {s} THEN Len(sent) ELSE match_index[s][f]]]
  /\ next_index' = [next_index EXCEPT ![s] = [f \in Server |->
       IF f \in taking \cup {s} THEN Len(sent) + 1
       ELSE IF f \in Contacted(s) /\ prev(f) > 0 THEN prev(f) ELSE next_index[s][f]]]
  /\ UNCHANGED <<last_applied, elected>>

\* The entries of its own term that the leader knows on a majority.
Committable(s) ==
  {n \in commit_index[s] + 1 .. Len(log[s]) :
     /\ log[s][n].term = current_term[s]
     /\ Majority({t \in Server : match_index[s][t] >= n})}

\* raft_advance_commit.
AdvanceCommit(s) ==
  /\ state[s] = "LEADER"
  /\ \E n \in Committable(s) :
       /\ \A m \in Committable(s) : m <= n
       /\ commit_index' = [commit_index EXCEPT ![s] = n]
  /\ UNCHANGED <<state, current_term, voted_for, log, last_applied,
                 next_index, match_index, elected>>

\* raft_apply_committed.
ApplyCommitted(s) ==
  /\ last_applied[s] < commit_index[s]
  /\ last_applied' = [last_applied EXCEPT ![s] = commit_index[s]]
  /\ UNCHANGED <<state, current_term, voted_for, log, commit_index,
                 next_index, match_index, elected>>

Next ==
  \E s \in Server :
    \/ Timeout(s) \/ StartElection(s)
    \/ \E cmd \in Command : AppendCommand(s, cmd)
    \/ AdvanceCommit(s) \/ ApplyCommitted(s)

Spec == Init /\ [][Next]_vars
--------------------------------------------------------------------------------
\* There is never more than one leader, whatever the terms, and no term has had
\* two: although a leader that steps down stays in its term and forgets its vote
\* there, nobody else is elected in that term any more.
ElectionSafety ==
  /\ \A s, t \in Server : state[s] = "LEADER" /\ state[t] = "LEADER" => s = t
  /\ \A e, f \in elected : e[2] = f[2] => e[1] = f[1]

\* raft_verify_leader_completeness: what a leader regards as committed is in its
\* log, and a majority's logs have an entry of that term there.
LeaderCompleteness ==
  \A s \in Server : state[s] = "LEADER" =>
    \A i \in 1 .. commit_index[s] :
      /\ i <= Len(log[s])
      /\ Majority({t \in Server : i <= Len(log[t]) /\ log[t][i].term = log[s][i].term})

\* raft_verify_state_machine_safety, and that what it reads is there: applied
\* entries are still in the log, and the same everywhere.
StateMachineSafety ==
  \A s \in Server :
    /\ last_applied[s] <= Len(log[s])
    /\ \A t \in Server : \A i \in 1 .. Smaller(last_applied[s], last_applied[t]) :
         log[s][i] = log[t][i]

LogsSurvive == LeaderCompleteness /\ StateMachineSafety
================================================================================
