------------------------------- MODULE RaftRpc -------------------------------
(***************************************************************************)
(* The Raft handlers of raft_leader_election.c and raft_log_replication.c  *)
(* over a network that loses, repeats, delays and reorders requests and    *)
(* replies; any server times out at any moment (raft_tick).                *)
(*                                                                         *)
(* "The caller tracks the vote count": it counts each server once, and     *)
(* only replies of the candidate's current term.  An AppendEntries request *)
(* names no receiver, and raft_simulate_cluster delivers it to everyone.   *)
(***************************************************************************)
EXTENDS Integers, Sequences, FiniteSets

CONSTANTS Server, Command,
          None,         \* voted_for = MAX_NODES
          MaxTerm,      \* bound: no election starts in this term
          MaxLog,       \* MAX_LOG_ENTRIES
          MaxMessages   \* bound: the messages the network holds at once
ASSUME RaftConstants ==
  /\ IsFiniteSet(Server) /\ None \notin Server
  /\ MaxTerm \in Nat /\ MaxLog \in Nat /\ MaxMessages \in Nat

VARIABLES current_term, state, voted_for, log, commit_index,  \* persistent
          next_index, match_index,                           \* volatile_
          votes,       \* the caller's count: who granted this candidacy
          msgs         \* in the network; receiving does not remove one, Lose does
electionVars == <<current_term, state, voted_for, votes>>
leaderVars == <<next_index, match_index>>
logVars == <<log, commit_index>>
vars == <<electionVars, leaderVars, logVars, msgs>>

Term == 0..MaxTerm
Index == 0..MaxLog
Entry == [term : Term, command : Command]
Log == UNION {[1..n -> Entry] : n \in Index}

Message ==
  [type : {"RequestVote"}, from : Server, term : Term,
   last_log_index : Index, last_log_term : Term]
    \cup [type : {"Vote"}, from : Server, to : Server, term : Term, granted : BOOLEAN]
    \cup [type : {"AppendEntries"}, from : Server, term : Term, prev_log_index : Index,
          prev_log_term : Term, entries : Log, leader_commit : Index]
    \cup [type : {"AppendReply"}, from : Server, to : Server, term : Term, success : BOOLEAN]

TypeOK ==
  /\ current_term \in [Server -> Term]
  /\ state \in [Server -> {"FOLLOWER", "CANDIDATE", "LEADER"}]
  /\ voted_for \in [Server -> Server \cup {None}]
  /\ log \in [Server -> Log]
  /\ commit_index \in [Server -> Index]
  /\ next_index \in [Server -> [Server -> 1..MaxLog+1]]
  /\ match_index \in [Server -> [Server -> Index]]
  /\ votes \in [Server -> SUBSET Server]
  /\ msgs \in SUBSET Message

Init ==
  /\ current_term = [s \in Server |-> 0]
  /\ state = [s \in Server |-> "FOLLOWER"]
  /\ voted_for = [s \in Server |-> None]
  /\ log = [s \in Server |-> <<>>]
  /\ commit_index = [s \in Server |-> 0]
  /\ next_index = [s \in Server |-> [t \in Server |-> 1]]
  /\ match_index = [s \in Server |-> [t \in Server |-> 0]]
  /\ votes = [s \in Server |-> {}]
  /\ msgs = {}

Send(m) == Cardinality(msgs \cup {m}) <= MaxMessages /\ msgs' = msgs \cup {m}
Majority(S) == 2 * Cardinality(S) > Cardinality(Server)
LastTerm(l) == IF l = <<>> THEN 0 ELSE l[Len(l)].term
Smaller(i, j) == IF i < j THEN i ELSE j

\* What every handler does first on seeing a term t above its own.
AdoptTerm(s, t) ==
  IF t > current_term[s]
  THEN /\ current_term' = [current_term EXCEPT ![s] = t]
       /\ state' = [state EXCEPT ![s] = "FOLLOWER"]
       /\ voted_for' = [voted_for EXCEPT ![s] = None]
  ELSE UNCHANGED <<current_term, state, voted_for>>
-----------------------------------------------------------------------------
\* raft_tick of a follower or candidate whose timer has run out:
\* raft_become_candidate, and a RequestVote to the others.
ElectionTimeout(s) ==
  /\ state[s] # "LEADER"
  /\ current_term[s] < MaxTerm
  /\ current_term' = [current_term EXCEPT ![s] = @ + 1]
  /\ state' = [state EXCEPT ![s] = "CANDIDATE"]
  /\ voted_for' = [voted_for EXCEPT ![s] = s]
  /\ votes' = [votes EXCEPT ![s] = {s}]
  /\ Send([type |-> "RequestVote", from |-> s, term |-> current_term'[s],
           last_log_index |-> Len(log[s]), last_log_term |-> LastTerm(log[s])])
  /\ UNCHANGED <<leaderVars, logVars>>

\* The voter compares the candidate's last index, counted from 1, with its own
\* counted from 0.
LogOk(s, m) ==
  \/ log[s] = <<>>
  \/ m.last_log_term > LastTerm(log[s])
  \/ m.last_log_term = LastTerm(log[s]) /\ m.last_log_index >= Len(log[s]) - 1

\* mutant: voted_for not consulted
MayVoteTwice(s, m) == m.term >= current_term[s] /\ LogOk(s, m)

MayVote(s, m) ==
  /\ m.term >= current_term[s]
  /\ m.term > current_term[s] \/ voted_for[s] \in {None, m.from}
  /\ LogOk(s, m)

\* raft_handle_request_vote.
HandleRequestVote(s, m) ==
  /\ m.type = "RequestVote" /\ m.from # s
  /\ IF m.term > current_term[s]
     THEN /\ current_term' = [current_term EXCEPT ![s] = m.term]
          /\ state' = [state EXCEPT ![s] = "FOLLOWER"]
     ELSE UNCHANGED <<current_term, state>>
  /\ voted_for' = [voted_for EXCEPT ![s] =
       IF MayVote(s, m) THEN m.from ELSE IF m.term > current_term[s] THEN None ELSE @]
  /\ Send([type |-> "Vote", from |-> s, to |-> m.from,
           term |-> current_term'[s], granted |-> MayVote(s, m)])
  /\ UNCHANGED <<votes, leaderVars, logVars>>

\* raft_handle_request_vote_reply, and the caller's count.
HandleVote(s, m) ==
  /\ m.type = "Vote" /\ m.to = s
  /\ AdoptTerm(s, m.term)
  /\ votes' = IF m.granted /\ state[s] = "CANDIDATE" /\ m.term = current_term[s]
              THEN [votes EXCEPT ![s] = @ \cup {m.from}]
              ELSE votes
  /\ UNCHANGED <<leaderVars, logVars, msgs>>

\* raft_has_election_majority, raft_become_leader: the leader counts as
\* having matched nothing until it appends.
BecomeLeader(s) ==
  /\ state[s] = "CANDIDATE" /\ Majority(votes[s])
  /\ state' = [state EXCEPT ![s] = "LEADER"]
  /\ next_index' = [next_index EXCEPT ![s] = [t \in Server |-> Len(log[s]) + 1]]
  /\ match_index' = [match_index EXCEPT ![s] = [t \in Server |-> 0]]
  /\ UNCHANGED <<current_term, voted_for, votes, logVars, msgs>>
-----------------------------------------------------------------------------
\* raft_append_command.
AppendCommand(s, c) ==
  /\ state[s] = "LEADER" /\ Len(log[s]) < MaxLog
  /\ log' = [log EXCEPT ![s] = Append(@, [term |-> current_term[s], command |-> c])]
  /\ match_index' = [match_index EXCEPT ![s][s] = Len(log[s]) + 1]
  /\ UNCHANGED <<electionVars, next_index, commit_index, msgs>>

\* raft_tick of a leader: raft_prepare_append_entries for follower f.
SendAppendEntries(s, f) ==
  LET prev == next_index[s][f] - 1 IN
  /\ state[s] = "LEADER" /\ f # s
  /\ Send([type |-> "AppendEntries", from |-> s, term |-> current_term[s],
           prev_log_index |-> prev,
           prev_log_term |-> IF prev \in 1..Len(log[s]) THEN log[s][prev].term ELSE 0,
           entries |-> SubSeq(log[s], prev + 1, Len(log[s])),
           leader_commit |-> commit_index[s]])
  /\ UNCHANGED <<electionVars, leaderVars, logVars>>

\* The follower's log once the entries of m are in: it keeps what it has up to
\* the first entry that is missing or of another term, and takes the rest.
Merge(l, m) ==
  LET prev == m.prev_log_index
      conflicts == {i \in 1..Len(m.entries) :
                      prev + i > Len(l) \/ l[prev + i].term # m.entries[i].term}
      first == CHOOSE i \in conflicts : \A j \in conflicts : i <= j
  IN IF conflicts = {} THEN l
     ELSE SubSeq(l, 1, prev + first - 1) \o SubSeq(m.entries, first, Len(m.entries))

\* mutant: the length alone is compared
HasPrevIndex(s, m) == m.prev_log_index <= Len(log[s])

HasPrev(s, m) ==
  m.prev_log_index > 0 =>
    /\ m.prev_log_index <= Len(log[s])
    /\ log[s][m.prev_log_index].term = m.prev_log_term

AcceptsStale(s, m) == HasPrev(s, m)      \* mutant: the term is not checked
Accepts(s, m) == m.term >= current_term[s] /\ HasPrev(s, m)

\* raft_handle_append_entries.  A candidate yields to a leader of its term.  A
\* mismatch at prev_log_index cuts the log after it and keeps the bad entry.
HandleAppendEntries(s, m) ==
  LET accepted == Accepts(s, m)
      last_new == m.prev_log_index + Len(m.entries)
  IN
  /\ m.type = "AppendEntries" /\ m.from # s
  /\ IF m.term > current_term[s]
     THEN /\ current_term' = [current_term EXCEPT ![s] = m.term]
          /\ voted_for' = [voted_for EXCEPT ![s] = None]
     ELSE UNCHANGED <<current_term, voted_for>>
  /\ state' = [state EXCEPT ![s] =
       IF m.term > current_term[s] \/ (m.term = current_term[s] /\ @ = "CANDIDATE")
       THEN "FOLLOWER" ELSE @]
  /\ log' = [log EXCEPT ![s] =
       IF accepted THEN Merge(@, m)
       ELSE IF m.term >= current_term[s] /\ m.prev_log_index <= Len(@)
            THEN SubSeq(@, 1, m.prev_log_index)
            ELSE @]
  /\ commit_index' = [commit_index EXCEPT ![s] =
       IF accepted /\ Smaller(m.leader_commit, last_new) > @
       THEN Smaller(m.leader_commit, last_new) ELSE @]
  /\ Send([type |-> "AppendReply", from |-> s, to |-> m.from,
           term |-> current_term'[s], success |-> accepted])
  /\ UNCHANGED <<votes, leaderVars>>

\* raft_advance_commit_index with the matches `match`: the highest entry of the
\* leader's own term that a majority holds.
Committed(s, match) ==
  LET n == {i \in commit_index[s]+1 .. Len(log[s]) :
              /\ log[s][i].term = current_term[s]
              /\ Majority({t \in Server : match[t] >= i})}
  IN IF n = {} THEN commit_index[s] ELSE CHOOSE i \in n : \A j \in n : j <= i

StepBackFreely(n) == n - 1      \* mutant: below the first entry
StepBack(n) == IF n > 1 THEN n - 1 ELSE n

\* raft_handle_append_entries_reply: success means "has all of my log", as long
\* as it is now, whatever the request held.
HandleAppendReply(s, m) ==
  /\ m.type = "AppendReply" /\ m.to = s
  /\ state[s] = "LEADER"
  /\ AdoptTerm(s, m.term)
  /\ IF m.term > current_term[s]
     THEN UNCHANGED <<leaderVars, commit_index>>
     ELSE LET last == Len(log[s]) IN
          /\ match_index' = IF m.success /\ last > match_index[s][m.from]
                            THEN [match_index EXCEPT ![s][m.from] = last] ELSE match_index
          /\ next_index' = [next_index EXCEPT ![s][m.from] =
               IF m.success THEN last + 1 ELSE StepBack(@)]
          /\ commit_index' = [commit_index EXCEPT ![s] = Committed(s, match_index'[s])]
  /\ UNCHANGED <<votes, log, msgs>>

Lose(m) == msgs' = msgs \ {m} /\ UNCHANGED <<electionVars, leaderVars, logVars>>

Next ==
  \/ \E m \in msgs : Lose(m)
  \/ \E s \in Server : ElectionTimeout(s) \/ BecomeLeader(s)
  \/ \E s \in Server, m \in msgs :
       \/ HandleRequestVote(s, m) \/ HandleVote(s, m)
       \/ HandleAppendEntries(s, m) \/ HandleAppendReply(s, m)
  \/ \E s \in Server, c \in Command : AppendCommand(s, c)
  \/ \E s, f \in Server : SendAppendEntries(s, f)

Spec == Init /\ [][Next]_vars
-----------------------------------------------------------------------------
\* Election Safety: at most one leader per term (raft_core.h:209).
ElectionSafety ==
  \A s, t \in Server :
    state[s] = "LEADER" /\ state[t] = "LEADER" /\ current_term[s] = current_term[t]
      => s = t

\* Leader Append-Only: while a server leads a term, its log only grows.
LeaderAppendOnly ==
  [][\A s \in Server :
       state[s] = "LEADER" /\ state'[s] = "LEADER" /\ current_term'[s] = current_term[s]
         => /\ Len(log'[s]) >= Len(log[s])
            /\ SubSeq(log'[s], 1, Len(log[s])) = log[s]]_vars

\* Log Matching: logs that hold an entry of the same index and term agree up to
\* it, commands included.
LogMatching ==
  \A s, t \in Server : \A i \in 1..Smaller(Len(log[s]), Len(log[t])) :
    log[s][i].term = log[t][i].term => SubSeq(log[s], 1, i) = SubSeq(log[t], 1, i)

\* Leader Completeness: what some server regards as committed in an earlier
\* term is in the log of every later leader.
LeaderCompleteness ==
  \A s, l \in Server :
    state[l] = "LEADER" /\ current_term[l] >= current_term[s] =>
      \A i \in 1..Smaller(commit_index[s], Len(log[s])) :
        i <= Len(log[l]) /\ log[l][i] = log[s][i]
=============================================================================
