-------------------------------- MODULE MCRaft --------------------------------
(* RaftRpc for TLC: interchangeable servers, and no difference made between    *)
(* states that differ only in what will be overwritten before it is read.      *)
EXTENDS RaftRpc, TLC

Symmetric == Permutations(Server)

\* A server that does not lead resets next_index and match_index before it
\* does; one that is no candidate resets its vote count before it is.
MCView ==
  <<current_term, state, voted_for, log, commit_index, msgs,
    [s \in {t \in Server : state[t] = "LEADER"} |-> <<next_index[s], match_index[s]>>],
    [s \in {t \in Server : state[t] = "CANDIDATE"} |-> votes[s]]>>
=============================================================================
