------------------------------ MODULE PbftReplicas -----------------------------
(***************************************************************************)
(* pbft.c of mini-consensus-fault-tolerance: replicas with a window of     *)
(* sequence numbers and counters for it, driven by calls.  What a replica  *)
(* sends carries its last_seq_num, which only a primary advances.  The     *)
(* view decides nothing: view changes and requests do not meet, so they    *)
(* are explored apart.                                                     *)
(***************************************************************************)
EXTENDS Integers, FiniteSets

CONSTANTS Faulty,      \* max_faulty; there are 3 max_faulty + 1 replicas
          Window,      \* log_checkpoint_win (200 in the code)
          Primary,     \* bound: the replicas that send requests
          Observed,    \* bound: the replicas that handle messages
          MaxSeq,      \* bound: requests of one primary
          MaxMessages, \* bound: messages handled
          MaxView      \* bound

Replica == 0 .. 3 * Faulty
QuorumSize == 2 * Faulty + 1

ASSUME PbftAssumption ==
  /\ {Faulty, Window, MaxSeq, MaxMessages, MaxView} \subseteq Nat
  /\ Primary \subseteq Replica /\ Observed \subseteq Replica

VARIABLES concern,     \* "REQUESTS" or "VIEWS"
          current_view, last_seq_num,
          low_water_mark, last_executed_seq,
          prepare_count, commit_count, prepared_cert,   \* by index in the window
          primaries,   \* history: who sent a pre-prepare for a sequence number
          handled      \* history: the messages each replica handled

pbftVars == <<concern, current_view, last_seq_num, low_water_mark, last_executed_seq,
              prepare_count, commit_count, prepared_cert, primaries, handled>>

Index == 0 .. Window - 1

\* pbft_system_init
PbftStart ==
  /\ concern \in {"REQUESTS", "VIEWS"}
  /\ current_view = [r \in Replica |-> 0] /\ last_seq_num = [r \in Replica |-> 0]
  /\ low_water_mark = [r \in Replica |-> 0] /\ last_executed_seq = [r \in Replica |-> 0]
  /\ prepared_cert = [r \in Replica |-> {}]
  /\ prepare_count = [r \in Replica |-> [i \in Index |-> 0]]
  /\ commit_count = [r \in Replica |-> [i \in Index |-> 0]]
  /\ primaries = [n \in 0 .. MaxSeq |-> {}] /\ handled = [r \in Replica |-> {}]

\* pbft_water_mark_idx
InWindow(r, n) == n >= low_water_mark[r] /\ n < low_water_mark[r] + Window
IndexOf(r, n) == n - low_water_mark[r]

\* pbft_send_pre_prepare counts each replica's own prepare.  (It also marks the
\* request as pre_prepared, which decides nothing.)
SendPrePrepare(p) ==
  LET n == last_seq_num[p] + 1
      marked == {r \in Replica : InWindow(r, n)}
  IN  /\ n <= MaxSeq /\ p \in marked
      /\ last_seq_num' = [last_seq_num EXCEPT ![p] = n]
      /\ prepare_count' = [r \in Replica |->
           IF r \in marked THEN [prepare_count[r] EXCEPT ![IndexOf(r, n)] = @ + 1]
           ELSE prepare_count[r]]
      /\ primaries' = [primaries EXCEPT ![n] = @ \cup {p}]
      /\ UNCHANGED <<low_water_mark, last_executed_seq, commit_count, prepared_cert, handled>>

\* pbft_send_prepare and pbft_send_commit, at some time: the sender's last_seq_num
\* was every number up to what it is.  Each message arrives at most once.
Arrives(r, type, s, n) ==
  /\ s # r /\ n <= last_seq_num[s] /\ InWindow(r, n)
  /\ <<type, s, n>> \notin handled[r]
  /\ Cardinality(handled[r]) < MaxMessages
  /\ handled' = [handled EXCEPT ![r] = @ \cup {<<type, s, n>>}]

\* Mutant: one prepare less makes a certificate.
CertifiesEarly(count) == count >= 2 * Faulty

Certifies(count) == count >= QuorumSize

\* pbft_handle_prepare
HandlePrepare(r, s, n) ==
  /\ Arrives(r, "PREPARE", s, n)
  /\ prepare_count' = [prepare_count EXCEPT ![r][IndexOf(r, n)] = @ + 1]
  /\ prepared_cert' = [prepared_cert EXCEPT ![r] =
       IF Certifies(prepare_count'[r][IndexOf(r, n)]) THEN @ \cup {IndexOf(r, n)} ELSE @]
  /\ UNCHANGED <<last_seq_num, low_water_mark, last_executed_seq,
                 commit_count, primaries>>

\* pbft_handle_commit
HandleCommit(r, s, n) ==
  /\ Arrives(r, "COMMIT", s, n)
  /\ commit_count' = [commit_count EXCEPT ![r][IndexOf(r, n)] = @ + 1]
  /\ UNCHANGED <<last_seq_num, low_water_mark, last_executed_seq,
                 prepare_count, prepared_cert, primaries>>

\* pbft_execute_request
Execute(r, n) ==
  /\ n > last_executed_seq[r] /\ InWindow(r, n)
  /\ commit_count[r][IndexOf(r, n)] >= QuorumSize
  /\ last_executed_seq' = [last_executed_seq EXCEPT ![r] = n]
  /\ UNCHANGED <<last_seq_num, low_water_mark, prepare_count, commit_count,
                 prepared_cert, primaries, handled>>

\* pbft_create_checkpoint moves the window and leaves the counters in their places.
CreateCheckpoint(r) ==
  /\ low_water_mark' = [low_water_mark EXCEPT ![r] = last_executed_seq[r]]
  /\ UNCHANGED <<last_seq_num, last_executed_seq, prepare_count, commit_count,
                 prepared_cert, primaries, handled>>

\* pbft_initiate_view_change
InitiateViewChange(r) ==
  current_view' = [q \in Replica |-> current_view[r] + 1]

\* pbft_handle_view_change
HandleViewChange(r, view) ==
  /\ view > current_view[r]
  /\ current_view' = [current_view EXCEPT ![r] = view]

PbftStep ==
  /\ \/ /\ concern = "REQUESTS"
        /\ \/ \E p \in Primary : SendPrePrepare(p)
           \/ \E r \in Observed, s \in Replica, n \in 0 .. MaxSeq :
                HandlePrepare(r, s, n) \/ HandleCommit(r, s, n)
           \/ \E r \in Observed, n \in 1 .. MaxSeq + Window : Execute(r, n)
           \/ \E r \in Observed : CreateCheckpoint(r)
        /\ UNCHANGED current_view
     \/ /\ concern = "VIEWS"
        /\ \/ \E r \in Replica : current_view[r] < MaxView /\ InitiateViewChange(r)
           \/ \E r \in Replica, view \in 1 .. MaxView : HandleViewChange(r, view)
        /\ UNCHANGED <<last_seq_num, low_water_mark, last_executed_seq,
                       prepare_count, commit_count, prepared_cert, primaries, handled>>
  /\ UNCHANGED concern

--------------------------------------------------------------------------------
Senders(r, type, n) == {s \in Replica : <<type, s, n>> \in handled[r]}

\* A replica goes back to an earlier view only when one that lags behind initiates
\* the change, and then all replicas go to the same view.
FallTogether ==
  \A r \in Replica : current_view'[r] < current_view[r] =>
    /\ \A s \in Replica : current_view'[s] = current_view'[r]
    /\ \E s \in Replica : current_view[s] < current_view'[r]

\* If messages are not repeated, and until a checkpoint moves the window: a
\* certificate for a request of one primary stands on 2f+1 replicas, and so does
\* what is executed.  After a checkpoint the old counts stand for later numbers,
\* but a replica that executes anything has the commits of 2f+1 replicas for some
\* request.  And views fall together only.
StandsOnQuorums(r) ==
  /\ low_water_mark[r] = 0 =>
       /\ \A n \in 0 .. MaxSeq :
            n \in prepared_cert[r] /\ Cardinality(primaries[n]) <= 1 =>
              Cardinality(Senders(r, "PREPARE", n) \cup {r}) >= QuorumSize
       /\ last_executed_seq[r] > 0 =>
            Cardinality(Senders(r, "COMMIT", last_executed_seq[r])) >= QuorumSize
  /\ last_executed_seq[r] > 0 =>
       \E n \in 0 .. MaxSeq : Cardinality(Senders(r, "COMMIT", n)) >= QuorumSize

PbftQuorums == [][FallTogether]_pbftVars /\ [](\A r \in Observed : StandsOnQuorums(r))
================================================================================
