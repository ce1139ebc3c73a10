------------------------------ MODULE MessageDelivery ---------------------------
(***************************************************************************)
(* The message queue, the delivery loop and the failure detector of        *)
(* consensus_model.c of mini-consensus-fault-tolerance, and the replicated *)
(* log of its consensus_types.c.                                           *)
(***************************************************************************)
EXTENDS Integers, Sequences, FiniteSets, FiniteSetsExt

CONSTANTS Process,      \* 0 .. num_nodes - 1
          Capacity,     \* of the queue
          MaxSent,      \* bound: messages sent
          MaxEntries,   \* bound: a log of this length is not appended to
          IndexRange    \* how many values an index has: 2^64, of which few are used

ASSUME DeliveryAssumption ==
  /\ IsFiniteSet(Process) /\ Process # {} /\ Process = 0 .. Cardinality(Process) - 1
  /\ Capacity \in Nat \ {0} /\ MaxSent \in Nat /\ MaxEntries \in Nat
  /\ IndexRange \in Nat /\ MaxEntries < IndexRange

VARIABLES queue,       \* buffer, count, head and tail
          received,    \* msgs_received of each node, and which are alive
          detector,    \* suspected and leader of an Omega detector
          entries,     \* replicated_log_t: length, commit_index, last_applied
          expected     \* history: the messages accepted and not yet taken, and how many were sent

deliveryVars == <<queue, received, detector, entries, expected>>

\* A message is its receiver; some receivers do not exist.
Message == Process \cup {-1}

\* mq_init, failure_detector_init; a log starts empty
DeliveryStart ==
  /\ queue = [buffer |-> [i \in 0 .. Capacity - 1 |-> 0], count |-> 0, head |-> 0, tail |-> 0]
  /\ received = [p \in Process |-> 0]
  /\ detector = [suspected |-> {}, leader |-> 0]
  /\ entries = [length |-> 0, commit_index |-> 0, last_applied |-> 0]
  /\ expected = [sent |-> 0, pending |-> <<>>]

\* mq_enqueue
EnqueueLate(q, msg) ==   \* mutant: the check is off by one
  IF q.count > Capacity THEN q
  ELSE [q EXCEPT !.buffer[q.tail] = msg, !.tail = (@ + 1) % Capacity, !.count = @ + 1]

Enqueue(q, msg) ==
  IF q.count >= Capacity THEN q
  ELSE [q EXCEPT !.buffer[q.tail] = msg, !.tail = (@ + 1) % Capacity, !.count = @ + 1]

\* mq_dequeue
Dequeued(q) == [q EXCEPT !.head = (@ + 1) % Capacity, !.count = @ - 1]

Send(msg) ==
  /\ expected.sent < MaxSent
  /\ queue' = Enqueue(queue, msg)
  /\ expected' = [sent |-> expected.sent + 1,
                  pending |-> IF Len(expected.pending) < Capacity
                              THEN Append(expected.pending, msg) ELSE expected.pending]
  /\ UNCHANGED <<received, detector, entries>>

Take ==
  /\ queue.count > 0
  /\ queue' = Dequeued(queue)
  /\ expected' = [expected EXCEPT !.pending = Tail(@)]
  /\ UNCHANGED <<received, detector, entries>>

\* model_deliver_messages: everything that waits, to the receivers that exist and
\* are alive; those a detector suspects are the dead ones here.
Waiting(q) == [k \in 1 .. q.count |-> q.buffer[(q.head + k - 1) % Capacity]]
DeliverAll ==
  /\ queue.count > 0
  /\ received' = [p \in Process |->
       IF p \in detector.suspected THEN received[p]
       ELSE received[p] + Cardinality({k \in DOMAIN Waiting(queue) : Waiting(queue)[k] = p})]
  /\ queue' = [queue EXCEPT !.head = (@ + queue.count) % Capacity, !.count = 0]
  /\ expected' = [expected EXCEPT !.pending = <<>>]
  /\ UNCHANGED <<detector, entries>>

\* failure_detector_update of an Omega detector
Update(p, suspects) ==
  LET suspected == IF suspects THEN detector.suspected \cup {p} ELSE detector.suspected \ {p}
  IN  /\ detector' = [suspected |-> suspected,
                      leader |-> IF suspected = Process THEN -1 ELSE Min(Process \ suspected)]
      /\ UNCHANGED <<queue, received, entries, expected>>

\* replicated_log_append; what commits and applies is the caller's
AppendEntry ==
  /\ entries.length < MaxEntries
  /\ entries' = [entries EXCEPT !.length = @ + 1]
  /\ UNCHANGED <<queue, received, detector, expected>>

CommitAndApply(commit, applied) ==
  /\ applied <= commit /\ commit <= entries.length
  /\ entries' = [entries EXCEPT !.commit_index = commit, !.last_applied = applied]
  /\ UNCHANGED <<queue, received, detector, expected>>

\* Mutant: the entry cut off first is still committed.
BelowOrAt(i, from) == IF i > from THEN from - 1 ELSE i

\* replicated_log_truncate.  Entries are numbered from 1, but 0 is accepted too: the
\* length is then one less than 0 and wraps round, while the indexes fall to 0.
Below(i, from) == IF from = 0 THEN 0 ELSE IF i >= from THEN from - 1 ELSE i
Truncate(from) ==
  /\ from \in 0 .. entries.length
  /\ entries' = [length |-> IF from = 0 THEN IndexRange - 1 ELSE from - 1,
                 commit_index |-> Below(entries.commit_index, from),
                 last_applied |-> Below(entries.last_applied, from)]
  /\ UNCHANGED <<queue, received, detector, expected>>

DeliveryStep ==
  \/ \E msg \in Message : Send(msg)
  \/ Take \/ DeliverAll
  \/ \E p \in Process, suspects \in BOOLEAN : Update(p, suspects)
  \/ AppendEntry
  \/ \E commit, applied \in 0 .. MaxEntries : CommitAndApply(commit, applied)
  \/ \E from \in 0 .. MaxEntries : Truncate(from)

--------------------------------------------------------------------------------
\* The ring of the queue holds just the messages accepted and not yet taken, in
\* their order, however often it has wrapped round.  The detector's leader is not
\* suspected unless everyone is, and then there is none.  Neither what a log committed
\* nor what it applied is beyond its length, whatever was cut off, although a length
\* that has wrapped round is no longer that of its entries.
QueueKeepsOrder ==
  /\ Waiting(queue) = expected.pending
  /\ queue.tail = (queue.head + queue.count) % Capacity
  /\ detector.leader \notin detector.suspected
  /\ detector.leader = -1 <=> detector.suspected = Process
  /\ entries.last_applied <= entries.commit_index /\ entries.commit_index <= entries.length
================================================================================
