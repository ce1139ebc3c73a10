---------------------------- MODULE ByzantineGenerals ---------------------------
(***************************************************************************)
(* byzantine_agreement.c of mini-consensus-fault-tolerance, the oral and   *)
(* signed message algorithms computed in one call, and the bounds on       *)
(* processes and faults that it, consensus_types.c and consensus_model.c   *)
(* state separately.                                                       *)
(***************************************************************************)
EXTENDS Integers, Sequences, FiniteSets, SequencesExt

CONSTANTS Lieutenants, \* the numbers of lieutenants asked about
          Relays,      \* the values of m
          Processes    \* bound: the numbers of processes asked about are 1 .. Processes

ASSUME GeneralsAssumption ==
  Lieutenants \subseteq Nat \ {0} /\ Relays \subseteq Nat /\ Processes \in Nat

Attack == 1
Retreat == -1

VARIABLES council,   \* what is asked
          orders     \* what the lieutenants conclude from oral and from signed messages

generalsVars == <<council, orders>>

\* oral_majority: a tie retreats.
OralMajority(values) ==
  IF Cardinality({i \in DOMAIN values : values[i] = Attack})
       > Cardinality({i \in DOMAIN values : values[i] = Retreat})
  THEN Attack ELSE Retreat

\* A traitor as commander alternates its orders, beginning with an attack.
Direct(loyal, value, i) ==
  IF loyal THEN value ELSE IF i % 2 = 1 THEN Attack ELSE Retreat

\* oral_message_om: a lieutenant weighs what it was told against what the others
\* conclude when it tells them.
\*
\* Mutant: all weigh what all were told.
OralMessagesPooled(commander, lieutenants, m, value, honest) ==
  LET told(i) == Direct(commander \in honest, value, i)
  IN  [i \in DOMAIN lieutenants |->
         IF m = 0 THEN told(i) ELSE OralMajority([j \in DOMAIN lieutenants |-> told(j)])]

OralOrder == [commander : Nat, lieutenants : Seq(Nat), m : Nat, value : {Attack, Retreat}]

\* Each lieutenant commands the others, in what it was told itself.
Relayed(c, i, word) ==
  [commander |-> c.lieutenants[i], lieutenants |-> RemoveAt(c.lieutenants, i),
   m |-> c.m - 1, value |-> word]

OralMessages(commander, lieutenants, m, value, honest) ==
  LET told(c, i) == Direct(c.commander \in honest, c.value, i)
      results[c \in OralOrder] ==
        [i \in DOMAIN c.lieutenants |->
           IF c.m = 0 THEN told(c, i)
           ELSE OralMajority(<<told(c, i)>> \o results[Relayed(c, i, told(c, i))])]
  IN  results[[commander |-> commander, lieutenants |-> lieutenants, m |-> m, value |-> value]]

MayAsk(lieutenants, m) == lieutenants + 1 > 3 * m

\* signed_message_agreement: everyone signs what the commander is said to have
\* sent, so no two values are ever found.
SignedMessages(lieutenants, value) == [i \in 1 .. lieutenants |-> value]

\* byzantine_verify: i is the lieutenant that the array of honesty knows as i.
HonestOf(results, honest) == {i \in DOMAIN results : i \in honest}
Verdict(results, value, honest) ==
  LET among == HonestOf(results, honest)
      first == CHOOSE i \in among : \A j \in among : i <= j
  IN  [agreement_holds |-> \A i \in among : results[i] = results[first],
       validity_holds |-> 0 \in honest /\ among # {} => results[first] = value]

Fault == {"NONE", "CRASH", "OMISSION", "TIMING", "BYZANTINE"}
Model == {"SYNCHRONOUS", "ASYNCHRONOUS", "PARTIALLY_SYNCHRONOUS"}

\* min_processes_for_agreement and max_tolerated_faults
MinProcesses(f, fault, signed) ==
  CASE fault = "NONE" -> 1
    [] fault = "BYZANTINE" -> IF signed THEN f + 1 ELSE 3 * f + 1
    [] OTHER -> 2 * f + 1

MaxTolerated(n, fault, signed) ==
  CASE fault = "NONE" -> 0
    [] fault = "BYZANTINE" -> IF signed THEN n - 1 ELSE (n - 1) \div 3
    [] OTHER -> (n - 1) \div 2

\* consensus_bound_check, without which of two reasons it gives
BoundCheck(n, f, fault) ==
  /\ f < n
  /\ CASE fault = "NONE" -> TRUE
       [] fault = "BYZANTINE" -> n > 3 * f
       [] OTHER -> n > 2 * f

\* flp_impossible, consensus_is_solvable and what flp_audit_run finds
FlpImpossible(n, fault, model, randomized) ==
  model = "ASYNCHRONOUS" /\ fault # "NONE" /\ ~randomized /\ n >= 2

Solvable(n, f, fault, model, randomized) ==
  /\ f < n
  /\ IF model = "ASYNCHRONOUS" THEN fault = "NONE" \/ randomized
     ELSE IF fault = "BYZANTINE" THEN n > 3 * f
     ELSE IF model = "SYNCHRONOUS" THEN n > f
     ELSE n > 2 * f

FlpAudit(f, model, randomized, has_fd) ==
  [flp_applies |-> model = "ASYNCHRONOUS" /\ f >= 1 /\ ~randomized /\ ~has_fd,
   randomized |-> model = "ASYNCHRONOUS" /\ f >= 1 /\ randomized,
   failure_detector |-> model = "ASYNCHRONOUS" /\ f >= 1 /\ has_fd,
   partial_sync |-> model = "PARTIALLY_SYNCHRONOUS" /\ f >= 1]

\* General 0 commands lieutenants 1 .. l; any of them may be traitors.
Councils ==
  UNION {[lieutenants : {l}, m : {m \in Relays : MayAsk(l, m)}, value : {Attack, Retreat},
          honest : SUBSET (0 .. l)] : l \in Lieutenants}

NoOrders == [oral |-> <<>>, signed |-> <<>>]

GeneralsStart == council \in Councils /\ orders = NoOrders

GeneralsStep ==
  /\ orders = NoOrders
  /\ orders' = [oral |-> OralMessages(0, [i \in 1 .. council.lieutenants |-> i],
                                      council.m, council.value, council.honest),
                signed |-> SignedMessages(council.lieutenants, council.value)]
  /\ UNCHANGED council

--------------------------------------------------------------------------------
\* An honest lieutenant ends with what its commander told it, however many traitors
\* there are and however often orders are relayed: it weighs only what others make
\* of its own word.  So honest lieutenants follow an honest commander, and under
\* a traitor they agree only if it told them the same.
OrdersFollowed ==
  orders # NoOrders =>
    LET lieutenants == HonestOf(orders.oral, council.honest)
        oral == Verdict(orders.oral, council.value, council.honest)
        signed == Verdict(orders.signed, council.value, council.honest)
    IN  /\ \A i \in lieutenants : orders.oral[i] = Direct(0 \in council.honest, council.value, i)
        /\ oral.validity_holds /\ signed.validity_holds /\ signed.agreement_holds
        /\ oral.agreement_holds <=>
             0 \in council.honest \/ \A i, j \in lieutenants : i % 2 = j % 2

\* The greatest number of faults tolerated is the greatest one whose processes
\* suffice, the two checks of a bound agree with it, and the audit finds FLP to
\* apply exactly where no deterministic solution is said to exist.
BoundsAgree ==
  \A n \in 1 .. Processes, f \in 0 .. Processes, fault \in Fault \ {"NONE"} :
    /\ f < n => \A signed \in BOOLEAN :
         f <= MaxTolerated(n, fault, signed) <=> MinProcesses(f, fault, signed) <= n
    /\ BoundCheck(n, f, fault) <=> f <= MaxTolerated(n, fault, FALSE)
    /\ Solvable(n, f, fault, "PARTIALLY_SYNCHRONOUS", FALSE) <=> BoundCheck(n, f, fault)
    /\ n >= 2 /\ f < n => \A randomized \in BOOLEAN :
         /\ FlpImpossible(n, fault, "ASYNCHRONOUS", randomized)
              <=> ~Solvable(n, f, fault, "ASYNCHRONOUS", randomized)
         /\ f >= 1 => (FlpAudit(f, "ASYNCHRONOUS", randomized, FALSE).flp_applies
                         <=> FlpImpossible(n, fault, "ASYNCHRONOUS", randomized))

FaultAnswers == OrdersFollowed /\ BoundsAgree
================================================================================
