---------------------------- MODULE ByzantineAgreement -------------------------
(***************************************************************************)
(* The protocols of mini-byzantine-agreement-lower-bound, each on its own. *)
(***************************************************************************)
EXTENDS PhaseProtocols, BlockchainFinality

VARIABLE protocol

\* <<N, f>>: values for Sizes, with f up to and beyond a third.
SystemSizes == {<<3, 1>>, <<4, 1>>, <<5, 1>>, <<5, 2>>}

NoSystem ==
  /\ num_processes = 1 /\ max_faulty = 0
  /\ fault_type = <<>> /\ initial_value = <<>> /\ estimate = <<>> /\ previous = <<>>
  /\ decided_value = <<>> /\ round = 0

ProtocolInit ==
  \/ protocol = "FINALITY" /\ NoSystem
  \/ protocol = "PHASE_KING" /\ PhaseKingInit
  \/ protocol = "BEN_OR" /\ BenOrInit
  \/ protocol = "DOLEV_STRONG" /\ DolevStrongInit
  \/ protocol = "EIG" /\ EigInit
  \/ protocol = "AUTOMATON" /\ AutomatonInit
  \/ protocol = "PAXOS" /\ PaxosInit
  \/ protocol = "PBFT" /\ PbftInit

Init ==
  /\ FinalityInit
  /\ ProtocolInit
  /\ protocol = "FINALITY" \/ chain = "CASPER"
  /\ protocol = "EIG" \/ tree = <<>>
  /\ protocol = "DOLEV_STRONG" \/ entries = <<>>
  /\ protocol \in {"PAXOS", "PBFT"} \/ central = <<>>

AgreementStep ==
  \/ /\ \/ protocol = "PHASE_KING" /\ PhaseKingStep
        \/ protocol = "BEN_OR" /\ BenOrStep
        \/ protocol = "AUTOMATON" /\ AutomatonStep
     /\ UNCHANGED <<entries, tree, central>>
  \/ protocol = "DOLEV_STRONG" /\ DolevStrongStep /\ UNCHANGED <<tree, central>>
  \/ protocol = "EIG" /\ EigStep /\ UNCHANGED <<entries, central>>
  \/ protocol \in {"PAXOS", "PBFT"} /\ CentralStep /\ UNCHANGED <<entries, tree>>

agreementVars == <<systemVars, runVars, entries, tree, central>>
vars == <<protocol, agreementVars, finalityVars>>

Next ==
  /\ \/ AgreementStep /\ UNCHANGED finalityVars
     \/ protocol = "FINALITY" /\ FinalityNext /\ UNCHANGED agreementVars
  /\ UNCHANGED protocol

Spec == Init /\ [][Next]_vars

--------------------------------------------------------------------------------
\* Correct processes that decide agree, whatever the protocol, the faults and the
\* coins: on their common initial value if they have one under Phase King and
\* Ben-Or; Dolev and Strong's also follow the value of a faulty sender, so theirs
\* must be common to all that are not crashed.  (EIG's decisions are in
\* Dissemination, and the automata take none.)
AgreementAndValidity ==
  /\ protocol \in {"PHASE_KING", "BEN_OR", "DOLEV_STRONG"} => VerifyAgreement
  /\ protocol \in {"PHASE_KING", "BEN_OR"} => VerifyValidity
  /\ protocol = "DOLEV_STRONG" /\ Unanimous(Relaying, initial_value) =>
       \A i \in Correct : decided_value[i] \in {Undecided, initial_value[i]}

\* How far information gets: one phase of Phase King makes all estimates equal;
\* Ben-Or's correct processes decide in the same round or not at all; after one
\* round of Dolev and Strong every process that is not crashed holds every such
\* process's value, with only chains that verify.  With four processes the EIG tree
\* resolves to nothing: a node of another process's value misses its own branch
\* and the owner's, so two of four never are a majority, and the root is left with
\* the owner's own value.
Dissemination ==
  /\ protocol = "PHASE_KING" /\ round > 0 => Unanimous(Process, estimate)
  /\ protocol = "BEN_OR" =>
       \A i, j \in Correct : decided_value[i] # Undecided => decided_value[j] # Undecided
  /\ protocol = "DOLEV_STRONG" =>
       \A i \in Relaying :
         /\ \A e \in entries[i] : VerifyChain(e)
         /\ round > 0 => \A j \in Relaying : \E e \in entries[i] :
                            e.signers[1] = j /\ e.value = initial_value[j]
  /\ protocol = "EIG" => \A i \in Process : decided_value[i] = Undecided

\* The automata settle: from the third round on the estimates are what they were
\* one round or two rounds ago, and correct processes that agree stay agreed while
\* they outnumber the faulty ones.
AutomataSettle ==
  [][protocol = "AUTOMATON" =>
       /\ round >= 2 => estimate' \in {previous, estimate}
       /\ Unanimous(Correct, estimate) /\ Cardinality(Correct) > Cardinality(Process \ Correct)
            => \A i \in Correct : estimate'[i] = estimate[i]]_vars

\* Driven in any order, the phases kept in one state do not make decisions last: an
\* accept takes its caller's value, and a pre-prepare replaces the values that were
\* counted.  But a Paxos decision is always what every process that takes part has
\* accepted and what stands proposed, however often another number is prepared, so
\* it changes only when a caller accepts another value than the proposed one; and
\* once PBFT has committed, a quorum holds the primary's value, whichever it is now.
CentralDecisions ==
  [][/\ protocol = "PAXOS" =>
          /\ central'.decided # Undecided =>
               /\ central'.proposed = central'.decided
               /\ \A i \in TakesPart : central'.accepted[i].value = central'.decided
          /\ central.decided # Undecided /\ central'.proposed = central.proposed =>
               central'.decided = central.decided
     /\ protocol = "PBFT" /\ central'.committed =>
          CountOf(Process, central'.values, central'.values[0]) >= 2 * max_faulty + 1]_vars

\* Casper finalizes the epoch before the one it justifies, and never goes back.
\* Tendermint commits at every height the block that two quorums of one round
\* voted for.  Bob is never paid unless Alice revealed the secret.  (The converse is
\* false: a Bob who does not claim is not paid, though Alice was.)
FinalityRules ==
  [][/\ finalized_epoch' # finalized_epoch =>
          finalized_epoch' > finalized_epoch /\ finalized_epoch' + 1 = justified_epoch'
     /\ height' # height => committed_block_hash' = precommitted /\ tm_round' = 0
     /\ swap'.a = "CLAIMED" => swap'.b = "CLAIMED"]_vars

\* What the automata come to settles, and what the phases kept in one state decide the
\* processes hold, in whatever order the phases are called.
SettledAndHeld == AutomataSettle /\ CentralDecisions
================================================================================
