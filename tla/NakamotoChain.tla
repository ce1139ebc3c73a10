------------------------------- MODULE NakamotoChain ----------------------------
(***************************************************************************)
(* nakamoto.c of mini-consensus-fault-tolerance: nodes that mine on their  *)
(* own chain, take blocks of others, and adopt chains of more work.  A     *)
(* chain is the sequence of its blocks, which its prev pointers give.      *)
(***************************************************************************)
EXTENDS Integers, Sequences, FiniteSets, SequencesExt

CONSTANTS Miner,        \* 0 .. num_nodes - 1
          HonestCount,  \* how many of them are honest, the first ones
          Difficulty,   \* difficulties in use
          Stamp,        \* tells headers apart; no nonce that is tried fits one of stamp 0
          MaxLength     \* bound: a chain of this length is not mined on

ASSUME NakamotoAssumption ==
  /\ IsFiniteSet(Miner) /\ Miner = 0 .. Cardinality(Miner) - 1 /\ HonestCount \in 1 .. Cardinality(Miner)
  /\ Difficulty \subseteq Nat /\ Stamp \subseteq Nat /\ MaxLength \in Nat

VARIABLES chain,     \* the blocks of each node's chain
          mined      \* the last block each node mined, on its way to the others

nakamotoVars == <<chain, mined>>

\* The hash covers the whole block; mining that gives up leaves it zero.
ZeroHash == <<>>
Hash(block) == IF block.stamp = 0 THEN ZeroHash ELSE <<block>>

\* nakamoto_create_block, nakamoto_mine_block
CreateBlock(c, difficulty, stamp) ==
  [prev |-> IF c = <<>> THEN ZeroHash ELSE Hash(Last(c)),
   height |-> IF c = <<>> THEN 0 ELSE Last(c).height + 1,
   difficulty |-> difficulty, stamp |-> stamp]

\* block_work, and total_work of a chain
BlockWork(block) == IF block.difficulty > 0 THEN block.difficulty ELSE 1
TotalWork(c) ==
  LET work[n \in 0 .. Len(c)] == IF n = 0 THEN 0 ELSE work[n - 1] + BlockWork(c[n])
  IN  work[Len(c)]

\* nakamoto_compare_chains: more work first, then the shorter.
Better(c, d) ==
  TotalWork(c) > TotalWork(d) \/ (TotalWork(c) = TotalWork(d) /\ Len(c) < Len(d))

\* nakamoto_add_block: to an empty chain any block is added, and else one that
\* follows the tip; the rest is dropped.
AddsAnyHeir(c, block) == c = <<>> \/ block.height = Last(c).height + 1  \* mutant: by height

Adds(c, block) == c = <<>> \/ block.prev = Hash(Last(c))
AddBlock(c, block) == IF Adds(c, block) THEN Append(c, block) ELSE c

NoBlock == [prev |-> ZeroHash, height |-> -1, difficulty |-> 0, stamp |-> 0]

NakamotoStart ==
  /\ chain = [i \in Miner |-> <<>>]
  /\ mined = [i \in Miner |-> NoBlock]

\* What nakamoto_network_step does at a node that is lucky
Mine(i, difficulty, stamp) ==
  LET block == CreateBlock(chain[i], difficulty, stamp)
  IN  /\ Len(chain[i]) < MaxLength
      /\ stamp = 0 => difficulty > 1
      /\ mined' = [mined EXCEPT ![i] = block]
      /\ chain' = [chain EXCEPT ![i] = AddBlock(@, block)]

\* Another node is handed the block.
Deliver(i, j) ==
  /\ i # j /\ mined[i].height >= 0 /\ Len(chain[j]) < MaxLength
  /\ chain' = [chain EXCEPT ![j] = AddBlock(@, mined[i])]
  /\ UNCHANGED mined

\* nakamoto_adopt_chain, with the chain of another node
AdoptChain(i, j) ==
  /\ Better(chain[j], chain[i])
  /\ chain' = [chain EXCEPT ![i] = chain[j]]
  /\ UNCHANGED mined

NakamotoStep ==
  \E i \in Miner :
    \/ \E difficulty \in Difficulty, stamp \in Stamp : Mine(i, difficulty, stamp)
    \/ \E j \in Miner : Deliver(i, j) \/ AdoptChain(i, j)

\* nakamoto_get_canonical_chain: the first of the best chains of honest nodes.
Canonical ==
  LET beaten(i) == \E j \in 0 .. HonestCount - 1 :
                     Better(chain[j], chain[i]) \/ (j < i /\ ~Better(chain[i], chain[j]))
  IN  CHOOSE i \in 0 .. HonestCount - 1 : ~beaten(i)

--------------------------------------------------------------------------------
AllMined(c) == \A k \in DOMAIN c : c[k].stamp # 0

\* Blocks name the hash of the one before; where every block of a chain was really
\* mined their heights follow each other too, nobody can pass a chain off under
\* another's tip, and two chains agree on all below a common block.  A first block
\* may have any height, and blocks that were not mined all look alike.
BlocksLinked ==
  \A i, j \in Miner :
    LET c == chain[i]  d == chain[j] IN
    /\ \A k \in 2 .. Len(c) : c[k].prev = Hash(c[k - 1])
    /\ AllMined(c) => \A k \in 2 .. Len(c) : c[k].height = c[k - 1].height + 1
    /\ AllMined(c) /\ AllMined(d) =>
         \A k \in DOMAIN c, l \in DOMAIN d : c[k] = d[l] =>
           LET shared == IF k < l THEN k ELSE l
           IN  SubSeq(c, k - shared + 1, k) = SubSeq(d, l - shared + 1, l)

\* A node's chain only gets better: it never loses work, and with the same work it
\* only gets shorter; no honest node beats the canonical chain.
OnlyBetter == \A i \in Miner : chain'[i] # chain[i] => Better(chain'[i], chain[i])
CanonicalIsBest == \A i \in 0 .. HonestCount - 1 : ~Better(chain[i], chain[Canonical])

ChainsImprove == [][OnlyBetter]_chain /\ []CanonicalIsBest
================================================================================
