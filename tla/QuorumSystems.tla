------------------------------ MODULE QuorumSystems -----------------------------
(***************************************************************************)
(* quorum.c of mini-consensus-fault-tolerance, which builds quorums in     *)
(* four ways and keeps a register on the first of them, and                *)
(* quorum_system.c of mini-paxos-raft-formal, which enumerates majorities. *)
(***************************************************************************)
EXTENDS Integers, FiniteSets, FiniteSetsExt

CONSTANTS Construction,   \* what is built: [kind |-> ..., size |-> ..., faults |-> ...]
          RegisterValue,  \* values written
          MaxClock        \* bound: a register with this clock is not written

\* The functions that build refuse other sizes.
ASSUME QuorumsAssumption ==
  /\ MaxClock \in Nat
  /\ \A c \in Construction :
       /\ c.kind \in {"MAJORITY", "MASKING", "ALL", "GRID", "PLANE"}
       /\ c.size \in Nat \ {0} /\ c.faults \in Nat
       /\ c.kind \in {"GRID", "PLANE"} => c.size >= 2
       /\ c.kind = "MASKING" => c.size >= 3 * c.faults + 1

VARIABLES quorums,        \* the construction, its servers and the sets of members
          register        \* the servers' values and clocks; what was written and read last

quorumVars == <<quorums, register>>

Servers(n) == 0 .. n - 1
Cyclic(n, size, i) == {(i + j) % n : j \in 0 .. size - 1}

\* quorum_create_majority, quorum_create_b_masking
MajorityWindows(n) == [i \in Servers(n) |-> Cyclic(n, n \div 2 + 1, i)]
MaskingWindowsShort(n, f) == [i \in Servers(n) |-> Cyclic(n, n \div 2 + f, i)]  \* mutant
MaskingWindows(n, f) == [i \in Servers(n) |-> Cyclic(n, n \div 2 + f + 1, i)]

\* quorum_create_grid: the row and the column of each cell
Crosses(side) ==
  [i \in Servers(side * side) |->
     {(i \div side) * side + c : c \in 0 .. side - 1} \cup {r * side + (i % side) : r \in 0 .. side - 1}]

\* quorum_create_fpp: the lines y = m x + b with their point at infinity, the
\* vertical lines, and the line of those points.
Lines(q) ==
  [l \in Servers(q * q + q + 1) |->
     IF l < q * q
     THEN {x * q + (((l \div q) * x + (l % q)) % q) : x \in 0 .. q - 1} \cup {q * q + l \div q}
     ELSE IF l < q * q + q
     THEN {(l - q * q) * q + y : y \in 0 .. q - 1} \cup {q * q + q}
     ELSE {q * q + i : i \in 0 .. q}]

\* quorum_generate_all: the majorities, counted here by their place in no order.
AllMajorities(n) == {S \in SUBSET Servers(n) : Cardinality(S) >= n \div 2 + 1}

\* quorum_is_valid, quorum_achieved
IsValid(S, n) == Cardinality(S) > n \div 2 /\ S \subseteq Servers(n)
Achieved(responders, n) == Cardinality(responders) >= n \div 2 + 1

\* The array that is built; sets for the enumeration, whose order decides nothing.
Built(c) ==
  CASE c.kind = "MAJORITY" -> MajorityWindows(c.size)
    [] c.kind = "GRID" -> Crosses(c.size)
    [] c.kind = "MASKING" -> MaskingWindows(c.size, c.faults)
    [] c.kind = "PLANE" -> Lines(c.size)
    [] c.kind = "ALL" -> [S \in AllMajorities(c.size) |-> S]

Universe(c) ==
  CASE c.kind = "GRID" -> c.size * c.size
    [] c.kind = "PLANE" -> c.size * c.size + c.size + 1
    [] OTHER -> c.size

\* quorum_has_intersection, quorum_intersection_holds
Intersects(sets) == \A i, j \in DOMAIN sets : i # j => sets[i] \cap sets[j] # {}

\* quorum_has_byzantine_intersection; byzantine_quorum_intersection_check
MasksFaults(sets, f) ==
  \A i, j \in DOMAIN sets : i # j => Cardinality(sets[i] \cap sets[j]) >= 2 * f + 1
ByzantineCheck(n, S, T) == Cardinality(S \cap T) >= (n - 1) \div 3 + 1

ByzantineQuorumSize(f) == 2 * f + 1
ByzantineTotal(f) == 3 * f + 1

\* Some server may be ahead of the others at first.
QuorumsStart ==
  \E c \in Construction : \E ahead \in Servers(Universe(c)) :
    /\ quorums = c
    /\ register = [value |-> [s \in Servers(Universe(c)) |-> IF s = ahead THEN 1 ELSE 0],
                   clock |-> [s \in Servers(Universe(c)) |-> IF s = ahead THEN 1 ELSE 0],
                   written |-> -1, read |-> -1]

First == Built(quorums)[0]

\* quorum_write
Write(v) ==
  LET clock == Max({register.clock[s] : s \in First} \cup {0}) + 1
  IN  /\ clock <= MaxClock
      /\ register' = [register EXCEPT
           !.value = [s \in DOMAIN @ |-> IF s \in First THEN v ELSE @[s]],
           !.clock = [s \in DOMAIN @ |-> IF s \in First THEN clock ELSE @[s]],
           !.written = v]

\* quorum_read: the value with the greatest clock, the first such member's.
Read ==
  LET latest == {s \in First : \A t \in First : register.clock[t] <= register.clock[s]}
  IN  register' = [register EXCEPT !.read = register.value[Min(latest)]]

QuorumsStep ==
  /\ quorums.kind # "ALL"
  /\ Read \/ \E v \in RegisterValue : Write(v)
  /\ UNCHANGED quorums

--------------------------------------------------------------------------------
Prime(q) == q > 1 /\ \A d \in 2 .. q - 1 : q % d # 0

\* Two quorums always meet, as the constructions claim without looking, but the
\* lines only when their number of points is prime; masking quorums meet in more
\* servers than may lie twice over; every quorum is a majority where majorities
\* are built; Byzantine quorums of a system of just 3f + 1 meet in f + 1.
QuorumsMeet ==
  LET n == Universe(quorums)  sets == Built(quorums)
  IN  /\ \A i \in DOMAIN sets : sets[i] \subseteq Servers(n)
      /\ Intersects(sets) <=> (quorums.kind = "PLANE" => Prime(quorums.size))
      /\ quorums.kind = "MASKING" => MasksFaults(sets, quorums.faults)
      /\ quorums.kind \in {"MAJORITY", "ALL"} =>
           \A i \in DOMAIN sets : IsValid(sets[i], n) /\ Achieved(sets[i], n)
      /\ quorums.kind = "ALL" /\ n = ByzantineTotal(quorums.faults) =>
           \A S, T \in kSubset(ByzantineQuorumSize(quorums.faults), Servers(n)) :
             ByzantineCheck(n, S, T)

\* What is read after a write is what was written, though servers outside the
\* first quorum, or of it before, were ahead.
ReadsLast ==
  [][register'.read # register.read /\ register.written # -1 =>
       register'.read = register.written]_register
================================================================================
