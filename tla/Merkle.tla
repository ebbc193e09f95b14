------------------------------- MODULE Merkle -------------------------------
(***************************************************************************)
(* The receipt tree of packages/sdk/merkle.ts.  A hash is a number: leaves *)
(* are the numbers below Leaves, and hashing a pair of nodes, the smaller  *)
(* one first, pairs them injectively above the leaves, which is what       *)
(* collision resistance gives.  An odd node at the end of a level is       *)
(* promoted unchanged.                                                     *)
(***************************************************************************)
EXTENDS Naturals, Sequences

CONSTANT Leaves     \* every leaf hash is below this number

MerkleAssumption == Leaves \in Nat

Combine(a, b) ==
  LET lo == IF a <= b THEN a ELSE b
      hi == IF a <= b THEN b ELSE a
  IN  Leaves + (hi * (hi + 1)) \div 2 + lo

\* The level above: pairs combined, an odd last node promoted.
LevelAbove(level) ==
  [i \in 1 .. (Len(level) + 1) \div 2 |->
     IF 2 * i <= Len(level) THEN Combine(level[2 * i - 1], level[2 * i])
                            ELSE level[2 * i - 1]]

\* Every level from the leaves on; levels above the root repeat it.
LevelsOf(leaves) ==
  LET level[k \in 0 .. Len(leaves)] ==
        IF k = 0 THEN leaves ELSE LevelAbove(level[k - 1])
  IN  level

RootOf(leaves) == LevelsOf(leaves)[Len(leaves)][1]

\* Where the leaf at `index` has got to on each of n levels, counted from 0.
PlacesOf(n, index) ==
  LET place[k \in 0 .. n] == IF k = 0 THEN index - 1 ELSE place[k - 1] \div 2
  IN  place

Beside(i) == IF i % 2 = 0 THEN i + 1 ELSE i - 1

\* Mutant of SiblingAt: a promoted node is paired with itself.
SiblingOrSelf(level, i) == <<level[IF Beside(i) < Len(level) THEN Beside(i) + 1 ELSE i + 1]>>

\* The hash a level adds to the proof, none where the node is promoted.
SiblingAt(level, i) ==
  IF Beside(i) < Len(level) THEN <<level[Beside(i) + 1]>> ELSE <<>>

\* proofFor: the siblings from the leaf at `index` up to the root, level by level.
ProofsOf(leaves, index) ==
  LET proof[k \in 0 .. Len(leaves)] ==
        IF k = 0 THEN <<>>
        ELSE proof[k - 1] \o SiblingAt(LevelsOf(leaves)[k - 1],
                                       PlacesOf(Len(leaves), index)[k - 1])
  IN  proof

ProofOf(leaves, index) == ProofsOf(leaves, index)[Len(leaves)]

\* The hashes a verifier goes through, leaf first.
Climb(leaf, proof) ==
  LET computed[k \in 0 .. Len(proof)] ==
        IF k = 0 THEN leaf ELSE Combine(computed[k - 1], proof[k])
  IN  computed

VerifyReceipt(leaf, proof, root) == Climb(leaf, proof)[Len(proof)] = root
=============================================================================
