---------------------------- MODULE QuorumsProofs ----------------------------
(* The arithmetic of quorum.go for every group size. *)
EXTENDS Quorums, FiniteSetTheorems, TLAPS

\* Two certificates share more signers than there can be Byzantine replicas.
\* quorum.go:10, "any two quorums still share f+1".
LEMMA QuorumSizesOverlap ==
  ASSUME NEW n \in Nat, n > 0
  PROVE  /\ Faulty(n) \in Nat
         /\ QuorumSize(n) \in Nat
         /\ 2 * QuorumSize(n) - n >= Faulty(n) + 1
  BY DEF Faulty, QuorumSize

\* The size is the smallest with that property, and the honest replicas reach
\* it on their own.
THEOREM QuorumSizeTight ==
  ASSUME NEW n \in Nat, n > 0
  PROVE  /\ 2 * (QuorumSize(n) - 1) - n < Faulty(n) + 1
         /\ QuorumSize(n) <= n - Faulty(n)
  BY DEF Faulty, QuorumSize

\* Any two signer sets verifyCert accepts have an honest replica in common.
THEOREM QuorumsShareHonest ==
  ASSUME NEW P \in Quorum, NEW Q \in Quorum
  PROVE  \E h \in Honest : h \in P /\ h \in Q
<1> USE ReplicasAssumption, ByzantineAssumption
<1>1. /\ P \in SUBSET Replicas /\ Q \in SUBSET Replicas
      /\ Cardinality(P) >= QuorumSize(N) /\ Cardinality(Q) >= QuorumSize(N)
  BY DEF Quorum
<1>2. N \in Nat /\ N > 0
  BY FS_CardinalityType, FS_EmptySet DEF N
<1>3. /\ IsFiniteSet(P) /\ IsFiniteSet(Q) /\ IsFiniteSet(Byzantine)
      /\ IsFiniteSet(P \cup Q) /\ Cardinality(P \cup Q) <= N
      /\ IsFiniteSet(P \cap Q)
  <2>1. P \cup Q \in SUBSET Replicas /\ P \cap Q \in SUBSET Replicas
    BY <1>1
  <2>2. QED
    BY <1>1, <2>1, FS_Subset DEF N
<1>4. Cardinality(P \cup Q) = Cardinality(P) + Cardinality(Q) - Cardinality(P \cap Q)
  BY <1>3, FS_Union
<1>5. /\ Cardinality(P) \in Nat /\ Cardinality(Q) \in Nat /\ Cardinality(P \cup Q) \in Nat
      /\ Cardinality(P \cap Q) \in Nat /\ Cardinality(Byzantine) \in Nat
  BY <1>3, FS_CardinalityType
<1>6. Cardinality(P \cap Q) > Cardinality(Byzantine)
  BY <1>1, <1>2, <1>3, <1>4, <1>5, QuorumSizesOverlap
<1>7. ~ (P \cap Q \in SUBSET Byzantine)
  BY <1>3, <1>5, <1>6, FS_Subset
<1>8. QED
  BY <1>1, <1>7 DEF Honest
==============================================================================
