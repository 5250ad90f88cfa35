------------------------------- MODULE Quorums -------------------------------
(***************************************************************************)
(* The replica set, the faults it tolerates and the size of a certificate  *)
(* (diem/quorum.go).  A certificate is judged by its set of signers:       *)
(* Verifier.verifyCert wants every signature valid, no signer twice and at *)
(* least QuorumSize of them.                                               *)
(***************************************************************************)
EXTENDS Integers, FiniteSets

CONSTANTS
  Replicas,   \* the validators
  Byzantine   \* those that may sign anything at all

\* Faulty(n): how many Byzantine replicas a group of n tolerates.
Faulty(n) == (n - 1) \div 3

\* QuorumSize(n): ceil((n + f + 1) / 2), written as the code writes it.
QuorumSize(n) == (n + Faulty(n) + 2) \div 2

N == Cardinality(Replicas)

ASSUME ReplicasAssumption ==
  /\ IsFiniteSet(Replicas)
  /\ Replicas # {}

ASSUME ByzantineAssumption ==
  /\ Byzantine \subseteq Replicas
  /\ Cardinality(Byzantine) <= Faulty(N)

Honest == Replicas \ Byzantine

\* The signer sets verifyCert accepts.
Quorum == {Q \in SUBSET Replicas : Cardinality(Q) >= QuorumSize(N)}
==============================================================================
