---------------------------- MODULE SafetyRestartMC ----------------------------
(* Two leaders' chains over genesis, block by block in the same rounds. *)
EXTENDS SafetyRestart, TLC

MCRound == "g" :> 0 @@ "x1" :> 1 @@ "y1" :> 1 @@ "x2" :> 2 @@ "y2" :> 2
MCParent == "g" :> "g" @@ "x1" :> "g" @@ "y1" :> "g" @@ "x2" :> "x1" @@ "y2" :> "y1"
MCBlocks == DOMAIN MCRound

\* The certificates of round 1 that justify most.
MCTimeoutCerts ==
  [round : {1}, reports : UNION {[Q -> {0}] : Q \in {R \in Quorum : Cardinality(R) = QuorumSize(N)}}]

Symmetry == Permutations(Steady)
==============================================================================
