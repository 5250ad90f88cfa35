------------------------------- MODULE SafetyMC -------------------------------
(* Small instances of Safety: one Byzantine replica out of four. *)
EXTENDS Safety, TLC

CONSTANTS MaxRound

\* A block is named by the rounds of its ancestry: b12 is the block of round 2
\* over the block of round 1.  There is a 2-chain, and in the rounds of its
\* second block and after it one that goes back to genesis.
ParentOf == "g" :> "g" @@ "b1" :> "g" @@ "b2" :> "g" @@ "b12" :> "b1" @@ "b3" :> "g"
RoundOf == "g" :> 0 @@ "b1" :> 1 @@ "b2" :> 2 @@ "b12" :> 2 @@ "b3" :> 3
Shapes == DOMAIN RoundOf

MCRound == [b \in Blocks |-> RoundOf[b]]
MCParent == [b \in Blocks |-> ParentOf[b]]

\* A timeout of the last round justifies no block of the instance.
MCRounds == 1 .. MaxRound - 1

\* Signers beyond a smallest quorum, an honest signer in place of a Byzantine
\* one, and a higher report all make a certificate justify less.  So the
\* smallest quorums with every Byzantine member in them, reporting 0, justify
\* whatever any certificate justifies.
MCTimeoutCerts ==
  UNION {[round : MCRounds,
          reports : {f \in [Q -> 0 .. MaxRound - 2] :
                       \A s \in Byzantine : f[s] = 0}] :
           Q \in {Q \in Quorum : /\ Cardinality(Q) = QuorumSize(N)
                                 /\ Byzantine \subseteq Q}}

Symmetry == Permutations(Honest)
==============================================================================
