------------------------------- MODULE VoteBook -------------------------------
(***************************************************************************)
(* One replica as the collector of votes (processVoteMsg of diem/core.go   *)
(* over the block tree), whatever its peers send: a vote names a block and *)
(* a commit decision its sender picks freely, nothing binds the round it   *)
(* claims, and a sender may vote again and again.  Rounds move on as the   *)
(* rest of the replica learns certificates, and signing may fail.          *)
(***************************************************************************)
EXTENDS BlockTree

CONSTANTS
  Choices,      \* what votes are for: [block, commits]
  CommitQCs,    \* the commit certificates votes carry
  maxRoundLead, \* how far ahead of the current round a vote may claim
  MaxRound      \* the last round the replica enters

VARIABLES
  tree,          \* the block tree
  currentRound,  \* of the pacemaker
  certs          \* certificates assembled in rounds whose slots are not pruned since

vars == <<tree, currentRound, certs>>

VoteMsg ==
  {[block |-> c.block, commits |-> c.commits, sender |-> s, highCommitQC |-> qc] :
     c \in Choices, s \in Replicas, qc \in CommitQCs}

Init ==
  /\ tree = NewBlockTree
  /\ currentRound = 1
  /\ certs = {}

\* The certificates in C of rounds that qc does not prune.
Unpruned(C, qc) ==
  IF qc.commits THEN {c \in C : QCRound(c) > parentRound(qc)} ELSE C

\* processCertificateQC, as far as it matters here.
Learn(t, C, qc) ==
  /\ tree' = ProcessQC(t, qc)
  /\ certs' = Unpruned(C, qc)
  /\ currentRound' = max(currentRound, QCRound(qc) + 1)
  /\ currentRound' <= MaxRound

\* A vote that completes no certificate, or one that cannot be signed.
Collect(t, v) ==
  /\ tree' = IF Counts(t, v) THEN Accumulate(t, v) ELSE t
  /\ certs' = Unpruned(certs, v.highCommitQC)
  /\ UNCHANGED currentRound

\* A vote that completes one.
Assemble(v, counted) ==
  /\ counted.qc # NoQC
  /\ Learn(counted.tree, Unpruned(certs, v.highCommitQC) \cup {counted.qc}, counted.qc)

\* Mutant: any round of the future will do.
Mutant_InWindow(round) == round + 1 >= currentRound

InWindow(round) == round <= currentRound + maxRoundLead /\ round + 1 >= currentRound

processVoteMsg(v) ==
  /\ InWindow(v.block.round)
  /\ \/ Collect(ProcessQC(tree, v.highCommitQC), v)
     \/ Assemble(v, ProcessVote(tree, v))

\* A proposal or a timeout brings a certificate.
processCertificateQC(qc) == Learn(tree, certs, qc)

\* A timeout certificate ends the round.
AdvanceRoundTC ==
  /\ currentRound < MaxRound
  /\ currentRound' = currentRound + 1
  /\ UNCHANGED <<tree, certs>>

Next ==
  \/ \E v \in VoteMsg : processVoteMsg(v)
  \/ \E qc \in CommitQCs : processCertificateQC(qc)
  \/ AdvanceRoundTC

Spec == Init /\ [][Next]_vars

------------------------------------------------------------------------------
\* However often peers vote and for however many blocks, a collector assembles
\* one certificate in a round at most until a commit prunes the round
\* (the slots of ProcessVote): neither late votes nor those for another block
\* complete a second one.
OneCertificateCollected ==
  \A c, d \in certs : QCRound(c) = QCRound(d) => c = d

\* What a collector assembles its peers accept: as many different signers as a
\* quorum has, also after a failed signature left a full bucket behind.
CertificatesStand ==
  \A c \in certs : Cardinality(c.signers) >= QuorumSize(N)

\* What peers can make a collector keep is bounded: nothing of a round beyond
\* the window (processVoteMsg), and in each round one signature for a peer.
VotesBounded ==
  /\ \A k \in tree.voters : k.round <= currentRound + maxRoundLead
  /\ \A v \in DOMAIN tree.votes : v.block.round <= currentRound + maxRoundLead
  /\ BagCardinality(tree.votes) <= Cardinality(tree.voters)
==============================================================================
