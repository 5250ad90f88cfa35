----------------------------- MODULE SafetyRules -----------------------------
(***************************************************************************)
(* The rules by which a replica may sign (diem/safety.go), as predicates   *)
(* on rounds, the replica's two counters and a timeout certificate.  A     *)
(* certificate is a round and, for each signer, the high_qc round that     *)
(* signer reports.                                                         *)
(***************************************************************************)
EXTENDS Integers

CONSTANT NoTC   \* an absent timeout certificate

max(a, b) == IF a >= b THEN a ELSE b

consecutive(blockRound, round) == round + 1 = blockRound

\* qcRound is at least MaxHighQCRound(tc).
ReachesHighQCs(qcRound, tc) ==
  \A s \in DOMAIN tc.reports : qcRound >= tc.reports[s]

\* Mutant: the certificates the TC's quorum reported are ignored.
Mutant_safeToExtend(blockRound, qcRound, tc) ==
  tc # NoTC /\ consecutive(blockRound, tc.round)

safeToExtend(blockRound, qcRound, tc) ==
  /\ tc # NoTC
  /\ consecutive(blockRound, tc.round)
  /\ ReachesHighQCs(qcRound, tc)

\* Mutant: an off-by-one lets a replica vote twice in a round.
Mutant_safeToVote(highestVoteRound, blockRound, qcRound, tc) ==
  /\ blockRound >= highestVoteRound /\ blockRound > qcRound
  /\ \/ consecutive(blockRound, qcRound)
     \/ safeToExtend(blockRound, qcRound, tc)

safeToVote(highestVoteRound, blockRound, qcRound, tc) ==
  /\ blockRound > max(highestVoteRound, qcRound)
  /\ \/ consecutive(blockRound, qcRound)
     \/ safeToExtend(blockRound, qcRound, tc)

\* Mutant: a timeout may report a high_qc below one already endorsed.
Mutant_safeToTimeout(highestVoteRound, highestQCRound, round, qcRound, tc) ==
  /\ round > max(max(highestVoteRound - 1, 0), qcRound)
  /\ \/ consecutive(round, qcRound)
     \/ tc # NoTC /\ consecutive(round, tc.round)


safeToTimeout(highestVoteRound, highestQCRound, round, qcRound, tc) ==
  /\ qcRound >= highestQCRound
  /\ round > max(max(highestVoteRound - 1, 0), qcRound)
  /\ \/ consecutive(round, qcRound)
     \/ tc # NoTC /\ consecutive(round, tc.round)

\* commitStateIDCandidate: a vote commits the parent only over consecutive
\* rounds, and only when the ledger still has the parent's state.
commitStateIDCandidate(blockRound, qcRound, parentPending) ==
  consecutive(blockRound, qcRound) /\ parentPending
==============================================================================
