-------------------------------- MODULE Types --------------------------------
(***************************************************************************)
(* The messages replicas exchange and the checks made on them at the edge  *)
(* (diem/types.go, genesis.go, verify.go).  A digest is identified with    *)
(* what it covers: a block contains the certificate of its parent and so   *)
(* its whole ancestry, and naming a block is naming its id.                *)
(*                                                                         *)
(*   Block  [author, round, payload, qc]                                   *)
(*   QC     [block, commits, signers]    a quorum over block; commits says *)
(*                                       whether its CommitStateId is set  *)
(*   TC     [round, reports]             reports[s]: s's high_qc round     *)
(*                                                                         *)
(* Signatures are taken to be unforgeable: a certificate here names only   *)
(* signers that did sign it, so what is left to verify is its shape.       *)
(***************************************************************************)
EXTENDS Quorums, SafetyRules

CONSTANT NoQC   \* an absent certificate

genesisBlock == [author |-> 0, round |-> 0, payload |-> 0, qc |-> NoQC]

genesisQC == [block |-> genesisBlock, commits |-> FALSE, signers |-> {}]

roundOf(b) == b.round

\* The block b extends; genesis has none, and stands for its own parent.
parentID(b) == IF b = genesisBlock THEN b ELSE b.qc.block

QCRound(qc) == qc.block.round

parentRound(qc) == roundOf(parentID(qc.block))

higher(a, b) == IF QCRound(a) > QCRound(b) THEN a ELSE b

------------------------------------------------------------------------------
wellFormed(round, qcRound, tc) ==
  /\ round # 0
  /\ IF consecutive(round, qcRound)
     THEN tc = NoTC
     ELSE tc # NoTC /\ consecutive(round, tc.round)

VerifyQC(qc) ==
  IF QCRound(qc) = 0
  THEN qc = genesisQC
  ELSE /\ qc.commits => consecutive(QCRound(qc), parentRound(qc))
       /\ Cardinality(qc.signers) >= QuorumSize(N)

VerifyTC(tc) ==
  tc # NoTC =>
    /\ tc.round # 0
    /\ Cardinality(DOMAIN tc.reports) >= QuorumSize(N)

VerifyProposal(m) ==
  LET b == m.block
  IN  /\ wellFormed(b.round, QCRound(b.qc), m.tc)
      /\ QCRound(b.qc) < b.round
      /\ VerifyQC(b.qc) /\ VerifyQC(m.highCommitQC) /\ VerifyTC(m.tc)

VerifyTimeout(m) ==
  /\ wellFormed(m.round, QCRound(m.highQC), m.tc)
  /\ VerifyQC(m.highQC) /\ VerifyQC(m.highCommitQC) /\ VerifyTC(m.tc)

VerifyVote(m) == VerifyQC(m.highCommitQC)

\* What the handlers of diemnet/server.go let through to the event queue; a
\* fetched block carries the id that was asked for.
Verify(m) ==
  CASE m.type = "proposal" -> VerifyProposal(m)
    [] m.type = "timeout"  -> VerifyTimeout(m)
    [] m.type = "vote"     -> VerifyVote(m)
    [] OTHER -> TRUE
==============================================================================
