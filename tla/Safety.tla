-------------------------------- MODULE Safety --------------------------------
(***************************************************************************)
(* The Safety modules of all honest replicas (diem/safety.go) against an   *)
(* environment that may call them in any order with any certificate that   *)
(* verifies.  Safety is "the one component assumed to survive the rest     *)
(* being compromised", so nothing else of a replica is trusted here: the   *)
(* environment stands for the rest of every honest replica, for the        *)
(* network and for the Byzantine replicas, which sign whatever they like.  *)
(*                                                                         *)
(* A block is identified by its id, a digest over its round and the        *)
(* certificate of its parent, so Round and Parent are functions of the     *)
(* block.  A quorum certificate is identified with the block its VoteInfo  *)
(* names and whether its LedgerCommitInfo commits; it exists as soon as    *)
(* a quorum has signed that pair.                                          *)
(***************************************************************************)
EXTENDS Quorums, SafetyRules

CONSTANTS
  Blocks,        \* the blocks anybody ever proposes
  Genesis,       \* the hardcoded one
  Round,         \* Round[b]: b.round
  Parent,        \* Parent[b]: the block b.qc certifies
  Rounds,        \* the rounds a replica may try to time out of
  TimeoutCerts,  \* the timeout certificates anybody ever assembles
  SignMayFail,   \* whether Crypto.Sign may return an error
  ParentMayBeGone \* whether the ledger may have pruned a voted block's parent

VARIABLES
  highestVoteRound,  \* highestVoteRound[h]: last round h voted or timed out in
  highestQCRound,    \* highestQCRound[h]: highest certified round h endorsed
  votes,             \* the votes honest replicas have signed
  timeouts           \* the timeouts honest replicas have signed

vars == <<highestVoteRound, highestQCRound, votes, timeouts>>

\* A TimeoutCert is a round and, for each signer, the high_qc round it reports.
ASSUME BlocksAssumption ==
  /\ Genesis \in Blocks
  /\ Round \in [Blocks -> Nat]
  /\ Parent \in [Blocks -> Blocks]
  /\ Round[Genesis] = 0
  /\ Parent[Genesis] = Genesis

ASSUME CertsAssumption ==
  /\ SignMayFail \in BOOLEAN /\ ParentMayBeGone \in BOOLEAN
  /\ Rounds \subseteq Nat
  /\ NoTC \notin TimeoutCerts
  /\ \A tc \in TimeoutCerts :
       /\ tc.round \in Nat
       /\ tc.reports \in [DOMAIN tc.reports -> Nat]

Vote == [signer : Honest, block : Blocks, commits : BOOLEAN]
Timeout == [signer : Honest, round : Nat, qcRound : Nat]

------------------------------------------------------------------------------
(* Certificates that pass the Verifier. *)

\* Q has signed block b with the given commit decision; the Byzantine part of
\* Q signs anything.
Signed(Q, b, commits) ==
  \A h \in Q \cap Honest :
    [signer |-> h, block |-> b, commits |-> commits] \in votes

\* Mutant: f+1 signatures, which amplify a timeout, are taken for a quorum.
Mutant_VerifyQC(b, commits) ==
  \/ b = Genesis /\ ~commits
  \/ /\ Round[b] # 0
     /\ commits => consecutive(Round[b], Round[Parent[b]])
     /\ \E Q \in SUBSET Replicas : Cardinality(Q) > Faulty(N) /\ Signed(Q, b, commits)

\* VerifyQC: a quorum over the LedgerCommitInfo, a commit only over consecutive
\* rounds, and in round 0 nothing but the hardcoded certificate.
VerifyQC(b, commits) ==
  \/ b = Genesis /\ ~commits
  \/ /\ Round[b] # 0
     /\ commits => consecutive(Round[b], Round[Parent[b]])
     /\ \E Q \in Quorum : Signed(Q, b, commits)

\* VerifyTC: a quorum, each member over the round and its own report.  An
\* absent certificate is valid.
VerifyTC(tc) ==
  tc # NoTC =>
    /\ tc.round # 0
    /\ DOMAIN tc.reports \in Quorum
    /\ \A h \in DOMAIN tc.reports \cap Honest :
         [signer |-> h, round |-> tc.round, qcRound |-> tc.reports[h]]
           \in timeouts

Certified(b) == \E commits \in BOOLEAN : VerifyQC(b, commits)

validSignatures(b, tc) == Certified(b) /\ VerifyTC(tc)

------------------------------------------------------------------------------
Init ==
  /\ highestVoteRound = [h \in Honest |-> 0]
  /\ highestQCRound = [h \in Honest |-> 0]
  /\ votes = {}
  /\ timeouts = {}

\* MakeVote on a block the ledger has executed (it declines, changing neither
\* counter, on any other).  parentPending is the ledger's answer about the
\* parent; signing may fail, after the counters have moved.
MakeVote(h, b, tc, parentPending) ==
  LET qcRound == Round[Parent[b]]
      vote == [signer |-> h, block |-> b,
               commits |-> commitStateIDCandidate(Round[b], qcRound, parentPending)]
  IN  /\ safeToVote(highestVoteRound[h], Round[b], qcRound, tc)
      /\ validSignatures(Parent[b], tc)
      /\ highestQCRound' = [highestQCRound EXCEPT ![h] = max(qcRound, @)]
      /\ highestVoteRound' = [highestVoteRound EXCEPT ![h] = max(Round[b], @)]
      /\ \/ votes' = votes \cup {vote}
         \/ SignMayFail /\ votes' = votes
      /\ UNCHANGED timeouts

\* MakeTimeout for a round, reporting the certificate of block b as high_qc.
MakeTimeout(h, round, b, tc) ==
  LET timeout == [signer |-> h, round |-> round, qcRound |-> Round[b]]
  IN  /\ safeToTimeout(highestVoteRound[h], highestQCRound[h], round, Round[b], tc)
      /\ validSignatures(b, tc)
      /\ highestVoteRound' = [highestVoteRound EXCEPT ![h] = max(round, @)]
      /\ \/ timeouts' = timeouts \cup {timeout}
         \/ SignMayFail /\ timeouts' = timeouts
      /\ UNCHANGED <<highestQCRound, votes>>

Next ==
  \E h \in Honest, b \in Blocks, tc \in {c \in TimeoutCerts : VerifyTC(c)} \cup {NoTC} :
    \/ \E parentPending \in {TRUE, ~ParentMayBeGone} : MakeVote(h, b, tc, parentPending)
    \/ \E round \in Rounds : MakeTimeout(h, round, b, tc)

Spec == Init /\ [][Next]_vars

------------------------------------------------------------------------------
(* What the counters and the certificates guarantee. *)

TypeOK ==
  /\ highestVoteRound \in [Honest -> Nat]
  /\ highestQCRound \in [Honest -> Nat]
  /\ votes \subseteq Vote
  /\ timeouts \subseteq Timeout

\* The ancestors of each block, itself included: what is in every set that
\* holds the block and is closed under Parent.
Ancestors ==
  [b \in Blocks |->
    {a \in Blocks : \A S \in SUBSET Blocks :
       (b \in S /\ \A x \in S : Parent[x] \in S) => a \in S}]

Extends(c, b) == b \in Ancestors[c]

\* A commit certificate over b commits b's parent (BlockTree.ProcessQC).
Committed == {Parent[b] : b \in {c \in Blocks : VerifyQC(c, TRUE)}}

\* DiemBFT Property 1: at most one block is certified per round, whatever the
\* Byzantine replicas sign (safeToVote votes in strictly increasing rounds).
OneCertificatePerRound ==
  \A b, c \in Blocks :
    Certified(b) /\ Certified(c) /\ Round[b] = Round[c] => b = c

\* DiemBFT Property 2: every certified block at or above a committed one
\* extends it, so no certificate can ever commit a conflicting branch.
CertifiedExtendsCommitted ==
  \A b \in Committed, c \in Blocks :
    Certified(c) /\ Round[c] >= Round[b] => Extends(c, b)

\* DiemBFT Lemma 2: once a 2-chain in rounds r, r+1 has committed, every
\* timeout certificate of round r+1 or later reports a certified round of at
\* least r.  This is what safeToExtend reads back out of the certificate.
TimeoutCertsSeeCommits ==
  \A tc \in TimeoutCerts, b \in Committed :
    VerifyTC(tc) /\ tc.round > Round[b] =>
      \E s \in DOMAIN tc.reports : tc.reports[s] >= Round[b]

Chain == INSTANCE AgreedChain WITH decided <- Committed

\* The commit certificates that ever come to exist decide blocks of a single
\* branch and never take one back: the Safety modules implement AgreedChain.
RefinesAgreedChain == Chain!Spec

------------------------------------------------------------------------------
(* The inductive invariant. *)

\* The counters cover everything the replica has signed.
CountersCover ==
  /\ \A v \in votes : /\ Round[v.block] <= highestVoteRound[v.signer]
                       /\ Round[Parent[v.block]] <= highestQCRound[v.signer]
                       /\ Round[Parent[v.block]] < Round[v.block]
  /\ \A t \in timeouts : t.round <= highestVoteRound[t.signer]

\* A replica votes for one block per round, and only over a certified parent.
VotesSound ==
  /\ \A v, w \in votes :
       v.signer = w.signer /\ Round[v.block] = Round[w.block] => v.block = w.block
  /\ \A v \in votes : Certified(Parent[v.block])

\* A timeout reports at least what its signer had endorsed up to that round.
\* This is why MakeTimeout burns the round for voting and why safeToTimeout
\* refuses a high_qc below highestQCRound.
ReportsCoverVotes ==
  \A t \in timeouts, v \in votes :
    t.signer = v.signer /\ Round[v.block] <= t.round =>
      Round[Parent[v.block]] <= t.qcRound

\* No quorum will ever sign b: enough replicas have moved past its round
\* without voting for it.
Dead(b) ==
  \E Q \in Quorum : \A h \in Q \cap Honest :
    /\ Round[b] <= highestVoteRound[h]
    /\ \A v \in votes : v.signer = h => v.block # b

\* Whoever votes for a block knows that each earlier 2-chain is either below
\* the block or will never be certified.
VotedExtendsOrDead ==
  \A v \in votes, b \in Blocks :
    consecutive(Round[b], Round[Parent[b]]) /\ Round[b] < Round[v.block] =>
      Extends(v.block, Parent[b]) \/ Dead(b)

IInv ==
  /\ TypeOK
  /\ CountersCover
  /\ VotesSound
  /\ ReportsCoverVotes
  /\ VotedExtendsOrDead
==============================================================================
