-------------------------------- MODULE PartsMC --------------------------------
(***************************************************************************)
(* The parts of a replica that only answer calls: the ledger, the          *)
(* collection of votes, and the two sources of transactions a leader may   *)
(* be configured with.  They share no state, so that a behaviour calls one *)
(* of them, and leaves nothing out that calls of several would show.       *)
(***************************************************************************)
EXTENDS Workload, Sequences, FiniteSets, TLC

CONSTANTS
  Genesis, Round(_), Parent(_), History, Blocks,                    \* Ledger
  Replicas, Byzantine, NoTC, NoQC, Choices, CommitQCs, maxRoundLead, MaxRound, \* VoteBook
  Txns, Capacity                                                    \* Mempool

VARIABLES
  part,                          \* the part called
  ledger, delivered, received,
  tree, currentRound, certs,
  q, taking, out, proposed

ledgerVars == <<ledger, delivered, received>>
voteVars == <<tree, currentRound, certs>>
poolVars == <<q, taking, out, proposed>>

Led == INSTANCE Ledger
Votes == INSTANCE VoteBook
FIFO == INSTANCE Mempool

------------------------------------------------------------------------------
\* A chain of four blocks, a fork of two at genesis and one above it.
MCBlocks == {"g", "a1", "a2", "a4", "a5", "x2", "x3", "x5"}

MCRound(b) ==
  [g |-> 0, a1 |-> 1, a2 |-> 2, a4 |-> 4, a5 |-> 5, x2 |-> 2, x3 |-> 3, x5 |-> 5][b]

MCParent(b) ==
  [g |-> "g", a1 |-> "g", a2 |-> "a1", a4 |-> "a2", a5 |-> "a4",
   x2 |-> "g", x3 |-> "x2", x5 |-> "a1"][b]

T == INSTANCE Types

\* A chain of two blocks, a rival of each, and a block nobody proposed.
Over(qc, round, payload) == [author |-> 0, round |-> round, payload |-> payload, qc |-> qc]
QC(b, commits) == [block |-> b, commits |-> commits, signers |-> Replicas]

First == Over(T!genesisQC, 1, 1)
Rival == Over(T!genesisQC, 1, 2)
Second == Over(QC(First, FALSE), 2, 1)
Far == Over(T!genesisQC, 3, 1)

MCChoices ==
  [block : {First, Rival, Far}, commits : {FALSE}] \cup [block : {Second}, commits : {TRUE}]
MCCommitQCs == {T!genesisQC, QC(Second, TRUE)}

------------------------------------------------------------------------------
PartsInit ==
  /\ part \in {"ledger", "votes", "pool", "payload"}
  /\ Led!Init /\ Votes!Init /\ FIFO!Init /\ Init

CallLedger == part = "ledger" /\ Led!Next /\ UNCHANGED <<part, voteVars, poolVars, vars>>
CallVotes == part = "votes" /\ Votes!Next /\ UNCHANGED <<part, ledgerVars, poolVars, vars>>
CallPool == part = "pool" /\ FIFO!Next /\ UNCHANGED <<part, ledgerVars, voteVars, vars>>
CallPayload == part = "payload" /\ Next /\ UNCHANGED <<part, ledgerVars, voteVars, poolVars>>

PartsNext == CallLedger \/ CallVotes \/ CallPool \/ CallPayload

PartsSpec ==
  /\ PartsInit
  /\ [][PartsNext]_<<part, vars, ledgerVars, voteVars, poolVars>>
  /\ FIFO!Fairness

------------------------------------------------------------------------------
\* OnCommit sees one unbroken branch from genesis to the frontier.
LogIsChain == Led!LogIsChain

\* What is speculated does not depend on the order of arrivals and commits.
ArrivalOrderIrrelevant == Led!ArrivalOrderIrrelevant

\* No held block is stuck: its parent may still come, and can be asked for.
HeldBlocksWait == Led!HeldBlocksWait

\* The ledger retains the last History committed blocks for leader election.
RetainsHistory == Led!RetainsHistory

\* A collector assembles one certificate in a round at most (ProcessVote).
OneCertificateCollected == Votes!OneCertificateCollected

\* What a collector assembles its peers accept, also after a failed signature.
CertificatesStand == Votes!CertificatesStand

\* What peers can make a collector keep is bounded (processVoteMsg).
VotesBounded == Votes!VotesBounded

\* A batch is taken as if at one instant (GetTransactions).
BatchesAreAtomic == FIFO!BatchesAreAtomic

\* A flood of transactions does not keep the proposer (GetTransactions).
FloodDoesNotStall == FIFO!FloodDoesNotStall
==============================================================================
