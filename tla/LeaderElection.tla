---------------------------- MODULE LeaderElection ----------------------------
(***************************************************************************)
(* Leader election (diem/leader.go), as operators on the ledger and on     *)
(* reputationLeaders, a function from the rounds with an elected leader.   *)
(* Replicas are numbered from 1, in the order the validators are sorted.   *)
(***************************************************************************)
EXTENDS BlockTree

CONSTANTS
  windowSize, excludeSize,
  pick(_, _)    \* pick(seed, n): a fixed hash of the seed, in 0..n-1

\* New refuses a ledger that forgets blocks an election reads.
ASSUME windowAssumption ==
  /\ windowSize \in Nat \ {0} /\ excludeSize \in Nat \ {0}
  /\ windowSize + excludeSize <= History
ASSUME validatorsAssumption == Replicas = 1..N

\* Mutant: the index into the validators is taken for the replica's id.
Mutant_GetLeader(reputationLeaders, round) ==
  IF round \in DOMAIN reputationLeaders THEN reputationLeaders[round] ELSE (round \div 2) % N

\* Two consecutive rounds each, unless a leader was elected.
GetLeader(reputationLeaders, round) ==
  IF round \in DOMAIN reputationLeaders
  THEN reputationLeaders[round]
  ELSE ((round \div 2) % N) + 1

\* The certificates met walking back from qc over committed blocks, newest
\* first: each certifies the child of a block the ledger still holds.
Walk(ledger, qc) ==
  LET steps == 1..(Cardinality(ledger.committed) + 1)
      back[i \in steps] ==
        IF i = 1 THEN qc
        ELSE IF back[i - 1] = NoQC THEN NoQC
        ELSE parentID(back[i - 1].block).qc
      held(i) == /\ back[i] \notin {NoQC, genesisQC}
                 /\ parentID(back[i].block) \in ledger.committed
      length == Cardinality({i \in steps : \A j \in 1..i : held(j)})
  IN  SubSeq(back, 1, length)

\* The candidates of electReputationLeader: the signers of the last windowSize
\* certificates of the walk but its excludeSize most recent authors.
Candidates(walk) ==
  LET author(i) == parentID(walk[i].block).author
      active == UNION {walk[i].signers : i \in DOMAIN walk \cap 1..windowSize}
      excluded == {author(i) : i \in {j \in DOMAIN walk :
                     Cardinality({author(k) : k \in 1..(j - 1)}) < excludeSize}}
  IN  active \ excluded

\* The candidate with n smaller ones.
Nth(S, n) == CHOOSE c \in S : Cardinality({d \in S : d < c}) = n

\* Elect the leader of the round after currentRound, and drop the rounds below.
Elect(reputationLeaders, candidates, currentRound, qc) ==
  LET elected == IF candidates = {} THEN {} ELSE {currentRound + 1}
  IN  [round \in {r \in elected \cup DOMAIN reputationLeaders : r >= currentRound} |->
        IF round \in elected
        THEN Nth(candidates, pick(QCRound(qc), Cardinality(candidates)))
        ELSE reputationLeaders[round]]

\* Mutant: a stale certificate elects too.
Mutant_UpdateLeaders(reputationLeaders, ledger, currentRound, qc) ==
  IF consecutive(QCRound(qc), parentRound(qc))
  THEN Elect(reputationLeaders, Candidates(Walk(ledger, qc)), currentRound, qc)
  ELSE reputationLeaders

\* Only a fresh certificate over a contiguous 2-chain elects.
UpdateLeaders(reputationLeaders, ledger, currentRound, qc) ==
  IF consecutive(QCRound(qc), parentRound(qc)) /\ consecutive(currentRound, QCRound(qc))
  THEN Elect(reputationLeaders, Candidates(Walk(ledger, qc)), currentRound, qc)
  ELSE reputationLeaders
==============================================================================
