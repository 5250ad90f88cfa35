--------------------------------- MODULE Core ---------------------------------
(***************************************************************************)
(* The consensus core of every replica (diem/core.go, diem/pacemaker.go),  *)
(* composed with its block tree, ledger, safety rules and leader election, *)
(* over a network that loses, repeats, delays and reorders what it is      *)
(* given.  A handler runs to completion on the consensus goroutine, so a   *)
(* step of a replica is one handler: an operator from the replica's state  *)
(* to its next one, which collects in `out' what it sends.                 *)
(*                                                                         *)
(* A replica that is down takes no step.                                   *)
(***************************************************************************)
EXTENDS LeaderElection

CONSTANTS
  MaxRound,      \* no replica enters a later round
  TimerReplicas, \* the replicas whose timer may expire
  TimerRounds,   \* the rounds whose timer may expire
  Redelivery     \* whether the network may repeat a message

VARIABLES
  replica,   \* replica[r]: the state of live replica r
  net,       \* every message ever sent
  received   \* received[r]: what the network will not deliver to r again

vars == <<replica, net, received>>

maxRoundLead == 4

NewCore ==
  [tree |-> NewBlockTree, highestVoteRound |-> 0, highestQCRound |-> 0,
   currentRound |-> 0, lastRoundTC |-> NoTC, pendingTimeouts |-> {},
   reputationLeaders |-> <<>>, payloads |-> 0, out |-> {}]

Send(s, m) == [s EXCEPT !.out = @ \cup {m}]

leader(s, round) == GetLeader(s.reputationLeaders, round)

\* Mutant: the certificate of the last round is sent along unconditionally.
Mutant_justifyingTC(qcRound, round, tc) == tc

justifyingTC(qcRound, round, tc) == IF consecutive(round, qcRound) THEN NoTC ELSE tc

------------------------------------------------------------------------------
(* Pacemaker *)

\* Mutant: the timeouts of earlier rounds are kept.
Mutant_startTimer(s, newRound) == [s EXCEPT !.currentRound = newRound]

\* Enter a round and forget the timeouts of the rounds below it.
startTimer(s, newRound) ==
  [s EXCEPT !.currentRound = newRound,
            !.pendingTimeouts = {i \in @ : i.round >= newRound}]

\* Mutant: the certificate the round was entered on is not kept.
Mutant_AdvanceRoundTC(s, tc) ==
  IF tc # NoTC /\ tc.round >= s.currentRound THEN startTimer(s, tc.round + 1) ELSE s

AdvanceRoundTC(s, tc) ==
  IF tc # NoTC /\ tc.round >= s.currentRound
  THEN startTimer([s EXCEPT !.lastRoundTC = tc], tc.round + 1)
  ELSE s

AdvanceRoundQC(s, qc) ==
  IF QCRound(qc) >= s.currentRound
  THEN startTimer([s EXCEPT !.lastRoundTC = NoTC], QCRound(qc) + 1)
  ELSE s

\* Broadcast a timeout of the current round, if Safety signs one.
SendTimeout(r, s) ==
  LET round == s.currentRound
      highQC == s.tree.highQC
      tc == s.lastRoundTC
  IN  IF /\ VerifyQC(highQC) /\ VerifyTC(tc)
         /\ safeToTimeout(s.highestVoteRound, s.highestQCRound, round, QCRound(highQC), tc)
      THEN Send([s EXCEPT !.highestVoteRound = max(round, @)],
                [type |-> "timeout", round |-> round, highQC |-> highQC,
                 tc |-> justifyingTC(QCRound(highQC), round, tc),
                 highCommitQC |-> s.tree.highCommitQC, sender |-> r])
      ELSE s

\* The timer is re-armed first, whatever Safety decides.
LocalTimeoutRound(r, s) == SendTimeout(r, startTimer(s, s.currentRound))

\* The timeouts counted for a round.
Reports(s, round) == {i \in s.pendingTimeouts : i.round = round}

AddTimeout(s, m) ==
  [s EXCEPT !.pendingTimeouts = @ \cup
    {[round |-> m.round, sender |-> m.sender, qcRound |-> QCRound(m.highQC)]}]

\* The certificate the timeouts infos of a round make, when they are just a
\* quorum.
CompletedTC(round, infos) ==
  IF Cardinality(infos) # QuorumSize(N) THEN NoTC
  ELSE [round |-> round, reports |-> [p \in {i.sender : i \in infos} |->
          (CHOOSE i \in infos : i.sender = p).qcRound]]

\* Count m, unless it is for a past round or its sender is counted already.
\* With the f+1st timeout of a round, give up the current round too.  The
\* replica, and the certificate m completed.
ProcessRemoteTimeout(r, s, m) ==
  LET counted == AddTimeout(s, m)
      infos == Reports(counted, m.round)
  IN  IF m.round < s.currentRound \/ \E i \in Reports(s, m.round) : i.sender = m.sender
      THEN [core |-> s, tc |-> NoTC]
      ELSE [core |-> IF Cardinality(infos) = Faulty(N) + 1
                     THEN LocalTimeoutRound(r, counted)
                     ELSE counted,
            tc |-> CompletedTC(m.round, infos)]

------------------------------------------------------------------------------
(* Core *)

ProcessTreeQC(s, qc) == [s EXCEPT !.tree = ProcessQC(@, qc)]

ElectLeaders(s, qc) ==
  [s EXCEPT !.reputationLeaders = UpdateLeaders(@, s.tree.ledger, s.currentRound, qc)]

\* Leader election reads the round the certificate arrived in, so it comes
\* before the pacemaker.
processCertificateQC(s, qc) == AdvanceRoundQC(ElectLeaders(ProcessTreeQC(s, qc), qc), qc)

\* Propose, if this replica leads the round it just entered.
processNewRoundEvent(r, s, tc) ==
  LET round == s.currentRound
      b == GenerateBlock(s.tree, r, s.payloads + 1, round)
      proposal == [type |-> "proposal", block |-> b,
                   tc |-> justifyingTC(QCRound(b.qc), round, tc),
                   highCommitQC |-> s.tree.highCommitQC, sender |-> r]
  IN  IF leader(s, round) = r
      THEN Send([s EXCEPT !.payloads = @ + 1], proposal)
      ELSE s

Start(r) == processNewRoundEvent(r, AdvanceRoundQC(NewCore, genesisQC), NoTC)

\* Execute b, and ask every peer for the oldest block missing below it.
insert(r, s, b) ==
  LET tree == ExecuteAndInsert(s.tree, b)
  IN  [s EXCEPT !.tree = tree,
                !.out = @ \cup {[type |-> "request", block |-> p, sender |-> r] :
                                 p \in L!Missing(tree.ledger, b)}]

\* MakeVote, and the vote's way to the leader of the next round.
vote(r, s, b, tc) ==
  LET qcRound == QCRound(b.qc)
      commits == commitStateIDCandidate(b.round, qcRound,
                   L!PendingState(s.tree.ledger, parentID(b)))
  IN  IF /\ VerifyQC(b.qc) /\ VerifyTC(tc)
         /\ safeToVote(s.highestVoteRound, b.round, qcRound, tc)
         /\ L!PendingState(s.tree.ledger, b)
      THEN Send([s EXCEPT !.highestQCRound = max(qcRound, @),
                          !.highestVoteRound = max(b.round, @)],
                [type |-> "vote", block |-> b, commits |-> commits,
                 highCommitQC |-> s.tree.highCommitQC, sender |-> r,
                 to |-> leader(s, b.round + 1)])
      ELSE s

\* What a message carries is processed whoever sent it: the certificate it is
\* built over, the highest commit certificate, the timeout certificate.
processCertificates(s, qc, highCommitQC, tc) ==
  AdvanceRoundTC(processCertificateQC(processCertificateQC(s, qc), highCommitQC), tc)

\* Execute and vote for the block of the leader of the current round.
acceptProposal(r, s, m) ==
  LET b == m.block
      round == s.currentRound
  IN  IF b.round = round /\ m.sender = leader(s, round) /\ b.author = m.sender
      THEN vote(r, insert(r, s, b), b, m.tc)
      ELSE s

processProposalMsg(r, s, m) ==
  acceptProposal(r, processCertificates(s, m.block.qc, m.highCommitQC, m.tc), m)

\* Enter the next round on a completed certificate.
enterOnTC(r, counted) ==
  IF counted.tc = NoTC
  THEN counted.core
  ELSE processNewRoundEvent(r, AdvanceRoundTC(counted.core, counted.tc), counted.tc)

processTimeoutMsg(r, s, m) ==
  enterOnTC(r, ProcessRemoteTimeout(r,
    processCertificates(s, m.highQC, m.highCommitQC, m.tc), m))

\* Mutant: every certificate fires a new-round event, as in the paper.
Mutant_proposeIfMoved(r, s, round) == processNewRoundEvent(r, s, NoTC)

\* A late certificate of a round already left fires no new-round event.
proposeIfMoved(r, s, round) ==
  IF s.currentRound = round THEN s ELSE processNewRoundEvent(r, s, NoTC)

\* Enter the next round on a completed certificate.
enterOnQC(r, s, counted) ==
  LET collected == [s EXCEPT !.tree = counted.tree]
  IN  IF counted.qc = NoQC
      THEN collected
      ELSE proposeIfMoved(r, processCertificateQC(collected, counted.qc), s.currentRound)

\* Votes of rounds too far ahead or behind are dropped.
processVoteMsg(r, s, m) ==
  LET round == m.block.round
  IN  IF round > s.currentRound + maxRoundLead \/ round + 1 < s.currentRound
      THEN s
      ELSE enterOnQC(r, s, ProcessVote(s.tree, m))

\* Answer a peer's request from the pending tree or the committed blocks.
serveBlock(s, m) ==
  IF Serves(s.tree, m.block)
  THEN Send(s, [type |-> "block", block |-> m.block, to |-> m.sender])
  ELSE s

------------------------------------------------------------------------------
\* What replica r may find in its queue: a message sent to it that passes the
\* edge, or the expiry of the timer of its current round.
Events(r) ==
  {m \in net \ received[r] : (m.type \in {"vote", "block"} => m.to = r) /\ Verify(m)}
    \cup {[type |-> "local"] : k \in {replica[q].currentRound : q \in TimerReplicas \cap {r}}
                                     \cap TimerRounds}

\* Replica r ends the handler of e in state s.  What is sent again may arrive
\* again; an event without effect counts as still on its way.
Finish(r, e, s) ==
  /\ s.currentRound <= MaxRound
  /\ replica' = [replica EXCEPT ![r] = [s EXCEPT !.out = {}]]
  /\ net' = net \cup s.out
  /\ received' = IF Redelivery THEN received
                 ELSE IF replica' = replica /\ net' = net THEN received
                 ELSE [q \in Honest |->
                        (received[q] \cup (IF q = r THEN {e} \cap net ELSE {})) \ s.out]

OnProposal(r, e) == e.type = "proposal" /\ Finish(r, e, processProposalMsg(r, replica[r], e))

OnVote(r, e) == e.type = "vote" /\ Finish(r, e, processVoteMsg(r, replica[r], e))

OnTimeout(r, e) == e.type = "timeout" /\ Finish(r, e, processTimeoutMsg(r, replica[r], e))

OnLocalTimeout(r, e) == e.type = "local" /\ Finish(r, e, LocalTimeoutRound(r, replica[r]))

\* Mutant: a fetched block is executed, but the walk back stops at it.
Mutant_OnBlock(r, e) ==
  /\ e.type = "block"
  /\ Finish(r, e, [replica[r] EXCEPT !.tree = ExecuteAndInsert(@, e.block)])

OnBlock(r, e) == e.type = "block" /\ Finish(r, e, insert(r, replica[r], e.block))

OnBlockRequest(r, e) == e.type = "request" /\ Finish(r, e, serveBlock(replica[r], e))

Init ==
  LET started == [r \in Honest |-> Start(r)]
  IN  /\ replica = [r \in Honest |-> [started[r] EXCEPT !.out = {}]]
      /\ net = UNION {started[r].out : r \in Honest}
      /\ received = [r \in Honest |-> {}]

Next ==
  \E r \in Honest : \E e \in Events(r) :
    \/ OnProposal(r, e)
    \/ OnVote(r, e)
    \/ OnTimeout(r, e)
    \/ OnLocalTimeout(r, e)
    \/ OnBlock(r, e)
    \/ OnBlockRequest(r, e)

Spec == Init /\ [][Next]_vars

\* Whether a handler of r that ends in state s would change nothing, or leave
\* the bounds.
Idle(r, s) ==
  s.currentRound <= MaxRound => [s EXCEPT !.out = {}] = replica[r] /\ s.out \subseteq net

\* No event changes anything any more.
Quiescent ==
  \A r \in Honest : \A e \in Events(r) :
    Idle(r,
      CASE e.type = "proposal" -> processProposalMsg(r, replica[r], e)
        [] e.type = "vote"     -> processVoteMsg(r, replica[r], e)
        [] e.type = "timeout"  -> processTimeoutMsg(r, replica[r], e)
        [] e.type = "local"    -> LocalTimeoutRound(r, replica[r])
        [] e.type = "block"    -> insert(r, replica[r], e.block)
        [] e.type = "request"  -> serveBlock(replica[r], e))

\* Weak fairness of Next, with Quiescent for ~ENABLED <<Next>>_vars, and with
\* any change for a step of Next: as long as some timer or some delivery would
\* change anything, one of them happens.
\* Timers are always re-armed and so expire, and after GST the network delivers
\* what is sent and resent.
Fairness == []<>Quiescent \/ []<><<TRUE>>_vars

FairSpec == Spec /\ Fairness

------------------------------------------------------------------------------
\* The shape of a replica's state and of what it sends: rounds within the
\* bounds, and replicas by their ids.
TypeOK ==
  /\ \A r \in Honest :
       LET s == replica[r]
           rounds == 0..MaxRound
       IN  /\ {s.currentRound, s.highestVoteRound, s.highestQCRound} \subseteq rounds
           /\ s.lastRoundTC # NoTC =>
                s.lastRoundTC.round \in rounds /\ DOMAIN s.lastRoundTC.reports \subseteq Honest
           /\ s.pendingTimeouts \subseteq [round : rounds, sender : Honest, qcRound : rounds]
           /\ s.tree.voters \subseteq [round : rounds, signer : Honest]
           /\ \A k \in DOMAIN s.reputationLeaders : s.reputationLeaders[k] \in Replicas
           /\ s.out = {}
  /\ \A m \in net : m.type \in {"vote", "block"} => m.to \in Replicas

\* What a replica has learnt it does not unlearn, whatever old message arrives
\* late: its round, its safety counters, its highest certificates and its
\* commit frontier never go back, and its log only grows at the end.
NeverGoesBack ==
  [][\A r \in Honest :
       LET s == replica[r]
           t == replica'[r]
       IN  /\ s.currentRound <= t.currentRound
           /\ s.highestVoteRound <= t.highestVoteRound
           /\ s.highestQCRound <= t.highestQCRound
           /\ QCRound(s.tree.highQC) <= QCRound(t.tree.highQC)
           /\ QCRound(s.tree.highCommitQC) <= QCRound(t.tree.highCommitQC)
           /\ L!commitRound(s.tree.ledger) <= L!commitRound(t.tree.ledger)
           /\ s.tree.delivered = SubSeq(t.tree.delivered, 1, Len(s.tree.delivered))]_vars

\* The commit logs of any two replicas agree at every height both have, and
\* each is a chain of parents (checkAgreement, checkChained of sim_test.go).
Agreement ==
  /\ \A r, q \in Honest :
       LET a == replica[r].tree.delivered
           b == replica[q].tree.delivered
       IN  \A i \in DOMAIN a \cap DOMAIN b : a[i] = b[i]
  /\ \A r \in Honest :
       LET a == replica[r].tree.delivered
       IN  \A i \in DOMAIN a :
             parentID(a[i]) = IF i = 1 THEN genesisBlock ELSE a[i - 1]

\* However late certificates and duplicated timeouts arrive, a replica builds
\* at most one block per round: a second one would be an equivocation
\* (processVoteMsg fires a new-round event only when the round moved).
OneProposalPerRound ==
  \A m, p \in net :
    m.type = "proposal" /\ p.type = "proposal" /\ m.sender = p.sender
      /\ m.block.round = p.block.round => m = p

\* Peers never refuse what an honest replica builds (checkRejections of
\* sim_test.go), unless it is a proposal over a certificate that overtook the
\* round it is for.
HonestMessagesVerify ==
  \A m \in net :
    (m.type = "proposal" => QCRound(m.block.qc) < m.block.round) => Verify(m)

\* Safety lets a replica time out of its round in every reachable state but
\* one: when a certificate has overtaken the round.  So the retries of
\* LocalTimeoutRound are not refused for ever by the counters or a stale TC.
CanTimeOut ==
  \A r \in Honest :
    LET s == replica[r]
        qcRound == QCRound(s.tree.highQC)
    IN  qcRound < s.currentRound =>
          safeToTimeout(s.highestVoteRound, s.highestQCRound, s.currentRound, qcRound, s.lastRoundTC)

\* Only the current round can still form a TC, and it has not yet: the
\* certificates a timeout carries move the replica to its round before it is
\* counted, so no timeouts pile up for other rounds.
TimeoutsAreCurrent ==
  \A r \in Honest :
    LET s == replica[r]
    IN  /\ \A i \in s.pendingTimeouts : i.round = s.currentRound
        /\ Cardinality(s.pendingTimeouts) < QuorumSize(N)


\* A replica that holds a block has asked its peers for the oldest ancestor it
\* is missing, so a gap is walked back to its end and no held block waits for a
\* block nobody was asked for.
GapsAreRequested ==
  \A r \in Honest :
    LET ledger == replica[r].tree.ledger
    IN  \A b \in ledger.held : \A p \in L!Missing(ledger, b) :
          [type |-> "request", block |-> p, sender |-> r] \in net

\* Replicas that elect a leader for a round by reputation elect the same one
\* (UpdateLeaders): only those that elect none fall back to another.
ElectedLeadersAgree ==
  \A r, q \in Honest :
    LET a == replica[r].reputationLeaders
        b == replica[q].reputationLeaders
    IN  \A k \in DOMAIN a \cap DOMAIN b : a[k] = b[k]

\* f+1 timeouts for the round a replica is in make it time out of that round.
Amplified ==
  \A r \in Honest :
    LET s == replica[r]
    IN  Cardinality(Reports(s, s.currentRound)) > Faulty(N)
          => s.highestVoteRound >= s.currentRound

\* Pruning drops only what can no longer be committed: a block the ledger has
\* executed above the frontier is still there to be served to a lagging peer.
PruneKeepsLiveBranch ==
  \A r \in Honest : replica[r].tree.ledger.pending \subseteq replica[r].tree.pending

==============================================================================
