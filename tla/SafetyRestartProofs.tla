-------------------------- MODULE SafetyRestartProofs --------------------------
(***************************************************************************)
(* A restart is no worse than a Byzantine fault, for any number of         *)
(* replicas and any blocks.                                                *)
(***************************************************************************)
EXTENDS SafetyRestart, TLAPS

\* Those that never restart are the honest replicas of the other reading.
LEMMA SteadyHonest == Forgiving!Honest = Steady /\ Steady \subseteq Honest
BY RestartingAssumption DEF Forgiving!Honest, Honest, Steady

\* Both readings count alike.
LEMMA SameQuorums == Forgiving!Quorum = Quorum
<1>1. \A S : Forgiving!Cardinality(S) = Cardinality(S)
  BY Zenon DEF Forgiving!Cardinality, Cardinality, Forgiving!IsFiniteSet, IsFiniteSet
<1>2. QED
  BY <1>1 DEF Quorum, Forgiving!Quorum, N, Forgiving!N, QuorumSize, Forgiving!QuorumSize,
              Faulty, Forgiving!Faulty

\* What verifies still verifies when the restarting replicas sign anything.
LEMMA CertificatesPass ==
  /\ \A b \in Blocks : Certified(b) => Forgiving!Certified(b)
  /\ \A tc : VerifyTC(tc) => Forgiving!VerifyTC(tc)
<1>1. ASSUME NEW b, NEW commits \in BOOLEAN, VerifyQC(b, commits)
      PROVE  Forgiving!VerifyQC(b, commits)
  BY <1>1, SteadyHonest, SameQuorums
     DEF VerifyQC, Forgiving!VerifyQC, Signed, Forgiving!Signed,
         consecutive, Forgiving!consecutive
<1>2. ASSUME NEW tc, VerifyTC(tc) PROVE Forgiving!VerifyTC(tc)
  BY <1>2, SteadyHonest, SameQuorums
     DEF VerifyTC, Forgiving!VerifyTC
<1>3. QED
  BY <1>1, <1>2 DEF Certified, Forgiving!Certified

Counters == highestVoteRound \in [Honest -> Nat] /\ highestQCRound \in [Honest -> Nat]

\* Every honest replica has its two counters, restarted or not.
LEMMA CountersTyped == RestartSpec => []Counters
<1>1. Init => Counters
  BY DEF Init, Counters
<1>2. Counters /\ [RestartNext]_vars => Counters'
  <2> SUFFICES ASSUME Counters, [RestartNext]_vars PROVE Counters'
    OBVIOUS
  <2>1. ASSUME NEW h \in Honest, NEW b \in Blocks, NEW tc, NEW parentPending,
               MakeVote(h, b, tc, parentPending)
        PROVE  Counters'
    BY <2>1, BlocksAssumption DEF MakeVote, Counters, max
  <2>2. ASSUME NEW h \in Honest, NEW b \in Blocks, NEW tc, NEW round \in Rounds,
               MakeTimeout(h, round, b, tc)
        PROVE  Counters'
    BY <2>2, CertsAssumption DEF MakeTimeout, Counters, max
  <2>3. ASSUME NEW h \in Restarting, NewSafety(h) PROVE Counters'
    BY <2>3, RestartingAssumption DEF NewSafety, Counters
  <2>4. CASE UNCHANGED vars
    BY <2>4 DEF vars, Counters
  <2>5. QED
    BY <2>1, <2>2, <2>3, <2>4 DEF RestartNext, Next
<1>3. QED
  BY <1>1, <1>2, PTL DEF RestartSpec

\* What a restarting replica does the other reading does not see.
LEMMA RestartingUnseen ==
  ASSUME Counters, NEW h \in Honest \ Steady,
         \/ \E b \in Blocks : \E tc, parentPending : MakeVote(h, b, tc, parentPending)
         \/ \E b \in Blocks, round \in Rounds : \E tc : MakeTimeout(h, round, b, tc)
         \/ NewSafety(h)
  PROVE  UNCHANGED Forgiving!vars
<1>1. /\ \A g \in Steady : /\ highestVoteRound'[g] = highestVoteRound[g]
                           /\ highestQCRound'[g] = highestQCRound[g]
  BY DEF Steady, MakeVote, MakeTimeout, NewSafety, Counters
<1>2. {v \in votes' : v.signer \in Steady} = {v \in votes : v.signer \in Steady}
  BY DEF MakeVote, MakeTimeout, NewSafety
<1>3. {t \in timeouts' : t.signer \in Steady} = {t \in timeouts : t.signer \in Steady}
  BY DEF MakeVote, MakeTimeout, NewSafety
<1>4. QED
  BY <1>1, <1>2, <1>3 DEF Forgiving!vars, Steady, Honest

\* A vote of a replica that never restarts is one the other reading allows.
LEMMA SteadyVotes ==
  ASSUME Counters, NEW h \in Steady, NEW b \in Blocks, NEW tc, NEW parentPending,
         MakeVote(h, b, tc, parentPending)
  PROVE  Forgiving!MakeVote(h, b, tc, parentPending)
<1> DEFINE vote == [signer |-> h, block |-> b,
                    commits |-> commitStateIDCandidate(Round[b], Round[Parent[b]], parentPending)]
           abs(V) == {v \in V : v.signer \in Steady}
<1>1. h \in Honest /\ Parent[b] \in Blocks
  BY SteadyHonest, BlocksAssumption
<1>2. Forgiving!validSignatures(Parent[b], tc)
  BY <1>1, CertificatesPass DEF MakeVote, validSignatures, Forgiving!validSignatures
<1>3. [g \in Steady |-> highestVoteRound[g]]' =
        [[g \in Steady |-> highestVoteRound[g]] EXCEPT ![h] = max(Round[b], @)]
  BY <1>1, SteadyHonest DEF MakeVote, Counters, Steady, Honest
<1>4. [g \in Steady |-> highestQCRound[g]]' =
        [[g \in Steady |-> highestQCRound[g]] EXCEPT ![h] = max(Round[Parent[b]], @)]
  BY <1>1, SteadyHonest DEF MakeVote, Counters, Steady, Honest
<1>5. \/ abs(votes') = abs(votes) \cup {vote}
      \/ SignMayFail /\ abs(votes') = abs(votes)
  <2>1. vote.signer = h
    OBVIOUS
  <2>2. votes' = votes \cup {vote} \/ (SignMayFail /\ votes' = votes)
    BY DEF MakeVote
  <2> HIDE DEF vote
  <2>3. QED
    BY <2>1, <2>2
<1>6. abs(timeouts') = abs(timeouts)
  BY DEF MakeVote
<1>7. QED
  BY <1>1, <1>2, <1>3, <1>4, <1>5, <1>6
     DEF MakeVote, Forgiving!MakeVote, safeToVote, Forgiving!safeToVote, safeToExtend,
         Forgiving!safeToExtend, ReachesHighQCs, Forgiving!ReachesHighQCs, consecutive,
         Forgiving!consecutive, max, Forgiving!max, commitStateIDCandidate,
         Forgiving!commitStateIDCandidate, Steady, Honest

\* So is a timeout.
LEMMA SteadyTimeouts ==
  ASSUME Counters, NEW h \in Steady, NEW b \in Blocks, NEW tc, NEW round \in Rounds,
         MakeTimeout(h, round, b, tc)
  PROVE  Forgiving!MakeTimeout(h, round, b, tc)
<1> DEFINE timeout == [signer |-> h, round |-> round, qcRound |-> Round[b]]
           abs(V) == {v \in V : v.signer \in Steady}
<1>1. h \in Honest
  BY SteadyHonest
<1>2. Forgiving!validSignatures(b, tc)
  BY CertificatesPass DEF MakeTimeout, validSignatures, Forgiving!validSignatures
<1>3. [g \in Steady |-> highestVoteRound[g]]' =
        [[g \in Steady |-> highestVoteRound[g]] EXCEPT ![h] = max(round, @)]
  BY <1>1, SteadyHonest DEF MakeTimeout, Counters, Steady, Honest
<1>4. [g \in Steady |-> highestQCRound[g]]' = [g \in Steady |-> highestQCRound[g]]
  BY DEF MakeTimeout, Steady, Honest
<1>5. \/ abs(timeouts') = abs(timeouts) \cup {timeout}
      \/ SignMayFail /\ abs(timeouts') = abs(timeouts)
  <2>1. timeout.signer = h
    OBVIOUS
  <2>2. timeouts' = timeouts \cup {timeout} \/ (SignMayFail /\ timeouts' = timeouts)
    BY DEF MakeTimeout
  <2> HIDE DEF timeout
  <2>3. QED
    BY <2>1, <2>2
<1>6. abs(votes') = abs(votes)
  BY DEF MakeTimeout
<1>7. QED
  BY <1>1, <1>2, <1>3, <1>4, <1>5, <1>6
     DEF MakeTimeout, Forgiving!MakeTimeout, safeToTimeout, Forgiving!safeToTimeout,
         consecutive, Forgiving!consecutive, max, Forgiving!max, Steady, Honest

\* A replica that restarts and forgets what it signed is no worse than a
\* Byzantine one: the rest follow Safety with the restarting replicas Byzantine.
\* So what Safety guarantees holds as long as both together are at most f.
THEOREM RestartsAreByzantine == RestartSpec => RestartIsByzantine
<1>1. Init => Forgiving!Init
  BY SteadyHonest DEF Init, Forgiving!Init, Steady, Honest
<1>2. Counters /\ [RestartNext]_vars => [Forgiving!Next]_(Forgiving!vars)
  <2> SUFFICES ASSUME Counters, [RestartNext]_vars
               PROVE  Forgiving!Next \/ UNCHANGED Forgiving!vars
    OBVIOUS
  <2>1. ASSUME NEW h \in Honest, NEW b \in Blocks,
               NEW tc \in {c \in TimeoutCerts : VerifyTC(c)} \cup {NoTC}
        PROVE  tc \in {c \in TimeoutCerts : Forgiving!VerifyTC(c)} \cup {NoTC}
    BY CertificatesPass
  <2>2. ASSUME NEW h \in Honest, NEW b \in Blocks,
               NEW tc \in {c \in TimeoutCerts : VerifyTC(c)} \cup {NoTC},
               NEW parentPending \in {TRUE, ~ParentMayBeGone},
               MakeVote(h, b, tc, parentPending)
        PROVE  Forgiving!Next \/ UNCHANGED Forgiving!vars
    <3>1. CASE h \in Steady
      <4>1. Forgiving!MakeVote(h, b, tc, parentPending)
        BY <2>2, <3>1, SteadyVotes
      <4>2. h \in Forgiving!Honest /\ tc \in {c \in TimeoutCerts : Forgiving!VerifyTC(c)} \cup {NoTC}
        BY <2>1, <3>1, SteadyHonest
      <4>3. QED
        BY <4>1, <4>2, Zenon DEF Forgiving!Next
    <3>2. CASE h \notin Steady
      BY <2>2, <3>2, RestartingUnseen
    <3>3. QED
      BY <3>1, <3>2
  <2>3. ASSUME NEW h \in Honest, NEW b \in Blocks,
               NEW tc \in {c \in TimeoutCerts : VerifyTC(c)} \cup {NoTC},
               NEW round \in Rounds, MakeTimeout(h, round, b, tc)
        PROVE  Forgiving!Next \/ UNCHANGED Forgiving!vars
    <3>1. CASE h \in Steady
      <4>1. Forgiving!MakeTimeout(h, round, b, tc)
        BY <2>3, <3>1, SteadyTimeouts
      <4>2. h \in Forgiving!Honest /\ tc \in {c \in TimeoutCerts : Forgiving!VerifyTC(c)} \cup {NoTC}
        BY <2>1, <3>1, SteadyHonest
      <4>3. QED
        BY <4>1, <4>2, Zenon DEF Forgiving!Next
    <3>2. CASE h \notin Steady
      BY <2>3, <3>2, RestartingUnseen
    <3>3. QED
      BY <3>1, <3>2
  <2>4. ASSUME NEW h \in Restarting, NewSafety(h)
        PROVE  UNCHANGED Forgiving!vars
    BY <2>4, RestartingUnseen, RestartingAssumption DEF Steady
  <2>5. CASE UNCHANGED vars
    BY <2>5 DEF vars, Forgiving!vars, Steady, Honest
  <2>6. QED
    BY <2>2, <2>3, <2>4, <2>5 DEF RestartNext, Next
<1>3. QED
  BY <1>1, <1>2, CountersTyped, PTL DEF RestartSpec, RestartIsByzantine, Forgiving!Spec
==============================================================================
