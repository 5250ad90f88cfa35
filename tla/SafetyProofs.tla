----------------------------- MODULE SafetyProofs -----------------------------
(***************************************************************************)
(* The safety of the voting and timeout rules, for any number of replicas, *)
(* any tree of blocks, any rounds and any timeout certificates.            *)
(*                                                                         *)
(* The published argument is an induction over rounds.  Here the induction *)
(* is over steps: VotedExtendsOrDead records, at the moment of each vote,  *)
(* that every 2-chain below the block either is on its branch or has been  *)
(* given up by a quorum for good.                                          *)
(***************************************************************************)
EXTENDS Safety, QuorumsProofs

\* A block extends itself and whatever its parent extends.
LEMMA ExtendsParent ==
  ASSUME NEW c \in Blocks
  PROVE  /\ Extends(c, c)
         /\ \A b \in Blocks : Extends(Parent[c], b) => Extends(c, b)
         /\ Extends(c, Parent[c])
<1> USE BlocksAssumption
<1>1. Parent[c] \in Blocks
  OBVIOUS
<1>2. \A x \in Blocks : Extends(x, x)
  BY DEF Extends, Ancestors
<1>3. ASSUME NEW b \in Blocks, Extends(Parent[c], b)
      PROVE  Extends(c, b)
  BY <1>1, <1>3 DEF Extends, Ancestors
<1>4. QED
  BY <1>1, <1>2, <1>3

\* Every accepted signer set has an honest member.
LEMMA QuorumHasHonest ==
  ASSUME NEW Q \in Quorum
  PROVE  \E h \in Honest : h \in Q
  BY QuorumsShareHonest

\* A certificate other than genesis rests on a quorum of votes for its block.
LEMMA CertifiedVotes ==
  ASSUME NEW b \in Blocks, Certified(b), b # Genesis
  PROVE  /\ \E Q \in Quorum : \A h \in Q \cap Honest :
              \E v \in votes : v.signer = h /\ v.block = b
         /\ \E v \in votes : v.block = b
<1>1. PICK commits \in BOOLEAN, Q \in Quorum : Signed(Q, b, commits)
  BY DEF Certified, VerifyQC
<1>2. \A h \in Q \cap Honest : \E v \in votes : v.signer = h /\ v.block = b
  <2> TAKE h \in Q \cap Honest
  <2> DEFINE v == [signer |-> h, block |-> b, commits |-> commits]
  <2>1. v \in votes
    BY <1>1 DEF Signed
  <2>2. QED
    BY <2>1
<1>3. \E v \in votes : v.block = b
  BY <1>2, QuorumHasHonest
<1>4. QED
  BY <1>2, <1>3

\* At most one certified block per round follows from the invariant.
LEMMA CertifiedUnique ==
  ASSUME IInv, NEW b \in Blocks, NEW c \in Blocks,
         Certified(b), Certified(c), Round[b] = Round[c]
  PROVE  b = c
<1> USE BlocksAssumption
<1>1. \A x \in Blocks : Certified(x) /\ x # Genesis => Round[x] > 0
  BY DEF Certified, VerifyQC
<1>2. CASE b = Genesis \/ c = Genesis
  BY <1>1, <1>2
<1>3. CASE b # Genesis /\ c # Genesis
  <2>1. PICK P \in Quorum : \A h \in P \cap Honest :
                              \E v \in votes : v.signer = h /\ v.block = b
    BY <1>3, CertifiedVotes
  <2>2. PICK Q \in Quorum : \A h \in Q \cap Honest :
                              \E v \in votes : v.signer = h /\ v.block = c
    BY <1>3, CertifiedVotes
  <2>3. PICK h \in Honest : h \in P /\ h \in Q
    BY QuorumsShareHonest
  <2>4. QED
    BY <2>1, <2>2, <2>3 DEF IInv, VotesSound
<1>4. QED
  BY <1>2, <1>3

\* A block some quorum has given up is never certified.
LEMMA DeadNotCertified ==
  ASSUME NEW b \in Blocks, Dead(b), b # Genesis
  PROVE  ~Certified(b)
<1> SUFFICES ASSUME Certified(b)
             PROVE  FALSE
  OBVIOUS
<1>1. PICK P \in Quorum : \A h \in P \cap Honest :
                            \E v \in votes : v.signer = h /\ v.block = b
  BY CertifiedVotes
<1>2. PICK Q \in Quorum : \A h \in Q \cap Honest :
                            \A v \in votes : v.signer = h => v.block # b
  BY DEF Dead
<1>3. PICK h \in Honest : h \in P /\ h \in Q
  BY QuorumsShareHonest
<1>4. QED
  BY <1>1, <1>2, <1>3

\* The heart of the argument: a block that safeToVote accepts over verifying
\* certificates extends the parent of every earlier 2-chain, or that 2-chain
\* is dead.
LEMMA SafeVote ==
  ASSUME IInv, NEW h \in Honest, NEW c \in Blocks,
         NEW tc \in TimeoutCerts \cup {NoTC},
         safeToVote(highestVoteRound[h], Round[c], Round[Parent[c]], tc),
         validSignatures(Parent[c], tc),
         NEW b \in Blocks, consecutive(Round[b], Round[Parent[b]]),
         Round[b] < Round[c]
  PROVE  Extends(c, Parent[b]) \/ Dead(b)
<1> DEFINE p == Parent[c]
<1> USE BlocksAssumption
<1>1. p \in Blocks /\ Parent[b] \in Blocks /\ Certified(p)
  BY DEF validSignatures
<1>2. Round[b] \in Nat /\ Round[c] \in Nat /\ Round[p] \in Nat /\ Round[Parent[b]] \in Nat
  BY <1>1
<1>3. Round[b] > 0 /\ Round[Parent[b]] + 1 = Round[b]
  BY <1>2 DEF consecutive
<1>4. CASE Round[b] < Round[p]
  <2>1. p # Genesis
    BY <1>2, <1>4
  <2>2. PICK v \in votes : v.block = p
    BY <1>1, <2>1, CertifiedVotes
  <2>3. Extends(p, Parent[b]) \/ Dead(b)
    BY <1>4, <2>2 DEF IInv, VotedExtendsOrDead
  <2>4. QED
    BY <1>1, <2>3, ExtendsParent
<1>5. CASE Round[b] = Round[p]
  <2>1. p # Genesis
    BY <1>2, <1>3, <1>5
  <2>2. CASE b = p
    BY <1>1, <2>2, ExtendsParent
  <2>3. CASE b # p
    <3>1. PICK Q \in Quorum : \A g \in Q \cap Honest :
                                \E v \in votes : v.signer = g /\ v.block = p
      BY <1>1, <2>1, CertifiedVotes
    <3>2. \A g \in Q \cap Honest :
            /\ Round[b] <= highestVoteRound[g]
            /\ \A v \in votes : v.signer = g => v.block # b
      BY <1>5, <2>3, <3>1 DEF IInv, CountersCover, VotesSound
    <3>3. QED
      BY <3>2 DEF Dead
  <2>4. QED
    BY <2>2, <2>3
<1>6. CASE Round[p] < Round[b]
  <2>1. ~consecutive(Round[c], Round[p])
    BY <1>2, <1>6 DEF consecutive
  <2>2. /\ tc \in TimeoutCerts /\ tc.round + 1 = Round[c]
        /\ \A s \in DOMAIN tc.reports : Round[p] >= tc.reports[s]
    BY <2>1 DEF safeToVote, safeToExtend, consecutive, ReachesHighQCs
  <2>3. tc # NoTC /\ tc.round \in Nat /\ \A s \in DOMAIN tc.reports : tc.reports[s] \in Nat
    BY <2>2, CertsAssumption
  <2>4. Round[b] <= tc.round
    BY <1>2, <2>2, <2>3
  <2>5. /\ DOMAIN tc.reports \in Quorum
        /\ \A g \in DOMAIN tc.reports \cap Honest :
             \E t \in timeouts : /\ t.signer = g /\ t.round = tc.round
                                 /\ t.qcRound = tc.reports[g]
    <3>1. VerifyTC(tc)
      BY DEF validSignatures
    <3>2. ASSUME NEW g \in DOMAIN tc.reports \cap Honest
          PROVE  \E t \in timeouts : /\ t.signer = g /\ t.round = tc.round
                                     /\ t.qcRound = tc.reports[g]
      <4> DEFINE t == [signer |-> g, round |-> tc.round, qcRound |-> tc.reports[g]]
      <4>1. t \in timeouts
        BY <2>3, <3>1 DEF VerifyTC
      <4>2. QED
        BY <4>1
    <3>3. QED
      BY <2>3, <3>1, <3>2 DEF VerifyTC
  <2>6. CASE \E g \in DOMAIN tc.reports \cap Honest, v \in votes :
               v.signer = g /\ v.block = b
    <3>1. PICK g \in DOMAIN tc.reports \cap Honest, v \in votes :
                 v.signer = g /\ v.block = b
      BY <2>6
    <3>2. PICK t \in timeouts : /\ t.signer = g /\ t.round = tc.round
                                /\ t.qcRound = tc.reports[g]
      BY <2>5
    <3>3. Round[Parent[b]] <= tc.reports[g]
      BY <2>4, <3>1, <3>2 DEF IInv, ReportsCoverVotes
    <3>4. Round[Parent[b]] = Round[p]
      BY <1>2, <1>3, <1>6, <2>2, <2>3, <3>3
    <3>5. Certified(Parent[b])
      BY <3>1 DEF IInv, VotesSound
    <3>6. Parent[b] = p
      BY <1>1, <3>4, <3>5, CertifiedUnique
    <3>7. QED
      BY <1>1, <3>6, ExtendsParent
  <2>7. CASE ~ \E g \in DOMAIN tc.reports \cap Honest, v \in votes :
                 v.signer = g /\ v.block = b
    <3>1. \A g \in DOMAIN tc.reports \cap Honest : Round[b] <= highestVoteRound[g]
      <4> TAKE g \in DOMAIN tc.reports \cap Honest
      <4>1. PICK t \in timeouts : t.signer = g /\ t.round = tc.round
        BY <2>5
      <4>2. tc.round <= highestVoteRound[g] /\ highestVoteRound[g] \in Nat
        BY <4>1 DEF IInv, CountersCover, TypeOK
      <4>3. QED
        BY <1>2, <2>3, <2>4, <4>2
    <3>2. QED
      BY <2>5, <2>7, <3>1 DEF Dead
  <2>8. QED
    BY <2>6, <2>7
<1>7. QED
  BY <1>2, <1>4, <1>5, <1>6

\* Certificates never become invalid: signatures are not taken back.
LEMMA CertifiedStable ==
  ASSUME votes \subseteq votes', NEW b \in Blocks, Certified(b)
  PROVE  Certified(b)'
<1>1. \A Q \in Quorum, commits \in BOOLEAN :
        Signed(Q, b, commits) => Signed(Q, b, commits)'
  BY DEF Signed
<1>2. QED
  BY <1>1 DEF Certified, VerifyQC

\* MakeVote keeps the invariant, whether or not signing succeeds.
LEMMA MakeVotePreserves ==
  ASSUME IInv, NEW h \in Honest, NEW c \in Blocks,
         NEW tc \in TimeoutCerts \cup {NoTC}, NEW parentPending \in BOOLEAN,
         MakeVote(h, c, tc, parentPending)
  PROVE  IInv'
<1> USE BlocksAssumption
<1> DEFINE p == Parent[c]
           vote == [signer |-> h, block |-> c,
                    commits |-> commitStateIDCandidate(Round[c], Round[p], parentPending)]
<1>1. /\ safeToVote(highestVoteRound[h], Round[c], Round[p], tc)
      /\ validSignatures(p, tc)
      /\ highestQCRound' = [highestQCRound EXCEPT ![h] = max(Round[p], @)]
      /\ highestVoteRound' = [highestVoteRound EXCEPT ![h] = max(Round[c], @)]
      /\ votes' = votes \/ votes' = votes \cup {vote}
      /\ timeouts' = timeouts
  BY DEF MakeVote
<1>2. /\ Round[c] \in Nat /\ Round[p] \in Nat /\ p \in Blocks
      /\ highestVoteRound[h] \in Nat /\ highestQCRound[h] \in Nat
  BY DEF IInv, TypeOK
<1>3. /\ vote \in Vote /\ vote.signer = h /\ vote.block = c
  BY DEF Vote, commitStateIDCandidate, consecutive
<1>4. Round[c] > highestVoteRound[h] /\ Round[c] > Round[p]
  BY <1>1, <1>2 DEF safeToVote, max
<1>5. \A g \in Honest : /\ highestVoteRound'[g] >= highestVoteRound[g]
                        /\ highestQCRound'[g] >= highestQCRound[g]
                        /\ highestVoteRound'[g] \in Nat /\ highestQCRound'[g] \in Nat
                        /\ highestVoteRound[g] \in Nat /\ highestQCRound[g] \in Nat
  BY <1>1, <1>2 DEF IInv, TypeOK, max
<1>6. highestVoteRound'[h] = Round[c] /\ highestQCRound'[h] >= Round[p]
  BY <1>1, <1>2, <1>4 DEF IInv, TypeOK, max
<1>7. TypeOK'
  BY <1>1, <1>2, <1>3 DEF IInv, TypeOK, max
<1>8. \A v \in votes' : \/ v \in votes
                        \/ v.signer = h /\ v.block = c
  BY <1>1, <1>3
<1>9. \A v \in votes : v.signer \in Honest /\ v.block \in Blocks
  BY DEF IInv, TypeOK, Vote
<1>10. \A t \in timeouts : t.signer \in Honest /\ t.round \in Nat /\ t.qcRound \in Nat
  BY DEF IInv, TypeOK, Timeout
<1>11. CountersCover'
  <2>1. ASSUME NEW v \in votes'
        PROVE  /\ Round[v.block] <= highestVoteRound'[v.signer]
               /\ Round[Parent[v.block]] <= highestQCRound'[v.signer]
               /\ Round[Parent[v.block]] < Round[v.block]
    <3>1. CASE v \in votes
      <4>1. /\ Round[v.block] <= highestVoteRound[v.signer]
            /\ Round[Parent[v.block]] <= highestQCRound[v.signer]
            /\ Round[Parent[v.block]] < Round[v.block]
        BY <3>1 DEF IInv, CountersCover
      <4>2. Round[v.block] \in Nat /\ Round[Parent[v.block]] \in Nat
        BY <1>9, <3>1
      <4>3. QED
        BY <1>5, <1>9, <3>1, <4>1, <4>2
    <3>2. CASE v.signer = h /\ v.block = c
      BY <1>2, <1>4, <1>5, <1>6, <3>2
    <3>3. QED
      BY <1>8, <3>1, <3>2
  <2>2. ASSUME NEW t \in timeouts'
        PROVE  t.round <= highestVoteRound'[t.signer]
    <3>1. t \in timeouts /\ t.round <= highestVoteRound[t.signer]
      BY <1>1, <2>2 DEF IInv, CountersCover
    <3>2. QED
      BY <1>5, <1>10, <3>1
  <2>3. QED
    BY <2>1, <2>2 DEF CountersCover
<1>12. \A v \in votes : v.signer = h => Round[v.block] < Round[c]
  BY <1>2, <1>4, <1>9 DEF IInv, CountersCover
<1>13. VotesSound'
  <2>1. ASSUME NEW v \in votes', NEW w \in votes',
               v.signer = w.signer, Round[v.block] = Round[w.block]
        PROVE  v.block = w.block
    <3>1. CASE v \in votes /\ w \in votes
      BY <2>1, <3>1 DEF IInv, VotesSound
    <3>2. CASE v \notin votes \/ w \notin votes
      BY <1>2, <1>8, <1>12, <2>1, <3>2
    <3>3. QED
      BY <3>1, <3>2
  <2>2. ASSUME NEW v \in votes'
        PROVE  Certified(Parent[v.block])'
    <3>1. Certified(Parent[v.block]) /\ Parent[v.block] \in Blocks
      BY <1>1, <1>2, <1>8, <1>9 DEF IInv, VotesSound, validSignatures
    <3>2. votes \subseteq votes'
      BY <1>1
    <3>3. QED
      BY <3>1, <3>2, CertifiedStable
  <2>3. QED
    BY <2>1, <2>2 DEF VotesSound
<1>14. ReportsCoverVotes'
  <2> SUFFICES ASSUME NEW t \in timeouts', NEW v \in votes',
                      t.signer = v.signer, Round[v.block] <= t.round
               PROVE  Round[Parent[v.block]] <= t.qcRound
    BY DEF ReportsCoverVotes
  <2>1. t \in timeouts
    BY <1>1
  <2>2. CASE v \in votes
    BY <2>1, <2>2 DEF IInv, ReportsCoverVotes
  <2>3. CASE v.signer = h /\ v.block = c
    <3>1. t.round <= highestVoteRound[h]
      BY <2>1, <2>3 DEF IInv, CountersCover
    <3>2. QED
      BY <1>2, <1>4, <1>10, <2>1, <2>3, <3>1
  <2>4. QED
    BY <1>8, <2>2, <2>3
<1>15. \A b \in Blocks : Dead(b) => Dead(b)'
  <2> SUFFICES ASSUME NEW b \in Blocks, Dead(b)
               PROVE  Dead(b)'
    OBVIOUS
  <2>1. PICK Q \in Quorum : \A g \in Q \cap Honest :
                              /\ Round[b] <= highestVoteRound[g]
                              /\ \A v \in votes : v.signer = g => v.block # b
    BY DEF Dead
  <2>2. ASSUME NEW g \in Q \cap Honest
        PROVE  /\ Round[b] <= highestVoteRound'[g]
               /\ \A v \in votes' : v.signer = g => v.block # b
    <3>1. Round[b] <= highestVoteRound'[g]
      BY <1>5, <2>1
    <3>2. ASSUME NEW v \in votes', v.signer = g
          PROVE  v.block # b
      BY <1>2, <1>4, <1>8, <2>1, <3>2
    <3>3. QED
      BY <3>1, <3>2
  <2>3. QED
    BY <2>2 DEF Dead
<1>16. VotedExtendsOrDead'
  <2> SUFFICES ASSUME NEW v \in votes', NEW b \in Blocks,
                      consecutive(Round[b], Round[Parent[b]]),
                      Round[b] < Round[v.block]
               PROVE  Extends(v.block, Parent[b]) \/ Dead(b)'
    BY DEF VotedExtendsOrDead
  <2>1. CASE v \in votes
    BY <1>15, <2>1 DEF IInv, VotedExtendsOrDead
  <2>2. CASE v.signer = h /\ v.block = c
    BY <1>1, <1>15, <2>2, SafeVote
  <2>3. QED
    BY <1>8, <2>1, <2>2
<1>17. QED
  BY <1>7, <1>11, <1>13, <1>14, <1>16 DEF IInv

\* MakeTimeout keeps the invariant, whether or not signing succeeds.
LEMMA MakeTimeoutPreserves ==
  ASSUME IInv, NEW h \in Honest, NEW c \in Blocks, NEW round \in Rounds,
         NEW tc \in TimeoutCerts \cup {NoTC},
         MakeTimeout(h, round, c, tc)
  PROVE  IInv'
<1> USE BlocksAssumption
<1> DEFINE timeout == [signer |-> h, round |-> round, qcRound |-> Round[c]]
<1>1. /\ safeToTimeout(highestVoteRound[h], highestQCRound[h], round, Round[c], tc)
      /\ highestVoteRound' = [highestVoteRound EXCEPT ![h] = max(round, @)]
      /\ timeouts' = timeouts \/ timeouts' = timeouts \cup {timeout}
      /\ highestQCRound' = highestQCRound
      /\ votes' = votes
  BY DEF MakeTimeout
<1>2. /\ Round[c] \in Nat /\ round \in Nat
      /\ highestVoteRound[h] \in Nat /\ highestQCRound[h] \in Nat
  BY CertsAssumption DEF IInv, TypeOK
<1>3. timeout \in Timeout /\ timeout.signer = h /\ timeout.round = round
      /\ timeout.qcRound = Round[c]
  BY <1>2 DEF Timeout
<1>4. Round[c] >= highestQCRound[h]
  BY <1>1 DEF safeToTimeout
<1>5. \A g \in Honest : /\ highestVoteRound'[g] >= highestVoteRound[g]
                        /\ highestVoteRound'[g] \in Nat
                        /\ highestVoteRound[g] \in Nat
  BY <1>1, <1>2 DEF IInv, TypeOK, max
<1>6. highestVoteRound'[h] >= round
  BY <1>1, <1>2 DEF IInv, TypeOK, max
<1>7. TypeOK'
  BY <1>1, <1>2, <1>3 DEF IInv, TypeOK, max
<1>8. \A t \in timeouts' : \/ t \in timeouts
                           \/ t.signer = h /\ t.round = round /\ t.qcRound = Round[c]
  BY <1>1, <1>3
<1>9. \A v \in votes : v.signer \in Honest /\ v.block \in Blocks
  BY DEF IInv, TypeOK, Vote
<1>10. \A t \in timeouts : t.signer \in Honest /\ t.round \in Nat /\ t.qcRound \in Nat
  BY DEF IInv, TypeOK, Timeout
<1>11. CountersCover'
  <2>1. ASSUME NEW v \in votes'
        PROVE  /\ Round[v.block] <= highestVoteRound'[v.signer]
               /\ Round[Parent[v.block]] <= highestQCRound'[v.signer]
               /\ Round[Parent[v.block]] < Round[v.block]
    <3>1. /\ v \in votes /\ Round[v.block] \in Nat
          /\ Round[v.block] <= highestVoteRound[v.signer]
          /\ Round[Parent[v.block]] <= highestQCRound[v.signer]
          /\ Round[Parent[v.block]] < Round[v.block]
      BY <1>1, <1>9 DEF IInv, CountersCover
    <3>2. QED
      BY <1>1, <1>5, <1>9, <3>1
  <2>2. ASSUME NEW t \in timeouts'
        PROVE  t.round <= highestVoteRound'[t.signer]
    <3>1. CASE t \in timeouts
      BY <1>5, <1>10, <3>1 DEF IInv, CountersCover
    <3>2. CASE t.signer = h /\ t.round = round
      BY <1>6, <3>2
    <3>3. QED
      BY <1>8, <3>1, <3>2
  <2>3. QED
    BY <2>1, <2>2 DEF CountersCover
<1>12. VotesSound'
  <2>1. \A b \in Blocks : Certified(b) => Certified(b)'
    BY <1>1, CertifiedStable
  <2>2. QED
    BY <1>1, <1>9, <2>1 DEF IInv, VotesSound
<1>13. ReportsCoverVotes'
  <2> SUFFICES ASSUME NEW t \in timeouts', NEW v \in votes',
                      t.signer = v.signer, Round[v.block] <= t.round
               PROVE  Round[Parent[v.block]] <= t.qcRound
    BY DEF ReportsCoverVotes
  <2>1. v \in votes
    BY <1>1
  <2>2. CASE t \in timeouts
    BY <2>1, <2>2 DEF IInv, ReportsCoverVotes
  <2>3. CASE t.signer = h /\ t.qcRound = Round[c]
    <3>1. Round[Parent[v.block]] <= highestQCRound[h] /\ Round[Parent[v.block]] \in Nat
      BY <1>9, <2>1, <2>3 DEF IInv, CountersCover
    <3>2. QED
      BY <1>2, <1>4, <2>3, <3>1
  <2>4. QED
    BY <1>8, <2>2, <2>3
<1>14. \A b \in Blocks : Dead(b) => Dead(b)'
  <2> SUFFICES ASSUME NEW b \in Blocks, Dead(b)
               PROVE  Dead(b)'
    OBVIOUS
  <2>1. PICK Q \in Quorum : \A g \in Q \cap Honest :
                              /\ Round[b] <= highestVoteRound[g]
                              /\ \A v \in votes : v.signer = g => v.block # b
    BY DEF Dead
  <2>2. \A g \in Q \cap Honest : /\ Round[b] <= highestVoteRound'[g]
                                 /\ \A v \in votes' : v.signer = g => v.block # b
    BY <1>1, <1>5, <2>1
  <2>3. QED
    BY <2>2 DEF Dead
<1>15. VotedExtendsOrDead'
  BY <1>1, <1>14 DEF IInv, VotedExtendsOrDead
<1>16. QED
  BY <1>7, <1>11, <1>12, <1>13, <1>15 DEF IInv

------------------------------------------------------------------------------
\* The invariant holds in every reachable state of the Safety modules.
THEOREM Invariance == Spec => []IInv
<1>1. Init => IInv
  <2> SUFFICES ASSUME Init
               PROVE  IInv
    OBVIOUS
  <2>1. TypeOK
    BY DEF Init, TypeOK
  <2>2. QED
    BY <2>1 DEF Init, IInv, CountersCover, VotesSound, ReportsCoverVotes, VotedExtendsOrDead
<1>2. IInv /\ [Next]_vars => IInv'
  <2> SUFFICES ASSUME IInv, [Next]_vars
               PROVE  IInv'
    OBVIOUS
  <2>1. CASE Next
    <3>1. PICK h \in Honest, b \in Blocks, tc \in TimeoutCerts \cup {NoTC} :
            \/ \E parentPending \in BOOLEAN : MakeVote(h, b, tc, parentPending)
            \/ \E round \in Rounds : MakeTimeout(h, round, b, tc)
      BY <2>1, CertsAssumption DEF Next
    <3>2. QED
      BY <3>1, MakeVotePreserves, MakeTimeoutPreserves
  <2>2. CASE UNCHANGED vars
    BY <2>2 DEF vars, IInv, TypeOK, CountersCover, VotesSound, ReportsCoverVotes,
                VotedExtendsOrDead, Dead, Certified, VerifyQC, Signed
  <2>3. QED
    BY <2>1, <2>2
<1>3. QED
  BY <1>1, <1>2, PTL DEF Spec

\* A committed block is the parent of a certified one in the next round.
LEMMA CommittedShape ==
  ASSUME IInv, NEW b \in Committed
  PROVE  \E c \in Blocks : /\ b = Parent[c] /\ c # Genesis
                           /\ VerifyQC(c, TRUE) /\ Certified(c) /\ Certified(b)
                           /\ consecutive(Round[c], Round[b])
<1> USE BlocksAssumption
<1>1. PICK c \in Blocks : b = Parent[c] /\ VerifyQC(c, TRUE)
  BY DEF Committed
<1>2. c # Genesis /\ consecutive(Round[c], Round[b]) /\ Certified(c)
  BY <1>1 DEF VerifyQC, Certified
<1>3. PICK v \in votes : v.block = c
  BY <1>2, CertifiedVotes
<1>4. QED
  BY <1>1, <1>2, <1>3 DEF IInv, VotesSound

\* DiemBFT Property 1 for every constant: safeToVote's strictly increasing
\* rounds leave at most one certified block per round.
THEOREM OneCertificatePerRoundHolds == Spec => []OneCertificatePerRound
<1>1. IInv => OneCertificatePerRound
  BY CertifiedUnique DEF OneCertificatePerRound
<1>2. QED
  BY <1>1, Invariance, PTL

\* In a state of the invariant, certified blocks extend the committed ones
\* they are at or above.
LEMMA CertifiedExtends ==
  ASSUME IInv
  PROVE  CertifiedExtendsCommitted
<1> USE BlocksAssumption
<1> SUFFICES ASSUME NEW b \in Committed, NEW c \in Blocks,
                    Certified(c), Round[c] >= Round[b]
             PROVE  Extends(c, b)
  BY DEF CertifiedExtendsCommitted
<1>1. PICK d \in Blocks : /\ b = Parent[d] /\ d # Genesis
                          /\ Certified(d) /\ Certified(b)
                          /\ consecutive(Round[d], Round[b])
  BY CommittedShape
<1>2. /\ b \in Blocks /\ Round[b] \in Nat /\ Round[c] \in Nat /\ Round[d] \in Nat
      /\ Round[b] + 1 = Round[d]
  BY <1>1 DEF consecutive
<1>3. CASE Round[c] = Round[b]
  BY <1>1, <1>2, <1>3, CertifiedUnique, ExtendsParent
<1>4. CASE Round[c] = Round[d]
  <2>1. c = d
    BY <1>1, <1>4, CertifiedUnique
  <2>2. QED
    BY <1>1, <2>1, ExtendsParent
<1>5. CASE Round[c] > Round[d]
  <2>1. c # Genesis
    BY <1>2, <1>5
  <2>2. PICK v \in votes : v.block = c
    BY <2>1, CertifiedVotes
  <2>3. Extends(c, b) \/ Dead(d)
    BY <1>1, <1>5, <2>2 DEF IInv, VotedExtendsOrDead
  <2>4. QED
    BY <1>1, <2>3, DeadNotCertified
<1>6. QED
  BY <1>2, <1>3, <1>4, <1>5

\* DiemBFT Property 2 for every constant: the 2-chain commit rule of
\* commitStateIDCandidate is safe under safeToVote and safeToTimeout.
THEOREM CertifiedExtendsCommittedHolds == Spec => []CertifiedExtendsCommitted
<1>1. IInv => CertifiedExtendsCommitted
  BY CertifiedExtends
<1>2. QED
  BY <1>1, Invariance, PTL

\* DiemBFT Lemma 2 for every constant: no timeout certificate hides a commit.
THEOREM TimeoutCertsSeeCommitsHolds == Spec => []TimeoutCertsSeeCommits
<1>1. ASSUME IInv
      PROVE  TimeoutCertsSeeCommits
  <2> USE BlocksAssumption
  <2> SUFFICES ASSUME NEW tc \in TimeoutCerts, NEW b \in Committed,
                      VerifyTC(tc), tc.round > Round[b]
               PROVE  \E s \in DOMAIN tc.reports : tc.reports[s] >= Round[b]
    BY DEF TimeoutCertsSeeCommits
  <2>1. PICK c \in Blocks : /\ b = Parent[c] /\ c # Genesis
                            /\ Certified(c) /\ consecutive(Round[c], Round[b])
    BY <1>1, CommittedShape
  <2>2. PICK P \in Quorum : \A h \in P \cap Honest :
                              \E v \in votes : v.signer = h /\ v.block = c
    BY <2>1, CertifiedVotes
  <2>3. DOMAIN tc.reports \in Quorum /\ tc # NoTC /\ tc.round \in Nat
    BY CertsAssumption DEF VerifyTC
  <2>4. PICK h \in Honest : h \in P /\ h \in DOMAIN tc.reports
    BY <2>3, QuorumsShareHonest
  <2>5. PICK v \in votes : v.signer = h /\ v.block = c
    BY <2>2, <2>4
  <2> DEFINE t == [signer |-> h, round |-> tc.round, qcRound |-> tc.reports[h]]
  <2>6. t \in timeouts
    BY <2>3, <2>4 DEF VerifyTC
  <2>7. Round[c] <= tc.round
    BY <2>1, <2>3 DEF consecutive
  <2>8. Round[b] <= tc.reports[h]
    BY <1>1, <2>1, <2>5, <2>6, <2>7 DEF IInv, ReportsCoverVotes
  <2>9. tc.reports[h] \in Nat /\ Round[b] \in Nat
    BY <2>1, <2>4, CertsAssumption
  <2>10. QED
    BY <2>4, <2>8, <2>9
<1>2. QED
  BY <1>1, Invariance, PTL

\* Any two committed blocks lie on one branch.
LEMMA CommittedSameBranch ==
  IInv => \A b, c \in Committed : Chain!SameBranch(b, c)
<1> SUFFICES ASSUME IInv, NEW b \in Committed, NEW c \in Committed
             PROVE  Chain!SameBranch(b, c)
  OBVIOUS
<1>1. b \in Blocks /\ c \in Blocks /\ Certified(b) /\ Certified(c)
  BY CommittedShape, BlocksAssumption
<1>2. Round[b] \in Nat /\ Round[c] \in Nat
  BY <1>1, BlocksAssumption
<1>3. CASE Round[c] >= Round[b]
  BY <1>1, <1>3, CertifiedExtends DEF CertifiedExtendsCommitted, Extends, Chain!SameBranch
<1>4. CASE Round[b] >= Round[c]
  BY <1>1, <1>4, CertifiedExtends DEF CertifiedExtendsCommitted, Extends, Chain!SameBranch
<1>5. QED
  BY <1>2, <1>3, <1>4

\* A vote for c can complete no commit certificate but c's.
LEMMA MakeVoteCommits ==
  ASSUME IInv, NEW h \in Honest, NEW c \in Blocks,
         NEW tc \in TimeoutCerts \cup {NoTC}, NEW parentPending \in BOOLEAN,
         MakeVote(h, c, tc, parentPending)
  PROVE  Committed' = Committed \/ Committed' = Committed \cup {Parent[c]}
<1>1. votes \subseteq votes' /\ \A v \in votes' : v \in votes \/ v.block = c
  BY DEF MakeVote
<1>2. \A Q \in Quorum, d \in Blocks : Signed(Q, d, TRUE) => Signed(Q, d, TRUE)'
  BY <1>1 DEF Signed
<1>3. ASSUME NEW Q \in Quorum, NEW d \in Blocks, d # c, Signed(Q, d, TRUE)'
      PROVE  Signed(Q, d, TRUE)
  <2> SUFFICES ASSUME NEW g \in Q \cap Honest
               PROVE  [signer |-> g, block |-> d, commits |-> TRUE] \in votes
    BY DEF Signed
  <2> DEFINE v == [signer |-> g, block |-> d, commits |-> TRUE]
  <2>1. v \in votes' /\ v.block = d
    BY <1>3 DEF Signed
  <2>2. QED
    BY <1>1, <1>3, <2>1
<1>4. \A d \in Blocks : VerifyQC(d, TRUE) => VerifyQC(d, TRUE)'
  BY <1>2 DEF VerifyQC
<1>5. \A d \in Blocks : VerifyQC(d, TRUE)' /\ d # c => VerifyQC(d, TRUE)
  BY <1>3 DEF VerifyQC
<1>6. QED
  BY <1>4, <1>5 DEF Committed

\* The Safety modules implement AgreedChain, for every constant: the commit
\* certificates that ever exist decide one branch and take nothing back.
THEOREM Refinement == Spec => RefinesAgreedChain
<1>1. Init => Chain!Init
  <2> SUFFICES ASSUME Init
               PROVE  Committed = {}
    BY DEF Chain!Init
  <2>1. \A Q \in Quorum, b \in Blocks : ~Signed(Q, b, TRUE)
    BY QuorumHasHonest DEF Init, Signed
  <2>2. QED
    BY <2>1 DEF Committed, VerifyQC
<1>2. (IInv => \A b, c \in Committed : Chain!SameBranch(b, c))'
  BY CommittedSameBranch, PTL
<1>3. IInv /\ IInv' /\ [Next]_vars => [Chain!Next]_Committed
  <2> SUFFICES ASSUME IInv, IInv', [Next]_vars
               PROVE  [Chain!Next]_Committed
    OBVIOUS
  <2>1. ASSUME NEW h \in Honest, NEW b \in Blocks,
               NEW tc \in TimeoutCerts \cup {NoTC}, NEW parentPending \in BOOLEAN,
               MakeVote(h, b, tc, parentPending)
        PROVE  [Chain!Next]_Committed
    <3>1. CASE Committed' = Committed
      BY <3>1
    <3>2. CASE Committed' = Committed \cup {Parent[b]}
      <4>1. Parent[b] \in Blocks
        BY BlocksAssumption
      <4>2. \A c, d \in Committed' : Chain!SameBranch(c, d)
        BY <1>2 DEF Chain!SameBranch
      <4>3. \A d \in Committed : Chain!SameBranch(Parent[b], d)
        BY <3>2, <4>2 DEF Chain!SameBranch
      <4>4. Chain!Decide(Parent[b])
        BY <3>2, <4>3 DEF Chain!Decide
      <4>5. QED
        BY <4>1, <4>4 DEF Chain!Next
    <3>3. QED
      BY <2>1, <3>1, <3>2, MakeVoteCommits
  <2>2. ASSUME votes' = votes
        PROVE  [Chain!Next]_Committed
    BY <2>2 DEF Committed, VerifyQC, Signed
  <2>3. CASE Next
    <3>1. PICK h \in Honest, b \in Blocks, tc \in TimeoutCerts \cup {NoTC} :
            \/ \E parentPending \in BOOLEAN : MakeVote(h, b, tc, parentPending)
            \/ \E round \in Rounds : MakeTimeout(h, round, b, tc)
      BY <2>3, CertsAssumption DEF Next
    <3>2. QED
      BY <2>1, <2>2, <3>1 DEF MakeTimeout
  <2>4. QED
    BY <2>2, <2>3 DEF vars
<1>4. QED
  BY <1>1, <1>3, Invariance, PTL DEF Spec, RefinesAgreedChain, Chain!Spec
==============================================================================
