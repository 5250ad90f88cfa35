---------------------------- MODULE SafetyRestart ----------------------------
(***************************************************************************)
(* Safety modules that forget.  Nothing of a replica is stored, so one     *)
(* that restarts has a new Safety (NewSafety of diem/safety.go) with both  *)
(* counters at 0, while what it signed before is still about.              *)
(*                                                                         *)
(* Such a replica may vote twice in a round.  It is then no worse than a   *)
(* Byzantine one: to the replicas that never restart this is a behaviour   *)
(* of Safety in which the restarting ones are Byzantine.                   *)
(***************************************************************************)
EXTENDS Safety

CONSTANT Restarting   \* the honest replicas that may restart

ASSUME RestartingAssumption ==
  /\ Restarting \subseteq Honest
  /\ Cardinality(Byzantine \cup Restarting) <= Faulty(N)

\* A replica comes back with a new Safety.
NewSafety(h) ==
  /\ highestVoteRound' = [highestVoteRound EXCEPT ![h] = 0]
  /\ highestQCRound' = [highestQCRound EXCEPT ![h] = 0]
  /\ UNCHANGED <<votes, timeouts>>

RestartNext ==
  \/ Next
  \/ \E h \in Restarting : NewSafety(h)

RestartSpec == Init /\ [][RestartNext]_vars

------------------------------------------------------------------------------
Steady == Honest \ Restarting

Forgiving == INSTANCE Safety WITH
  Byzantine <- Byzantine \cup Restarting,
  highestVoteRound <- [h \in Steady |-> highestVoteRound[h]],
  highestQCRound <- [h \in Steady |-> highestQCRound[h]],
  votes <- {v \in votes : v.signer \in Steady},
  timeouts <- {t \in timeouts : t.signer \in Steady}

\* A restart is no worse than a Byzantine fault: all that the others sign, they
\* sign as Safety lets them when the restarting replicas sign anything.
RestartIsByzantine == Forgiving!Spec
==============================================================================
