------------------------------ MODULE RoundTimer ------------------------------
(***************************************************************************)
(* The round timer of one replica (diem/pacemaker.go) and what lies        *)
(* between a timer and its effect: the callback runs on a goroutine of its *)
(* own and may only push an event on the replica's bounded queue, from     *)
(* which the consensus goroutine takes it some events later.  Meanwhile    *)
(* the timer may have been stopped or started again; the epoch an expiry   *)
(* carries tells Core.Step whether its timer is still the armed one.       *)
(*                                                                         *)
(* The rest of the replica is abstracted to what moves the pacemaker: a    *)
(* certificate that ends a round, and a timeout of a peer.  A message that *)
(* carries several certificates is several of them in a row.               *)
(***************************************************************************)
EXTENDS Quorums, Sequences

CONSTANTS
  BaseTimeout, MaxTimeout, backoffFactor,   \* the Backoff
  QueueSize,    \* capacity of the event queue
  MaxRound,     \* no certificate is for this round or a later one
  MaxTries      \* a timer does not expire more often in one round

VARIABLES
  phase,   \* "new", "running" or "stopped": the life of the consensus loop
  p,       \* the Pacemaker
  fired,   \* expiries whose callback has not yet pushed its event
  q        \* the event queue

vars == <<phase, p, fired, q>>

ASSUME TimeoutAssumption ==
  /\ BaseTimeout \in Nat \ {0} /\ MaxTimeout \in Nat \ {0} /\ backoffFactor \in Nat \ {0}
  /\ BaseTimeout <= MaxTimeout

ASSUME BoundAssumption ==
  QueueSize \in Nat \ {0} /\ MaxRound \in Nat \ {0} /\ MaxTries \in Nat

------------------------------------------------------------------------------
(* The pacemaker.  timer is the duration the pending timer was armed with,  *)
(* 0 when none is.  Three fields are history: arms counts the timers ever   *)
(* started, tries those that expired in this round, tcs the rounds entered  *)
(* on a TC since the last one entered on a QC.                              *)

NewPacemaker ==
  [currentRound |-> 0, epoch |-> 0, timer |-> 0, dur |-> BaseTimeout, senders |-> {},
   arms |-> 0, tries |-> 0, tcs |-> 0]

min(a, b) == IF a <= b THEN a ELSE b

Grow(d) == min(d * backoffFactor, MaxTimeout)

Stop(s) == [s EXCEPT !.epoch = @ + 1, !.timer = 0]

\* Stop the old timer, enter a round, forget the timeouts of rounds below it,
\* arm the new timer.
startTimer(s, newRound) ==
  [Stop(s) EXCEPT !.currentRound = newRound, !.timer = s.dur, !.arms = @ + 1,
                  !.senders = IF newRound > s.currentRound THEN {} ELSE @,
                  !.tries = IF newRound > s.currentRound THEN 0 ELSE @]

\* Mutant: the timer is stopped and a TC awaited, as in the paper.
Mutant_LocalTimeoutRound(s) == [Stop(s) EXCEPT !.tries = @ + 1]

\* Re-arm first, whatever Safety then says to the timeout.
LocalTimeoutRound(s) == startTimer([s EXCEPT !.tries = @ + 1], s.currentRound)

\* Mutant: the timer is armed before the duration grows.
Mutant_AdvanceRoundTC(s, round) ==
  IF round >= s.currentRound
  THEN [startTimer(s, round + 1) EXCEPT !.dur = Grow(@), !.tcs = @ + 1]
  ELSE s

AdvanceRoundTC(s, round) ==
  IF round >= s.currentRound
  THEN startTimer([s EXCEPT !.dur = Grow(@), !.tcs = @ + 1], round + 1)
  ELSE s

AdvanceRoundQC(s, round) ==
  IF round >= s.currentRound
  THEN startTimer([s EXCEPT !.dur = BaseTimeout, !.tcs = 0], round + 1)
  ELSE s

\* The certificate of a round that a message carries, of either kind.
processCertificate(s, via, round) ==
  IF via = "qc" THEN AdvanceRoundQC(s, round) ELSE AdvanceRoundTC(s, round)

\* With the f+1st timeout of the round, stop waiting for the own timer.
Amplify(s) ==
  IF Cardinality(s.senders) = Faulty(N) + 1 THEN LocalTimeoutRound(Stop(s)) ELSE s

Complete(s, round) ==
  IF Cardinality(s.senders) = QuorumSize(N) THEN AdvanceRoundTC(s, round) ELSE s

ProcessRemoteTimeout(s, e) ==
  IF e.round < s.currentRound \/ e.sender \in s.senders
  THEN s
  ELSE Complete(Amplify([s EXCEPT !.senders = @ \cup {e.sender}]), e.round)

\* A well-formed timeout carries a certificate of the round below its own, so
\* the replica is in its round or past it when it is counted.
processTimeoutMsg(s, e) ==
  ProcessRemoteTimeout(processCertificate(s, e.via, e.round - 1), e)

\* Mutant: every expiry in the queue is acted on, as in the paper.
Mutant_OnExpiry(s, e) == LocalTimeoutRound(s)

\* Only the expiry of the timer that is still the armed one counts.
OnExpiry(s, e) == IF e.epoch = s.epoch THEN LocalTimeoutRound(s) ELSE s

Handle(s, e) ==
  CASE e.type = "cert"    -> processCertificate(s, e.via, e.round)
    [] e.type = "timeout" -> processTimeoutMsg(s, e)
    [] e.type = "local"   -> OnExpiry(s, e)

------------------------------------------------------------------------------
Inbound ==
  [type : {"cert"}, via : {"qc", "tc"}, round : 1..MaxRound - 1]
    \cup [type : {"timeout"}, via : {"qc", "tc"}, round : 1..MaxRound - 1, sender : Replicas]

Init ==
  /\ phase = "new"
  /\ p = NewPacemaker
  /\ fired = {}
  /\ q = <<>>

\* Enter round 1 on the genesis certificate.
Start ==
  /\ phase = "new"
  /\ phase' = "running"
  /\ p' = AdvanceRoundQC(p, 0)
  /\ UNCHANGED <<fired, q>>

\* The runtime starts the callback of the pending timer, which from then on
\* can no longer be stopped.
Fire ==
  /\ p.timer # 0
  /\ p.tries < MaxTries
  /\ p' = [p EXCEPT !.timer = 0]
  /\ fired' = fired \cup {[type |-> "local", epoch |-> p.epoch, round |-> p.currentRound,
                           arm |-> p.arms]}
  /\ UNCHANGED <<phase, q>>

\* The callback's push, blocked while the queue is full.
Push(e) ==
  /\ e \in fired
  /\ Len(q) < QueueSize
  /\ q' = Append(q, e)
  /\ fired' = fired \ {e}
  /\ UNCHANGED <<phase, p>>

\* A handler pushes a message.
Deliver(e) ==
  /\ Len(q) < QueueSize
  /\ q' = Append(q, e)
  /\ UNCHANGED <<phase, p, fired>>

Step ==
  /\ phase = "running"
  /\ q # <<>>
  /\ p' = Handle(p, Head(q))
  /\ q' = Tail(q)
  /\ UNCHANGED <<phase, fired>>

\* The loop ends and stops the core.
StopCore ==
  /\ phase = "running"
  /\ phase' = "stopped"
  /\ p' = Stop(p)
  /\ UNCHANGED <<fired, q>>

\* The shutdown keeps the queue moving.
Discard ==
  /\ phase = "stopped"
  /\ q # <<>>
  /\ q' = Tail(q)
  /\ UNCHANGED <<phase, p, fired>>

Next ==
  \/ Start
  \/ Fire
  \/ \E e \in fired : Push(e)
  \/ \E e \in Inbound : Deliver(e)
  \/ Step
  \/ StopCore
  \/ Discard

Spec == Init /\ [][Next]_vars

\* A pending timer expires and the loop takes every event; among the goroutines
\* waiting to push on a full queue the Go runtime serves the longest waiting
\* first, so a callback is not passed over for ever.
Fairness ==
  /\ WF_vars(Fire)
  /\ WF_vars(Step)
  /\ SF_vars(\E e \in fired : Push(e))

FairSpec == Spec /\ Fairness

------------------------------------------------------------------------------
Expiry == [type : {"local"}, epoch : Nat, round : Nat, arm : Nat]
Event == Inbound \cup Expiry

Pacemaker ==
  [currentRound : Nat, epoch : Nat, timer : Nat, dur : Nat \ {0}, senders : SUBSET Replicas,
   arms : Nat, tries : Nat, tcs : Nat]

TypeOK ==
  /\ phase \in {"new", "running", "stopped"}
  /\ p \in Pacemaker
  /\ fired \subseteq Expiry
  /\ q \in Seq(Event)

\* The expiry of the timer started last is waiting to be pushed, or is queued.
LiveFired(e) == e \in fired /\ e.epoch = p.epoch
LiveQueued(i) == i \in DOMAIN q /\ q[i].type = "local" /\ q[i].epoch = p.epoch

\* The expiry of the armed timer is in exactly one place: the runtime still
\* counts it down, or its callback is about to push it, or it is queued once.
\* So the replica is never left without a timer, and never has two.
OneLiveExpiry ==
  phase = "running" =>
    /\ p.timer # 0 \/ (\E e \in fired : LiveFired(e)) \/ (\E i \in DOMAIN q : LiveQueued(i))
    /\ p.timer # 0 => /\ \A e \in fired : ~LiveFired(e)
                      /\ \A i \in DOMAIN q : ~LiveQueued(i)
    /\ \A e \in fired, i \in DOMAIN q : ~(LiveFired(e) /\ LiveQueued(i))
    /\ \A d, e \in fired : LiveFired(d) /\ LiveFired(e) => d = e
    /\ \A i, j \in DOMAIN q : LiveQueued(i) /\ LiveQueued(j) => i = j

\* An expiry that is acted on is that of the timer started last, in the round
\* that timer was started for: a queued expiry never abandons a round entered
\* since, nor times out a re-armed round a second time (Core.Step).
ExpiriesActOnce ==
  [][Step /\ Head(q).type = "local" /\ p' # p =>
       Head(q).arm = p.arms /\ Head(q).round = p.currentRound]_vars

\* The pending timer was armed with the duration the Backoff prescribes for the
\* rounds that failed in a row: AdvanceRoundTC grows it before it arms.
TimerFollowsBackoff ==
  p.timer # 0 => p.timer = min(BaseTimeout * backoffFactor ^ p.tcs, MaxTimeout)

\* A round that no certificate ends is timed out of again and again: a lost or
\* refused timeout is retried.
TimeoutsRetried ==
  \A r \in 1..MaxRound :
    (phase = "running" /\ p.currentRound = r)
      ~> (p.tries >= MaxTries \/ p.currentRound > r \/ phase = "stopped")

------------------------------------------------------------------------------
(* The inductive invariant behind OneLiveExpiry and ExpiriesActOnce. *)

\* No expiry is ahead of the epoch.
EpochsPast ==
  /\ \A e \in fired : e.epoch <= p.epoch
  /\ \A i \in DOMAIN q : q[i].type = "local" => q[i].epoch <= p.epoch

\* An expiry of the current epoch is that of the timer started last, which is
\* then no longer counting down.
LiveIsLatest ==
  /\ \A e \in fired : LiveFired(e) =>
       p.timer = 0 /\ e.arm = p.arms /\ e.round = p.currentRound
  /\ \A i \in DOMAIN q : LiveQueued(i) =>
       p.timer = 0 /\ q[i].arm = p.arms /\ q[i].round = p.currentRound

\* Before Start there is no timer.
NoTimerYet ==
  phase = "new" => p = NewPacemaker /\ fired = {} /\ \A i \in DOMAIN q : q[i].type # "local"

IInv ==
  /\ TypeOK
  /\ OneLiveExpiry
  /\ EpochsPast
  /\ LiveIsLatest
  /\ NoTimerYet
==============================================================================
