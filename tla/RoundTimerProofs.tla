--------------------------- MODULE RoundTimerProofs ---------------------------
(***************************************************************************)
(* For any number of replicas, any queue capacity and any Backoff: the     *)
(* expiry of the armed timer is in exactly one place, and an expiry that   *)
(* is acted on is that of the timer started last.                          *)
(*                                                                         *)
(* Every handler either leaves the timer alone or ends with a new timer    *)
(* armed under an epoch no expiry on its way can carry (HandleRearms).     *)
(* The rest is where the expiries are.                                     *)
(***************************************************************************)
EXTENDS RoundTimer, TLAPS, SequenceTheorems

\* What a handler does not do to the timer.
SameTimer(s, t) ==
  /\ t.epoch = s.epoch /\ t.timer = s.timer
  /\ t.currentRound = s.currentRound /\ t.arms = s.arms

\* What it does instead: a new timer, under a new epoch.
Rearmed(s, t) == t.epoch > s.epoch /\ t.timer # 0

\* Growing a duration keeps it a positive number.
LEMMA GrowType == ASSUME NEW d \in Nat \ {0} PROVE Grow(d) \in Nat \ {0}
  BY TimeoutAssumption DEF Grow, min

\* Stop moves the epoch on and disarms.
LEMMA StopType ==
  ASSUME NEW s \in Pacemaker
  PROVE  Stop(s) \in Pacemaker /\ Stop(s).epoch = s.epoch + 1
<1>1. s.epoch + 1 \in Nat
  BY DEF Pacemaker
<1> DEFINE next == s.epoch + 1
<1> HIDE DEF next
<1>2. [s EXCEPT !.epoch = next, !.timer = 0] \in Pacemaker
  BY <1>1 DEF Pacemaker, next
<1>3. [s EXCEPT !.epoch = next, !.timer = 0].epoch = next
  BY DEF Pacemaker
<1> QED BY <1>2, <1>3 DEF Stop, next

\* startTimer leaves a timer armed under a new epoch.
LEMMA StartTimerRearms ==
  ASSUME NEW s \in Pacemaker, NEW r \in Nat
  PROVE  startTimer(s, r) \in Pacemaker /\ Rearmed(s, startTimer(s, r))
<1> DEFINE t == Stop(s)
           moved == r > s.currentRound
           u == [t EXCEPT !.currentRound = r, !.timer = s.dur, !.arms = t.arms + 1,
                          !.senders = IF moved THEN {} ELSE t.senders,
                          !.tries = IF moved THEN 0 ELSE t.tries]
<1>1. t \in Pacemaker /\ t.epoch = s.epoch + 1 /\ s.dur \in Nat \ {0} /\ s.epoch \in Nat
  BY StopType DEF Pacemaker
<1>2. startTimer(s, r) = u
  BY DEF startTimer
<1> HIDE DEF t, moved
<1>3. t.arms + 1 \in Nat
  BY <1>1 DEF Pacemaker
<1>4. u \in Pacemaker
  BY <1>1, <1>3 DEF Pacemaker
<1>5. u.epoch = t.epoch /\ u.timer = s.dur
  BY <1>1 DEF Pacemaker
<1> QED BY <1>1, <1>2, <1>4, <1>5 DEF Rearmed

\* So does a local timeout.
LEMMA LocalTimeoutRearms ==
  ASSUME NEW s \in Pacemaker
  PROVE  LocalTimeoutRound(s) \in Pacemaker /\ Rearmed(s, LocalTimeoutRound(s))
<1> DEFINE t == [s EXCEPT !.tries = @ + 1]
<1>1. t \in Pacemaker /\ t.epoch = s.epoch /\ s.currentRound \in Nat
  BY DEF Pacemaker
<1>2. LocalTimeoutRound(s) = startTimer(t, s.currentRound)
  BY DEF LocalTimeoutRound
<1> HIDE DEF t
<1> QED BY <1>1, <1>2, StartTimerRearms DEF Rearmed

\* A certificate of a past round changes nothing, any other starts a timer.
LEMMA CertificateRearms ==
  ASSUME NEW s \in Pacemaker, NEW r \in Nat, NEW via
  PROVE  LET t == processCertificate(s, via, r)
         IN  t \in Pacemaker /\ (t = s \/ Rearmed(s, t))
<1>1. AdvanceRoundQC(s, r) \in Pacemaker
      /\ (AdvanceRoundQC(s, r) = s \/ Rearmed(s, AdvanceRoundQC(s, r)))
  <2> DEFINE t == [s EXCEPT !.dur = BaseTimeout, !.tcs = 0]
  <2>1. t \in Pacemaker /\ t.epoch = s.epoch
    BY TimeoutAssumption DEF Pacemaker
  <2>2. AdvanceRoundQC(s, r) = IF r >= s.currentRound THEN startTimer(t, r + 1) ELSE s
    BY DEF AdvanceRoundQC
  <2> HIDE DEF t
  <2> QED BY <2>1, <2>2, StartTimerRearms DEF Rearmed
<1>2. AdvanceRoundTC(s, r) \in Pacemaker
      /\ (AdvanceRoundTC(s, r) = s \/ Rearmed(s, AdvanceRoundTC(s, r)))
  <2> DEFINE t == [s EXCEPT !.dur = Grow(@), !.tcs = @ + 1]
  <2>0. Grow(s.dur) \in Nat \ {0} /\ s.tcs + 1 \in Nat
    BY GrowType DEF Pacemaker
  <2>1. t \in Pacemaker /\ t.epoch = s.epoch
    BY <2>0 DEF Pacemaker
  <2>2. AdvanceRoundTC(s, r) = IF r >= s.currentRound THEN startTimer(t, r + 1) ELSE s
    BY DEF AdvanceRoundTC
  <2> HIDE DEF t
  <2> QED BY <2>1, <2>2, StartTimerRearms DEF Rearmed
<1> QED BY <1>1, <1>2 DEF processCertificate

\* Counting a timeout leaves the timer alone, or amplifies or completes a
\* certificate, each of which starts a timer.
LEMMA RemoteTimeoutRearms ==
  ASSUME NEW s \in Pacemaker, NEW e, e.round \in Nat, e.sender \in Replicas
  PROVE  LET t == ProcessRemoteTimeout(s, e)
         IN  t \in Pacemaker /\ (SameTimer(s, t) \/ Rearmed(s, t))
<1> DEFINE a == [s EXCEPT !.senders = @ \cup {e.sender}]
           b == Amplify(a)
           c == Complete(b, e.round)
<1>1. a \in Pacemaker /\ SameTimer(s, a)
  BY DEF Pacemaker, SameTimer
<1>2. b \in Pacemaker /\ (b = a \/ Rearmed(a, b))
  <2> HIDE DEF a
  <2>1. Stop(a) \in Pacemaker /\ Stop(a).epoch = a.epoch + 1 /\ a.epoch \in Nat
    BY <1>1, StopType DEF Pacemaker
  <2>2. LocalTimeoutRound(Stop(a)) \in Pacemaker /\ Rearmed(Stop(a), LocalTimeoutRound(Stop(a)))
    BY <2>1, LocalTimeoutRearms
  <2>3. LocalTimeoutRound(Stop(a)).epoch \in Nat
    BY <2>2 DEF Pacemaker
  <2> QED BY <1>1, <2>1, <2>2, <2>3 DEF Amplify, Rearmed
<1>3. c \in Pacemaker /\ (c = b \/ Rearmed(b, c))
  <2> HIDE DEF b
  <2>1. AdvanceRoundTC(b, e.round) = processCertificate(b, "tc", e.round)
    BY DEF processCertificate
  <2> QED BY <1>2, <2>1, CertificateRearms DEF Complete
<1>4. ProcessRemoteTimeout(s, e) = s \/ ProcessRemoteTimeout(s, e) = c
  BY DEF ProcessRemoteTimeout
<1>5. /\ s.epoch \in Nat /\ a.epoch \in Nat /\ b.epoch \in Nat /\ c.epoch \in Nat
  <2> HIDE DEF a, b, c
  <2> QED BY <1>1, <1>2, <1>3 DEF Pacemaker
<1>6. SameTimer(s, s)
  BY DEF SameTimer
<1> HIDE DEF a, b, c
<1> QED BY <1>1, <1>2, <1>3, <1>4, <1>5, <1>6 DEF SameTimer, Rearmed

\* Every handler leaves the timer alone or starts one; the expiry of the
\* armed timer always starts one.
LEMMA HandleRearms ==
  ASSUME NEW s \in Pacemaker, NEW e \in Event
  PROVE  LET t == Handle(s, e)
         IN  /\ t \in Pacemaker
             /\ SameTimer(s, t) \/ Rearmed(s, t)
             /\ e.type = "local" => (IF e.epoch = s.epoch THEN Rearmed(s, t) ELSE t = s)
<1>0. SameTimer(s, s)
  BY DEF SameTimer
<1>1. CASE e \in Expiry
  <2>1. e.type = "local" /\ Handle(s, e) = OnExpiry(s, e)
    BY <1>1 DEF Handle, Expiry
  <2> QED BY <1>0, <2>1, LocalTimeoutRearms DEF OnExpiry
<1>2. CASE e \in [type : {"cert"}, via : {"qc", "tc"}, round : 1..MaxRound - 1]
  <2>1. e.type = "cert" /\ e.round \in Nat /\ Handle(s, e) = processCertificate(s, e.via, e.round)
    BY <1>2, BoundAssumption DEF Handle
  <2> QED BY <1>0, <2>1, CertificateRearms
<1>3. CASE e \in [type : {"timeout"}, via : {"qc", "tc"}, round : 1..MaxRound - 1, sender : Replicas]
  <2> DEFINE t == processCertificate(s, e.via, e.round - 1)
             u == ProcessRemoteTimeout(t, e)
  <2>1. e.type = "timeout" /\ e.round \in Nat /\ e.round - 1 \in Nat /\ e.sender \in Replicas
    BY <1>3, BoundAssumption
  <2>2. Handle(s, e) = u
    BY <2>1 DEF Handle, processTimeoutMsg
  <2>3. t \in Pacemaker /\ (t = s \/ Rearmed(s, t))
    BY <2>1, CertificateRearms
  <2>4. u \in Pacemaker /\ (SameTimer(t, u) \/ Rearmed(t, u))
    <3> HIDE DEF t
    <3> QED BY <2>1, <2>3, RemoteTimeoutRearms
  <2>5. s.epoch \in Nat /\ t.epoch \in Nat /\ u.epoch \in Nat
    <3> HIDE DEF t, u
    <3> QED BY <2>3, <2>4 DEF Pacemaker
  <2> HIDE DEF t, u
  <2> QED BY <1>0, <2>1, <2>2, <2>3, <2>4, <2>5 DEF SameTimer, Rearmed
<1> QED BY <1>1, <1>2, <1>3 DEF Event, Inbound

------------------------------------------------------------------------------
\* The queue after a push, and after the head has been taken.
LEMMA Pushed ==
  ASSUME NEW s \in Seq(Event), NEW e \in Event
  PROVE  /\ Append(s, e) \in Seq(Event)
         /\ DOMAIN Append(s, e) = DOMAIN s \cup {Len(s) + 1}
         /\ \A i \in DOMAIN s : Append(s, e)[i] = s[i] /\ i # Len(s) + 1
         /\ Append(s, e)[Len(s) + 1] = e
  BY AppendProperties

\* What is left of a queue whose head is taken.
LEMMA Taken ==
  ASSUME NEW s \in Seq(Event), s # <<>>
  PROVE  /\ Head(s) \in Event /\ Head(s) = s[1] /\ 1 \in DOMAIN s
         /\ Tail(s) \in Seq(Event)
         /\ \A i \in DOMAIN Tail(s) : i + 1 \in DOMAIN s /\ i + 1 # 1 /\ Tail(s)[i] = s[i + 1]
         /\ \A i \in DOMAIN s : i # 1 => i - 1 \in DOMAIN Tail(s) /\ Tail(s)[i - 1] = s[i]
  BY HeadTailProperties

\* Nothing is pending before Start.
LEMMA InitIInv == Init => IInv
<1> SUFFICES ASSUME Init PROVE IInv
  OBVIOUS
<1>1. TypeOK
  BY TimeoutAssumption DEF Init, TypeOK, NewPacemaker, Pacemaker
<1> QED BY <1>1 DEF Init, IInv, OneLiveExpiry, EpochsPast, LiveIsLatest, NoTimerYet,
                    NewPacemaker, LiveFired, LiveQueued

\* A new timer outdates every expiry on its way.
LEMMA RearmKeepsIInv ==
  ASSUME IInv, phase' = "running", fired' = fired, p' \in Pacemaker, Rearmed(p, p'),
         q' \in Seq(Event),
         \A i \in DOMAIN q' : \E j \in DOMAIN q : q'[i] = q[j]
  PROVE  IInv'
<1>1. p.epoch \in Nat /\ p'.epoch \in Nat /\ p'.epoch > p.epoch /\ p'.timer # 0
  BY DEF IInv, TypeOK, Pacemaker, Rearmed
<1>2. TypeOK'
  BY DEF IInv, TypeOK
<1>3. \A e \in fired : e.epoch \in Nat /\ e.epoch < p'.epoch
  BY <1>1 DEF IInv, TypeOK, EpochsPast, Expiry
<1>4. \A i \in DOMAIN q' : q'[i].type = "local" => q'[i].epoch \in Nat /\ q'[i].epoch < p'.epoch
  <2> SUFFICES ASSUME NEW i \in DOMAIN q', q'[i].type = "local"
               PROVE  q'[i].epoch \in Nat /\ q'[i].epoch < p'.epoch
    OBVIOUS
  <2>1. PICK j \in DOMAIN q : q'[i] = q[j]
    OBVIOUS
  <2>2. q[j] \in Event
    BY DEF IInv, TypeOK
  <2>3. q[j].epoch \in Nat
    BY <2>1, <2>2 DEF Event, Inbound, Expiry
  <2> QED BY <1>1, <2>1, <2>3 DEF IInv, EpochsPast
<1> QED BY <1>1, <1>2, <1>3, <1>4
        DEF IInv, OneLiveExpiry, EpochsPast, LiveIsLatest, NoTimerYet, LiveFired, LiveQueued

\* The first timer.
LEMMA StartIInv == ASSUME IInv, Start PROVE IInv'
<1>2. p \in Pacemaker /\ p.currentRound = 0
  BY DEF Start, IInv, TypeOK, NoTimerYet, NewPacemaker
<1>3. p' = startTimer([p EXCEPT !.dur = BaseTimeout, !.tcs = 0], 1)
  BY <1>2 DEF Start, AdvanceRoundQC
<1>4. [p EXCEPT !.dur = BaseTimeout, !.tcs = 0] \in Pacemaker
      /\ [p EXCEPT !.dur = BaseTimeout, !.tcs = 0].epoch = p.epoch
  BY <1>2, TimeoutAssumption DEF Pacemaker
<1>5. p' \in Pacemaker /\ Rearmed(p, p')
  BY <1>3, <1>4, StartTimerRearms DEF Rearmed
<1> QED BY <1>5, RearmKeepsIInv DEF Start, IInv, TypeOK

\* The expiry leaves the timer for its callback.
LEMMA FireIInv == ASSUME IInv, Fire PROVE IInv'
<1> DEFINE x == [type |-> "local", epoch |-> p.epoch, round |-> p.currentRound, arm |-> p.arms]
<1>1. phase # "new"
  BY DEF Fire, IInv, NoTimerYet, NewPacemaker
<1>2. p \in Pacemaker /\ x \in Expiry /\ p' \in Pacemaker /\ p'.timer = 0
      /\ p'.epoch = p.epoch /\ p'.arms = p.arms /\ p'.currentRound = p.currentRound
  BY DEF Fire, IInv, TypeOK, Pacemaker, Expiry
<1>3. x.epoch = p.epoch /\ x.arm = p.arms /\ x.round = p.currentRound /\ p.epoch \in Nat
  BY <1>2 DEF Pacemaker
<1>4. fired' = fired \cup {x} /\ q' = q /\ phase' = phase /\ p.timer # 0
  BY DEF Fire
<1> HIDE DEF x
<1>6. \A e \in fired : e.epoch # p.epoch
  BY <1>4 DEF IInv, LiveIsLatest, LiveFired
<1>7. \A i \in DOMAIN q : ~LiveQueued(i)
  BY <1>4 DEF IInv, LiveIsLatest
<1>8. TypeOK'
  BY <1>2, <1>4 DEF IInv, TypeOK
<1>9. EpochsPast'
  BY <1>2, <1>3, <1>4 DEF IInv, EpochsPast
<1>10. LiveIsLatest'
  BY <1>2, <1>3, <1>4, <1>6, <1>7 DEF LiveIsLatest, LiveFired, LiveQueued
<1>11. OneLiveExpiry'
  BY <1>2, <1>3, <1>4, <1>6, <1>7 DEF OneLiveExpiry, LiveFired, LiveQueued
<1> QED BY <1>1, <1>4, <1>8, <1>9, <1>10, <1>11 DEF IInv, NoTimerYet

\* Only where the live expiries are matters to OneLiveExpiry.
LEMMA SameLive ==
  ASSUME OneLiveExpiry, phase' = phase, p'.timer = p.timer, p'.epoch = p.epoch,
         \A d \in fired : d.epoch = p.epoch => d \in fired',
         \A d \in fired' : d.epoch = p.epoch => d \in fired,
         (\E i \in DOMAIN q : q[i].type = "local" /\ q[i].epoch = p.epoch)
           <=> \E i \in DOMAIN q' : q'[i].type = "local" /\ q'[i].epoch = p.epoch,
         \A i, j \in DOMAIN q' : /\ q'[i].type = "local" /\ q'[i].epoch = p.epoch
                                /\ q'[j].type = "local" /\ q'[j].epoch = p.epoch
                                => i = j
  PROVE  OneLiveExpiry'
<1> SUFFICES ASSUME phase = "running" PROVE OneLiveExpiry'
  BY DEF OneLiveExpiry
<1> DEFINE LF == \E d \in fired : d.epoch = p.epoch
           LQ == \E i \in DOMAIN q : q[i].type = "local" /\ q[i].epoch = p.epoch
<1>1. /\ p.timer # 0 \/ LF \/ LQ
      /\ p.timer # 0 => ~LF /\ ~LQ
      /\ ~(LF /\ LQ)
  BY DEF OneLiveExpiry, LiveFired, LiveQueued
<1>2. /\ LF <=> \E d \in fired' : d.epoch = p'.epoch
      /\ LQ <=> \E i \in DOMAIN q' : q'[i].type = "local" /\ q'[i].epoch = p'.epoch
  OBVIOUS
<1>3. \A d, e \in fired' : d.epoch = p'.epoch /\ e.epoch = p'.epoch => d = e
  BY DEF OneLiveExpiry, LiveFired
<1> HIDE DEF LF, LQ
<1> QED BY <1>1, <1>2, <1>3 DEF OneLiveExpiry, LiveFired, LiveQueued

\* The expiry leaves its callback for the queue.
LEMMA PushIInv == ASSUME IInv, NEW e \in fired, Push(e) PROVE IInv'
<1>1. q \in Seq(Event) /\ e \in Expiry /\ e \in Event /\ e.type = "local" /\ p \in Pacemaker
  BY DEF IInv, TypeOK, Event, Expiry
<1>2. q' = Append(q, e) /\ fired' = fired \ {e} /\ p' = p /\ phase' = phase
  BY DEF Push
<1>3. /\ q' \in Seq(Event) /\ DOMAIN q' = DOMAIN q \cup {Len(q) + 1}
      /\ \A i \in DOMAIN q : q'[i] = q[i] /\ i # Len(q) + 1
      /\ q'[Len(q) + 1] = e
  BY <1>1, <1>2, Pushed
<1>4. TypeOK'
  BY <1>2, <1>3 DEF IInv, TypeOK
<1>5. EpochsPast'
  BY <1>1, <1>2, <1>3 DEF IInv, EpochsPast
<1>6. LiveIsLatest'
  BY <1>1, <1>2, <1>3 DEF IInv, LiveIsLatest, LiveFired, LiveQueued
<1>7. OneLiveExpiry'
  <2> SUFFICES ASSUME phase = "running" PROVE OneLiveExpiry'
    BY <1>2 DEF OneLiveExpiry
  <2> DEFINE n == Len(q) + 1
  <2> HIDE DEF n
  <2>0. /\ DOMAIN q' = DOMAIN q \cup {n} /\ q'[n] = e
        /\ \A i \in DOMAIN q : q'[i] = q[i] /\ i # n
    BY <1>3 DEF n
  <2>1. CASE e.epoch = p.epoch
    <3>1. LiveFired(e) /\ p.timer = 0
      BY <2>1 DEF LiveFired, IInv, LiveIsLatest
    <3>2. \A d \in fired' : ~LiveFired(d)
      BY <1>2, <3>1 DEF IInv, OneLiveExpiry
    <3>3. \A i \in DOMAIN q : ~LiveQueued(i)
      BY <3>1 DEF IInv, OneLiveExpiry
    <3> QED BY <1>1, <1>2, <2>0, <2>1, <3>1, <3>2, <3>3 DEF OneLiveExpiry, LiveFired, LiveQueued
  <2>2. CASE e.epoch # p.epoch
    <3>1. \A i, j \in DOMAIN q : /\ q[i].type = "local" /\ q[i].epoch = p.epoch
                                /\ q[j].type = "local" /\ q[j].epoch = p.epoch
                                => i = j
      BY DEF IInv, OneLiveExpiry, LiveQueued
    <3> QED BY <1>2, <2>0, <2>2, <3>1, SameLive DEF IInv
  <2> QED BY <2>1, <2>2
<1> QED BY <1>2, <1>4, <1>5, <1>6, <1>7 DEF IInv, NoTimerYet

\* A message is no expiry.
LEMMA DeliverIInv == ASSUME IInv, NEW e \in Inbound, Deliver(e) PROVE IInv'
<1>1. q \in Seq(Event) /\ e \in Event /\ e.type # "local"
  BY DEF IInv, TypeOK, Event, Inbound
<1>2. q' = Append(q, e) /\ fired' = fired /\ p' = p /\ phase' = phase
  BY DEF Deliver
<1> DEFINE n == Len(q) + 1
<1>3. /\ q' \in Seq(Event) /\ DOMAIN q' = DOMAIN q \cup {n}
      /\ \A i \in DOMAIN q : q'[i] = q[i] /\ i # n
      /\ q'[n] = e
  BY <1>1, <1>2, Pushed
<1> HIDE DEF n
<1>6. TypeOK'
  BY <1>2, <1>3 DEF IInv, TypeOK
<1>7. EpochsPast' /\ NoTimerYet'
  BY <1>1, <1>2, <1>3 DEF IInv, EpochsPast, NoTimerYet
<1>8. LiveIsLatest'
  BY <1>1, <1>2, <1>3 DEF IInv, LiveIsLatest, LiveFired, LiveQueued
<1>9. OneLiveExpiry'
  <2>1. phase = "running" => \A i, j \in DOMAIN q : LiveQueued(i) /\ LiveQueued(j) => i = j
    BY DEF IInv, OneLiveExpiry
  <2>2. CASE phase = "running"
    BY <1>1, <1>2, <1>3, <2>1, <2>2, SameLive DEF IInv, LiveQueued
  <2>3. CASE phase # "running"
    BY <1>2, <2>3 DEF OneLiveExpiry
  <2> QED BY <2>2, <2>3
<1> QED BY <1>6, <1>7, <1>8, <1>9 DEF IInv

\* The head of the queue is handled: the timer is as before, and the head was
\* not its expiry, or there is a new one.
LEMMA StepIInv == ASSUME IInv, Step PROVE IInv'
<1>1. q \in Seq(Event) /\ p \in Pacemaker /\ p.epoch \in Nat
  BY DEF IInv, TypeOK, Pacemaker
<1>2. /\ phase = "running" /\ phase' = phase /\ fired' = fired
      /\ q # <<>> /\ q' = Tail(q) /\ p' = Handle(p, Head(q))
  BY DEF Step
<1>3. /\ Head(q) \in Event /\ Head(q) = q[1] /\ 1 \in DOMAIN q /\ q' \in Seq(Event)
      /\ \A i \in DOMAIN q' : i + 1 \in DOMAIN q /\ i + 1 # 1 /\ q'[i] = q[i + 1]
      /\ \A i \in DOMAIN q : i # 1 => i - 1 \in DOMAIN q' /\ q'[i - 1] = q[i]
  BY <1>1, <1>2, Taken
<1>4. /\ p' \in Pacemaker
      /\ SameTimer(p, p') \/ Rearmed(p, p')
      /\ Head(q).type = "local" /\ Head(q).epoch = p.epoch => Rearmed(p, p')
  BY <1>1, <1>2, <1>3, HandleRearms
<1>5. CASE Rearmed(p, p')
  BY <1>2, <1>3, <1>4, <1>5, RearmKeepsIInv
<1>6. CASE SameTimer(p, p') /\ ~Rearmed(p, p')
  <2>1. ~(q[1].type = "local" /\ q[1].epoch = p.epoch)
    BY <1>3, <1>4, <1>6
  <2>2. /\ p'.epoch = p.epoch /\ p'.timer = p.timer
        /\ p'.currentRound = p.currentRound /\ p'.arms = p.arms
    BY <1>6 DEF SameTimer
  <2>3. \A i, j \in DOMAIN q : LiveQueued(i) /\ LiveQueued(j) => i = j
    BY <1>2 DEF IInv, OneLiveExpiry
  <2>4. \A i, j \in DOMAIN q' : /\ q'[i].type = "local" /\ q'[i].epoch = p.epoch
                               /\ q'[j].type = "local" /\ q'[j].epoch = p.epoch
                               => i = j
    <3> SUFFICES ASSUME NEW i \in DOMAIN q', NEW j \in DOMAIN q',
                        q'[i].type = "local", q'[i].epoch = p.epoch,
                        q'[j].type = "local", q'[j].epoch = p.epoch
                 PROVE  i = j
      OBVIOUS
    <3>1. i \in Nat /\ j \in Nat
      BY <1>3
    <3>2. i + 1 = j + 1
      BY <1>3, <2>3 DEF LiveQueued
    <3> QED BY <3>1, <3>2
  <2>5. (\E i \in DOMAIN q : q[i].type = "local" /\ q[i].epoch = p.epoch)
          <=> \E i \in DOMAIN q' : q'[i].type = "local" /\ q'[i].epoch = p.epoch
    BY <1>3, <2>1
  <2>6. OneLiveExpiry'
    BY <1>2, <2>2, <2>4, <2>5, SameLive DEF IInv
  <2>7. TypeOK'
    BY <1>2, <1>3, <1>4 DEF IInv, TypeOK
  <2>8. EpochsPast'
    BY <1>2, <1>3, <2>2 DEF IInv, EpochsPast
  <2>9. LiveIsLatest'
    BY <1>2, <1>3, <2>2 DEF IInv, LiveIsLatest, LiveFired, LiveQueued
  <2> QED BY <1>2, <2>6, <2>7, <2>8, <2>9 DEF IInv, NoTimerYet
<1> QED BY <1>4, <1>5, <1>6

\* Stopping the core outdates every expiry and starts no timer.
LEMMA StopCoreIInv == ASSUME IInv, StopCore PROVE IInv'
<1>1. p \in Pacemaker /\ p.epoch \in Nat /\ p'.epoch = p.epoch + 1 /\ p' \in Pacemaker
  BY StopType DEF IInv, TypeOK, Pacemaker, StopCore
<1>2. phase' = "stopped" /\ fired' = fired /\ q' = q
  BY DEF StopCore
<1>3. TypeOK' /\ OneLiveExpiry' /\ NoTimerYet'
  BY <1>1, <1>2 DEF IInv, TypeOK, OneLiveExpiry, NoTimerYet
<1>4. \A e \in fired : e.epoch \in Nat /\ e.epoch < p'.epoch
  BY <1>1 DEF IInv, TypeOK, Expiry, EpochsPast
<1>5. \A i \in DOMAIN q : q[i].type = "local" => q[i].epoch \in Nat /\ q[i].epoch < p'.epoch
  <2>1. \A i \in DOMAIN q : q[i] \in Event
    BY DEF IInv, TypeOK
  <2>2. \A i \in DOMAIN q : q[i].type = "local" => q[i].epoch \in Nat
    BY <2>1 DEF Event, Inbound, Expiry
  <2> QED BY <1>1, <2>2 DEF IInv, EpochsPast
<1>6. EpochsPast' /\ LiveIsLatest'
  BY <1>1, <1>2, <1>4, <1>5 DEF EpochsPast, LiveIsLatest, LiveFired, LiveQueued
<1> QED BY <1>3, <1>6 DEF IInv

\* Nothing is expected of the expiries of a stopped core.
LEMMA DiscardIInv == ASSUME IInv, Discard PROVE IInv'
<1>1. q \in Seq(Event) /\ q # <<>> /\ q' = Tail(q) /\ phase = "stopped"
      /\ phase' = phase /\ p' = p /\ fired' = fired
  BY DEF Discard, IInv, TypeOK
<1>2. q' \in Seq(Event) /\ \A i \in DOMAIN q' : i + 1 \in DOMAIN q /\ q'[i] = q[i + 1]
  BY <1>1, Taken
<1> QED BY <1>1, <1>2 DEF IInv, TypeOK, OneLiveExpiry, EpochsPast, LiveIsLatest, NoTimerYet,
                          LiveFired, LiveQueued

\* Every step of the timer, the queue and the loop keeps the invariant.
LEMMA NextIInv == IInv /\ [Next]_vars => IInv'
<1> SUFFICES ASSUME IInv, [Next]_vars PROVE IInv'
  OBVIOUS
<1>1. CASE UNCHANGED vars
  BY <1>1 DEF vars, IInv, TypeOK, OneLiveExpiry, EpochsPast, LiveIsLatest, NoTimerYet,
              LiveFired, LiveQueued
<1>2. CASE Next
  BY <1>2, StartIInv, FireIInv, PushIInv, DeliverIInv, StepIInv, StopCoreIInv, DiscardIInv
     DEF Next
<1> QED BY <1>1, <1>2

\* IInv is an inductive invariant of the timer, its callbacks and the queue.
THEOREM Invariance == Spec => []IInv
<1>1. Init => IInv
  BY InitIInv
<1>2. IInv /\ [Next]_vars => IInv'
  BY NextIInv
<1> QED BY <1>1, <1>2, PTL DEF Spec

\* A running replica always has one timer, and its expiry is in one place.
THEOREM OneTimer == Spec => []OneLiveExpiry
<1>1. IInv => OneLiveExpiry
  BY DEF IInv
<1> QED BY <1>1, Invariance, PTL

\* Core.Step acts on an expiry only when it is that of the timer started last.
THEOREM StaleExpiriesIgnored == Spec => ExpiriesActOnce
<1> DEFINE Acts == Step /\ Head(q).type = "local" /\ p' # p =>
                     Head(q).arm = p.arms /\ Head(q).round = p.currentRound
<1>1. IInv /\ [Next]_vars => [Acts]_vars
  <2> SUFFICES ASSUME IInv, Step, Head(q).type = "local", p' # p
               PROVE  Head(q).arm = p.arms /\ Head(q).round = p.currentRound
    OBVIOUS
  <2>1. q \in Seq(Event) /\ p \in Pacemaker
    BY DEF IInv, TypeOK
  <2>2. Head(q) \in Event /\ Head(q) = q[1] /\ 1 \in DOMAIN q /\ p' = Handle(p, Head(q))
    BY <2>1, Taken DEF Step
  <2>3. Head(q).epoch = p.epoch
    BY <2>1, <2>2 DEF Handle, OnExpiry
  <2> QED BY <2>2, <2>3 DEF IInv, LiveIsLatest, LiveQueued
<1> QED BY <1>1, Invariance, PTL DEF Spec, ExpiriesActOnce

==============================================================================
