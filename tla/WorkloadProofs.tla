---------------------------- MODULE WorkloadProofs ----------------------------
(***************************************************************************)
(* The rate limit holds for every rate, batch and resolution of the clock: *)
(* what was handed out and the credit that is left together never exceed   *)
(* what the time since a call allows.                                      *)
(***************************************************************************)
EXTENDS Workload, TLAPS

\* Whole commands cost no more than the credit they are paid from.
LEMMA AffordIsPaid ==
  ASSUME NEW c \in Nat
  PROVE  Afford(c) \in Nat /\ Spend(c, Afford(c)) \in 0..c
         /\ TicksPerSecond * Afford(c) + Spend(c, Afford(c)) = c
<1>1. c \div TicksPerSecond \in Nat /\ TicksPerSecond * (c \div TicksPerSecond) <= c
  BY WorkloadAssumption
<1>2. Afford(c) \in Nat /\ Afford(c) <= c \div TicksPerSecond
  BY <1>1, WorkloadAssumption DEF Afford, min
<1>3. TicksPerSecond * Afford(c) <= TicksPerSecond * (c \div TicksPerSecond)
      /\ TicksPerSecond * Afford(c) \in Nat
  BY <1>1, <1>2, WorkloadAssumption
<1>4. Afford(c) * TicksPerSecond = TicksPerSecond * Afford(c)
  BY <1>2, WorkloadAssumption
<1> DEFINE x == TicksPerSecond * Afford(c)
<1>5. TicksPerSecond * (c \div TicksPerSecond) \in Nat
  BY <1>1, WorkloadAssumption
<1>6. x \in Nat /\ x <= c
  BY <1>1, <1>3, <1>5
<1>7. Spend(c, Afford(c)) = c - x
  BY <1>4 DEF Spend
<1> HIDE DEF x
<1>8. c - x \in 0..c /\ x + (c - x) = c
  BY <1>6
<1> QED BY <1>2, <1>7, <1>8 DEF x

\* The bucket after a refill.
LEMMA RefillType ==
  ASSUME NEW c \in 0..Full, NEW d \in Nat
  PROVE  /\ Full \in Nat /\ d * rate \in Nat /\ rate * d = d * rate
         /\ Refill(c, d) \in 0..Full /\ Refill(c, d) <= c + d * rate
         /\ ~(c + d * rate > Full) => Refill(c, d) = c + d * rate
<1>1. Full \in Nat /\ d * rate \in Nat /\ rate * d = d * rate
  BY WorkloadAssumption DEF Full
<1>2. c \in Nat /\ c <= Full
  BY <1>1
<1> QED BY <1>1, <1>2 DEF Refill, min

\* Products over a sum.
LEMMA RateOver ==
  ASSUME NEW t \in Nat, NEW u \in Nat, NEW v \in Nat
  PROVE  rate * (u - t) + rate * (v - u) = rate * (v - t) /\ rate * (u - t) \in Int
  BY WorkloadAssumption

\* The credit that commands cost adds up.
LEMMA PriceOf ==
  ASSUME NEW m \in Nat, NEW n \in Nat, NEW k \in Nat
  PROVE  /\ TicksPerSecond * (m + n) = TicksPerSecond * m + TicksPerSecond * n
         /\ TicksPerSecond * (m + n - k) = TicksPerSecond * (m - k) + TicksPerSecond * n
         /\ TicksPerSecond * (m - k) \in Int
         /\ TicksPerSecond * m \in Nat
  BY WorkloadAssumption

\* Nothing is earned or handed out before the first call.
LEMMA InitIInv == Init => IInv
<1>1. Full \in Nat /\ rate * (0 - 0) = 0 /\ TicksPerSecond * 0 = 0 /\ TicksPerSecond * (0 - 0) = 0
  BY WorkloadAssumption DEF Full
<1> SUFFICES ASSUME Init PROVE IInv
  OBVIOUS
<1>2. mark \in [at : Nat, total : Nat] /\ mark.at = 0 /\ mark.total = 0
  BY DEF Init
<1>3. TicksPerSecond * total + credit = 0 /\ TicksPerSecond * (total - mark.total) + credit = 0
      /\ rate * (last - first) = 0 /\ rate * (last - mark.at) = 0
  BY <1>1, <1>2 DEF Init
<1>4. credit \in 0..Full
  BY <1>1 DEF Init
<1>5. called \in BOOLEAN /\ capped \in BOOLEAN /\ ~called /\ NothingForfeited
  BY DEF Init, NothingForfeited
<1>6. mark = [at |-> 0, total |-> 0]
  BY DEF Init
<1> QED BY <1>1, <1>2, <1>3, <1>4, <1>5, <1>6 DEF Init, IInv

\* Time alone changes none of it.
LEMMA TickIInv == ASSUME IInv, Tick PROVE IInv'
  BY DEF IInv, Tick, NothingForfeited, Full

\* What a call hands out it takes from the credit, and the credit it finds was
\* earned since the call before.
LEMMA CallIInv == ASSUME IInv, Transactions PROVE IInv'
<1> DEFINE c == IF called THEN Refill(credit, now - last) ELSE credit
           n == Afford(c)
           earned == rate * (now - last)
<1>1. /\ now \in Nat /\ first \in Nat /\ last \in Nat /\ credit \in 0..Full /\ total \in Nat
      /\ mark \in [at : Nat, total : Nat] /\ first <= last /\ last <= now /\ now - last \in Nat
  BY DEF IInv
<1>2. /\ Full \in Nat /\ earned \in Nat /\ earned = (now - last) * rate
      /\ Refill(credit, now - last) \in 0..Full /\ Refill(credit, now - last) <= credit + earned
      /\ ~(credit + earned > Full) => Refill(credit, now - last) = credit + earned
  BY <1>1, RefillType
<1>3. c \in Nat /\ c <= Full /\ c <= credit + earned
  BY <1>1, <1>2
<1> HIDE DEF c
<1>4. n \in Nat /\ Spend(c, n) \in 0..c /\ TicksPerSecond * n + Spend(c, n) = c
  BY <1>3, AffordIsPaid
<1>5. /\ credit' = Spend(c, n) /\ total' = total + n /\ last' = now /\ now' = now /\ called' = TRUE
      /\ first' = (IF called THEN first ELSE now)
      /\ mark' = mark \/ mark' = [at |-> now, total |-> total + n]
      /\ capped' = (capped \/ (called /\ credit + (now - last) * rate > Full))
  BY DEF Transactions, c
<1> HIDE DEF n
<1>6. /\ TicksPerSecond * (total + n) = TicksPerSecond * total + TicksPerSecond * n
      /\ TicksPerSecond * total \in Nat /\ TicksPerSecond * n \in Nat
  BY <1>1, <1>4, PriceOf
<1>61. \A k \in Nat : /\ TicksPerSecond * (total + n - k)
                          = TicksPerSecond * (total - k) + TicksPerSecond * n
                     /\ TicksPerSecond * (total - k) \in Int
  <2> SUFFICES ASSUME NEW k \in Nat
               PROVE  /\ TicksPerSecond * (total + n - k)
                          = TicksPerSecond * (total - k) + TicksPerSecond * n
                      /\ TicksPerSecond * (total - k) \in Int
    OBVIOUS
  <2>1. total \in Nat /\ n \in Nat
    BY <1>1, <1>4
  <2> QED BY <2>1, PriceOf
<1>7. credit' \in Nat /\ credit' <= c /\ TicksPerSecond * n + credit' = c
  BY <1>3, <1>4, <1>5
<1>8. TicksPerSecond * total' + credit' <= rate * (last' - first')
      /\ (called' /\ ~capped' => TicksPerSecond * total' + credit' = rate * (last' - first'))
  <2>1. CASE ~called
    <3>1. total = 0 /\ credit = 0 /\ c = 0
      BY <2>1 DEF IInv, c
    <3>2. rate * (now - now) = 0 /\ TicksPerSecond * total = 0
      BY <1>1, <3>1, WorkloadAssumption
    <3> QED BY <1>5, <1>6, <1>7, <2>1, <3>1, <3>2
  <2>2. CASE called
    <3>1. rate * (last - first) + earned = rate * (now - first) /\ rate * (last - first) \in Int
      BY <1>1, RateOver
    <3>2. TicksPerSecond * total + credit <= rate * (last - first)
      BY DEF IInv
    <3>3. ~capped => TicksPerSecond * total + credit = rate * (last - first)
      BY <2>2 DEF IInv, NothingForfeited
    <3>4. ~capped' => ~capped /\ c = credit + earned
      BY <1>2, <1>5, <2>2 DEF c
    <3> HIDE DEF earned
    <3> QED BY <1>1, <1>2, <1>3, <1>5, <1>6, <1>7, <2>2, <3>1, <3>2, <3>3, <3>4
  <2> QED BY <2>1, <2>2
<1>9. TicksPerSecond * (total' - mark'.total) + credit' <= rate * (last' - mark'.at) + Full
  <2>1. CASE mark' = [at |-> now, total |-> total + n]
    <3>1. rate * (now - now) = 0 /\ TicksPerSecond * ((total + n) - (total + n)) = 0
      BY <1>1, <1>4, WorkloadAssumption
    <3> QED BY <1>2, <1>3, <1>5, <1>7, <2>1, <3>1
  <2>2. CASE mark' = mark
    <3>1. mark.at \in Nat /\ mark.total \in Nat
      BY <1>1
    <3>2. /\ rate * (last - mark.at) + earned = rate * (now - mark.at)
          /\ rate * (last - mark.at) \in Int
      BY <1>1, <3>1, RateOver
    <3>3. /\ TicksPerSecond * (total + n - mark.total)
               = TicksPerSecond * (total - mark.total) + TicksPerSecond * n
          /\ TicksPerSecond * (total - mark.total) \in Int
      BY <1>61, <3>1
    <3>4. TicksPerSecond * (total - mark.total) + credit <= rate * (last - mark.at) + Full
      BY DEF IInv
    <3> DEFINE paid == TicksPerSecond * n
               out == TicksPerSecond * (total - mark.total)
               allowed == rate * (last - mark.at)
    <3>5. TicksPerSecond * (total' - mark'.total) = out + paid
      <4>1. total' = total + n /\ mark'.total = mark.total
        BY <1>5, <2>2
      <4>2. total' - mark'.total = total + n - mark.total
        <5>1. total \in Nat /\ n \in Nat /\ mark.total \in Nat
          BY <1>1, <1>4, <3>1
        <5>2. total' \in Nat /\ mark'.total \in Nat
          BY <4>1, <5>1
        <5> QED BY <4>1, <5>1, <5>2
      <4> QED BY <3>3, <4>2
    <3>6. rate * (last' - mark'.at) = allowed + earned
      BY <1>5, <2>2, <3>2
    <3>7. paid \in Nat /\ out \in Int /\ allowed \in Int /\ credit \in Nat
      BY <1>1, <1>2, <1>6, <3>2, <3>3
    <3>8. out + credit <= allowed + Full /\ paid + credit' = c
      BY <1>7, <3>4
    <3> HIDE DEF earned, paid, out, allowed
    <3>81. c \in Nat /\ Full \in Nat /\ earned \in Nat /\ credit' \in Nat /\ c <= credit + earned
      BY <1>2, <1>3, <1>7
    <3>9. out + paid + credit' <= allowed + earned + Full
      <4> DEFINE left == credit'
      <4>1. left \in Nat /\ paid + left = c
        BY <3>8, <3>81
      <4> HIDE DEF left
      <4>2. out + paid + left = out + c
        BY <3>7, <3>81, <4>1
      <4>3. out + c <= out + credit + earned /\ out + credit + earned <= allowed + Full + earned
        BY <3>7, <3>8, <3>81
      <4>4. out + paid + left <= allowed + earned + Full
        BY <3>7, <3>81, <4>1, <4>2, <4>3
      <4> QED BY <4>4 DEF left
    <3> QED BY <3>5, <3>6, <3>9
  <2> QED BY <1>5, <2>1, <2>2
<1>10. Full' = Full
  BY DEF Full
<1> QED BY <1>1, <1>2, <1>3, <1>4, <1>5, <1>7, <1>8, <1>9, <1>10 DEF IInv, NothingForfeited

\* The credit and what was handed out stay within what the time allows.
THEOREM Invariance == Spec => []IInv
<1>1. Init => IInv
  BY InitIInv
<1>2. IInv /\ [Next]_vars => IInv'
  <2> SUFFICES ASSUME IInv, [Next]_vars PROVE IInv'
    OBVIOUS
  <2>1. CASE UNCHANGED vars
    BY <2>1 DEF vars, IInv, NothingForfeited, Full
  <2> QED BY <2>1, TickIInv, CallIInv DEF Next
<1> QED BY <1>1, <1>2, PTL DEF Spec

\* Payload never exceeds its rate, from the first call on.
THEOREM RateHolds == Spec => []WithinRate
<1>1. IInv => WithinRate
  <2> SUFFICES ASSUME IInv PROVE WithinRate
    OBVIOUS
  <2>1. Full \in Nat /\ TicksPerSecond * total \in Nat /\ rate * (last - first) \in Int
    BY WorkloadAssumption DEF IInv, Full
  <2>2. credit \in Nat /\ TicksPerSecond * total + credit <= rate * (last - first)
    BY <2>1 DEF IInv
  <2> QED BY <2>1, <2>2 DEF WithinRate
<1> QED BY <1>1, Invariance, PTL

\* After an idle time Payload hands out one second's worth at most on top.
THEOREM BurstHolds == Spec => []BurstBounded
<1>1. IInv => BurstBounded
  <2> SUFFICES ASSUME IInv PROVE BurstBounded
    OBVIOUS
  <2>1. /\ Full \in Nat /\ TicksPerSecond * (total - mark.total) \in Int
        /\ rate * (last - mark.at) \in Int
    BY WorkloadAssumption DEF IInv, Full
  <2>2. /\ credit \in Nat
        /\ TicksPerSecond * (total - mark.total) + credit <= rate * (last - mark.at) + Full
    BY <2>1 DEF IInv
  <2> QED BY <2>1, <2>2 DEF BurstBounded
<1> QED BY <1>1, Invariance, PTL

==============================================================================
