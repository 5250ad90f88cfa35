------------------------------- MODULE Workload -------------------------------
(***************************************************************************)
(* The synthetic workload's rate limit (Payload, replica/payload.go): a    *)
(* bucket of credit that fills with the time since the last call, holds    *)
(* one second's worth, and pays for the commands of a proposal.  Time is   *)
(* counted in ticks, TicksPerSecond to the second, and credit in parts of  *)
(* a command, TicksPerSecond to the command; the rounding of the floating  *)
(* point numbers is left out.                                              *)
(***************************************************************************)
EXTENDS Integers

CONSTANTS
  TicksPerSecond,
  batch, rate,     \* rate > 0: a workload without a rate takes batch each time
  Horizon          \* no call is later

ASSUME WorkloadAssumption ==
  /\ TicksPerSecond \in Nat \ {0} /\ batch \in Nat \ {0} /\ rate \in Nat \ {0}
  /\ Horizon \in Nat

VARIABLES
  now,
  called,      \* there was a call: p.last is not zero
  first, last, \* times of the first call and of the last
  credit,
  total,       \* commands handed out so far
  mark,        \* some earlier call: when it was and what had been handed out
  capped       \* the bucket has overflowed

vars == <<now, called, first, last, credit, total, mark, capped>>

min(a, b) == IF a <= b THEN a ELSE b

Full == rate * TicksPerSecond

Init ==
  /\ now = 0 /\ called = FALSE /\ first = 0 /\ last = 0 /\ credit = 0 /\ total = 0
  /\ mark = [at |-> 0, total |-> 0] /\ capped = FALSE

Tick ==
  /\ now < Horizon
  /\ now' = now + 1
  /\ UNCHANGED <<called, first, last, credit, total, mark, capped>>

\* Mutant: the bucket has no brim.
Mutant_Refill(c, elapsed) == c + elapsed * rate

Refill(c, elapsed) == min(c + elapsed * rate, Full)

\* Mutant: the fraction of a command left over is not kept.
Mutant_Spend(c, n) == 0

Spend(c, n) == c - n * TicksPerSecond

\* Whole commands only.
Afford(c) == min(batch, c \div TicksPerSecond)

\* One call; it may become the mark that later ones are measured from.
Transactions ==
  LET c == IF called THEN Refill(credit, now - last) ELSE credit IN
  /\ called' = TRUE
  /\ first' = IF called THEN first ELSE now
  /\ last' = now
  /\ credit' = Spend(c, Afford(c))
  /\ total' = total + Afford(c)
  /\ capped' = (capped \/ (called /\ credit + (now - last) * rate > Full))
  /\ mark' \in {mark, [at |-> now, total |-> total + Afford(c)]}
  /\ UNCHANGED now

Next == Tick \/ Transactions

Spec == Init /\ [][Next]_vars
------------------------------------------------------------------------------
\* Since the first call no more was handed out than the rate allows: a client
\* that asks often gets no command early (what TestPayloadThrottled samples).
WithinRate == TicksPerSecond * total <= rate * (last - first)

\* Between any two calls no more than the rate allows and one second's worth on
\* top: a replica that did not propose for long does not make up for it.
BurstBounded ==
  TicksPerSecond * (total - mark.total) <= rate * (last - mark.at) + Full

\* Unless it let a second's worth go by, the workload loses nothing: what was
\* not handed out yet is still credit, fractions of a command included.
NothingForfeited ==
  called /\ ~capped => TicksPerSecond * total + credit = rate * (last - first)

\* The inductive invariant: the credit is part of what the bounds allow.
IInv ==
  /\ now \in Nat /\ first \in Nat /\ last \in Nat /\ called \in BOOLEAN /\ capped \in BOOLEAN
  /\ credit \in 0..Full /\ total \in Nat /\ mark \in [at : Nat, total : Nat]
  /\ first <= last /\ last <= now
  /\ ~called => first = 0 /\ last = 0 /\ credit = 0 /\ total = 0 /\ mark = [at |-> 0, total |-> 0]
  /\ TicksPerSecond * total + credit <= rate * (last - first)
  /\ TicksPerSecond * (total - mark.total) + credit <= rate * (last - mark.at) + Full
  /\ NothingForfeited
==============================================================================
