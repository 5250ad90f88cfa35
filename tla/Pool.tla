--------------------------------- MODULE Pool ---------------------------------
(***************************************************************************)
(* What the mempool promises a proposer: transactions leave it in batches, *)
(* in the order they were accepted, each of them once.                     *)
(***************************************************************************)
EXTENDS Naturals, Sequences

CONSTANTS Txns, Batch

VARIABLES
  pool,      \* accepted, not proposed
  proposed   \* the last batch

vars == <<pool, proposed>>

Init == pool = <<>> /\ proposed = <<>>

Accept(x) == pool' = Append(pool, x) /\ UNCHANGED proposed

Propose(n) ==
  /\ n <= Batch /\ n <= Len(pool)
  /\ proposed' = SubSeq(pool, 1, n)
  /\ pool' = SubSeq(pool, n + 1, Len(pool))

Next == (\E x \in Txns : Accept(x)) \/ (\E n \in 0..Batch : Propose(n))

Spec == Init /\ [][Next]_vars
==============================================================================
