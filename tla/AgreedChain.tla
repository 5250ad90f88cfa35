----------------------------- MODULE AgreedChain -----------------------------
(***************************************************************************)
(* What the replica group promises its users: blocks are decided one by    *)
(* one, never taken back, and all lie on one branch of the tree.  How the  *)
(* group decides is left open.                                             *)
(***************************************************************************)
CONSTANTS
  Blocks,     \* the blocks that may be decided
  Ancestors   \* Ancestors[b]: the blocks b extends, itself included

VARIABLE decided

SameBranch(b, c) == b \in Ancestors[c] \/ c \in Ancestors[b]

Init == decided = {}

Decide(b) ==
  /\ \A d \in decided : SameBranch(b, d)
  /\ decided' = decided \cup {b}

Next == \E b \in Blocks : Decide(b)

Spec == Init /\ [][Next]_decided
==============================================================================
