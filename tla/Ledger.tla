-------------------------------- MODULE Ledger --------------------------------
(***************************************************************************)
(* The ledger of one replica under its two mutating calls: Speculate, with *)
(* blocks that arrive in any order, any number of times and with gaps, and *)
(* Commit, for any block.  What the rest of the replica guarantees about   *)
(* the calls (that two conflicting blocks are never both committed, that a *)
(* parent is certified) is not assumed.                                    *)
(***************************************************************************)
EXTENDS MemLedger

CONSTANT Blocks

VARIABLES
  ledger,
  delivered,  \* the blocks passed to OnCommit, in order
  received    \* the blocks ever passed to Speculate

vars == <<ledger, delivered, received>>

Init ==
  /\ ledger = NewMemLedger
  /\ delivered = <<>>
  /\ received = {}

SpeculateBlock(b) ==
  /\ ledger' = Speculate(ledger, b)
  /\ received' = received \cup {b}
  /\ UNCHANGED delivered

CommitBlock(b) ==
  /\ ledger' = Commit(ledger, b)
  /\ delivered' = delivered \o Exported(ledger, b)
  /\ UNCHANGED received

Next ==
  \/ \E b \in Blocks \ {Genesis} : SpeculateBlock(b)
  \/ \E b \in Blocks : CommitBlock(b)

Spec == Init /\ [][Next]_vars

------------------------------------------------------------------------------
log == <<Genesis>> \o delivered

\* OnCommit sees one unbroken branch from genesis to the frontier: every block
\* once, each directly after its parent, however Commit calls jump or repeat.
LogIsChain ==
  /\ log[Len(log)] = ledger.commitID
  /\ \A i \in 1..Len(delivered) : delivered[i] # Genesis /\ Parent(delivered[i]) = log[i]

\* What is speculated does not depend on the order, the gaps or the repeats
\* in which blocks arrived, nor on when commits happened in between: it is
\* exactly what was received and is connected to the frontier.
ArrivalOrderIrrelevant ==
  ledger.pending = Rooted(received, ledger.commitID)

\* No held block is stuck: its parent is still to come, it may still come,
\* and Missing names one block to ask peers for.
HeldBlocksWait ==
  \A h \in ledger.held :
    /\ ~PendingState(ledger, Parent(h))
    /\ Round(Parent(h)) > commitRound(ledger)
    /\ \E p \in Blocks : Missing(ledger, h) = {p} /\ ~PendingState(ledger, p)

\* The ledger retains exactly the last History committed blocks, the frontier
\* among them: the blocks leader election walks back over.
RetainsHistory ==
  LET n == Len(log)
  IN  /\ ledger.order = SubSeq(log, IF n > History THEN n - History + 1 ELSE 1, n)
      /\ ledger.committed = Elements(ledger.order)
      /\ ledger.commitID \in ledger.committed
==============================================================================
