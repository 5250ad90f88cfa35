------------------------------ MODULE MemLedger ------------------------------
(***************************************************************************)
(* The in-memory ledger of one replica (diem/ledger.go), as operators on   *)
(* its state.  A ledger is a record of                                     *)
(*   pending    the speculated blocks above the commit frontier,           *)
(*   held       the blocks waiting for a parent not yet speculated,        *)
(*   committed  the retained committed blocks,                             *)
(*   order      the retained committed blocks, oldest first,               *)
(*   commitID   the last committed block, the frontier.                    *)
(*                                                                         *)
(* A block's id is a digest over all its fields and its execution state a  *)
(* function of its ancestry, so a block stands for its id and its state.   *)
(***************************************************************************)
EXTENDS Integers, Sequences, FiniteSets

CONSTANTS
  Genesis,
  Round(_),    \* b.round
  Parent(_),   \* parentID(b), the block b.qc certifies
  History      \* the number of committed blocks retained

Elements(s) == {s[i] : i \in DOMAIN s}

\* What is left of S when its orphans, the blocks whose parent is neither in S
\* nor the root, are deleted until nothing changes: the largest subset without
\* orphans.
Rooted(S, root) ==
  UNION {K \in SUBSET S : \A b \in K : Parent(b) \in K \cup {root}}

NewMemLedger ==
  [pending |-> {}, held |-> {}, committed |-> {Genesis}, order |-> <<Genesis>>,
   commitID |-> Genesis]

\* Whether PendingState finds a state for b.
PendingState(l, b) == b = l.commitID \/ b \in l.pending

commitRound(l) == Round(l.commitID)

\* Mutant: a released block's own held descendants are not released.
Mutant_Speculate(l, b) ==
  IF PendingState(l, Parent(b))
  THEN LET released == {h \in l.held : Parent(h) = b}
       IN  [l EXCEPT !.pending = @ \cup {b} \cup released, !.held = @ \ released]
  ELSE IF Round(Parent(b)) > commitRound(l)
       THEN [l EXCEPT !.held = @ \cup {b}]
       ELSE l

\* Execute b, then every held descendant that was waiting on it; hold it when
\* its parent is unknown but may still arrive.
Speculate(l, b) ==
  IF PendingState(l, Parent(b))
  THEN LET released == Rooted(l.held, b)
       IN  [l EXCEPT !.pending = @ \cup {b} \cup released, !.held = @ \ released]
  ELSE IF Round(Parent(b)) > commitRound(l)
       THEN [l EXCEPT !.held = @ \cup {b}]
       ELSE l

\* The oldest unseen ancestors of b: one when b is held, none otherwise.
Missing(l, b) ==
  {p \in {Parent(h) : h \in l.held} \ l.held : b \in Rooted(l.held, p)}

\* Mutant: held blocks stay when the frontier passes their parent.
Mutant_prune(l) == [l EXCEPT !.pending = Rooted(@, l.commitID)]

prune(l) ==
  [l EXCEPT !.held = {h \in @ : Round(Parent(h)) > commitRound(l)},
            !.pending = Rooted(@, l.commitID)]

\* Mutant: the frontier is not exempt and the retention is off by one.
Mutant_forget(l) ==
  LET n == Len(l.order)
      kept == SubSeq(l.order, n - History + 2, n)
  IN  IF n > History - 1 THEN [l EXCEPT !.order = kept, !.committed = Elements(kept)] ELSE l

\* Drop the oldest committed blocks past the retention bound, never the
\* frontier.
forget(l) ==
  LET n == Len(l.order)
      dropped == Elements(SubSeq(l.order, 1, n - History))
  IN  IF n > History
      THEN [l EXCEPT !.order = SubSeq(@, n - History + 1, n),
                     !.committed = @ \ (dropped \ {l.commitID})]
      ELSE l

\* The walk back from b over pending blocks, b included.
Line(l, b) == {a \in l.pending : a = b \/ b \in Rooted(l.pending, a)}

\* The blocks of S by round.
ByRound(S) ==
  [i \in 1..Cardinality(S) |->
    CHOOSE b \in S : Cardinality({a \in S : Round(a) < Round(b)}) = i - 1]

\* Mutant: the walk is exported as it was made, newest block first.
Mutant_Exported(l, b) ==
  LET walk == ByRound(Line(l, b))
  IN  IF b \in l.pending /\ Parent(walk[1]) = l.commitID
      THEN [i \in DOMAIN walk |-> walk[Len(walk) + 1 - i]]
      ELSE <<>>

\* What Commit hands to OnCommit: the walk in commit order if it reaches the
\* frontier, and nothing otherwise.
Exported(l, b) ==
  LET walk == ByRound(Line(l, b))
  IN  IF b \in l.pending /\ Parent(walk[1]) = l.commitID THEN walk ELSE <<>>

\* Move the frontier along chain.
Export(l, chain) ==
  IF chain = <<>>
  THEN l
  ELSE forget(prune([l EXCEPT !.pending = @ \ Elements(chain),
                              !.committed = @ \cup Elements(chain),
                              !.order = @ \o chain,
                              !.commitID = chain[Len(chain)]]))

Commit(l, b) == Export(l, Exported(l, b))
==============================================================================
