------------------------------ MODULE BlockTree ------------------------------
(***************************************************************************)
(* The block tree of one replica (diem/blocktree.go), as operators on its  *)
(* state.  A tree is a record of                                           *)
(*   pending       the blocks kept to be served to peers,                  *)
(*   votes         a bag of [block, commits, signer]: the signatures in    *)
(*                 the vote buckets, one bucket per block and commits,     *)
(*   voters        the vote slots taken, [round, signer],                  *)
(*   highQC, highCommitQC,                                                 *)
(*   ledger        the ledger under it, and                                *)
(*   delivered     the blocks the ledger has passed to OnCommit.           *)
(***************************************************************************)
EXTENDS Types, Sequences, Bags

CONSTANT History

L == INSTANCE MemLedger WITH
       Genesis <- genesisBlock, Round <- roundOf, Parent <- parentID

NewBlockTree ==
  [pending |-> {}, votes |-> EmptyBag, voters |-> {},
   highQC |-> genesisQC, highCommitQC |-> genesisQC,
   ledger |-> L!NewMemLedger, delivered |-> <<>>]

\* Mutant: votes below the root are kept although their slots are freed.
Mutant_prune(t, root) ==
  LET kept == {b \in t.pending : b.round > root.round \/ b = root}
  IN  [t EXCEPT !.pending = (kept \cap {root}) \cup L!Rooted(kept, root),
                !.voters = {k \in @ : k.round > root.round}]

\* Make root the root of the pending tree, dropping the orphans to a fixpoint
\* and the votes and vote slots of the rounds up to it.
prune(t, root) ==
  LET kept == {b \in t.pending : b.round > root.round \/ b = root}
  IN  [t EXCEPT
        !.pending = (kept \cap {root}) \cup L!Rooted(kept, root),
        !.votes = [v \in {w \in DOMAIN @ : w.block.round > root.round} |-> @[v]],
        !.voters = {k \in @ : k.round > root.round}]

\* Mutant: a certificate is taken for the highest whatever its round.
Mutant_ProcessQC(t, qc) ==
  LET root == parentID(qc.block)
      committed == [t EXCEPT !.delivered = @ \o L!Exported(t.ledger, root),
                             !.ledger = L!Commit(@, root),
                             !.highCommitQC = qc]
      s == IF qc.commits THEN prune(committed, root) ELSE t
  IN  [s EXCEPT !.highQC = higher(qc, @)]

\* A certificate that commits commits its block's parent.
ProcessQC(t, qc) ==
  LET root == parentID(qc.block)
      committed == [t EXCEPT !.delivered = @ \o L!Exported(t.ledger, root),
                             !.ledger = L!Commit(@, root),
                             !.highCommitQC = higher(qc, @)]
      s == IF qc.commits THEN prune(committed, root) ELSE t
  IN  [s EXCEPT !.highQC = higher(qc, @)]

ExecuteAndInsert(t, b) ==
  [t EXCEPT !.ledger = L!Speculate(@, b), !.pending = @ \cup {b}]

\* Mutant: a signer is turned away from a bucket it is in, not from its round.
Mutant_Counts(t, v) ==
  [block |-> v.block, commits |-> v.commits, signer |-> v.sender] \notin DOMAIN t.votes

\* Whether the slot of v is free.
Counts(t, v) == [round |-> v.block.round, signer |-> v.sender] \notin t.voters

Accumulate(t, v) ==
  [t EXCEPT
    !.voters = @ \cup {[round |-> v.block.round, signer |-> v.sender]},
    !.votes = @ (+) SetToBag({[block |-> v.block, commits |-> v.commits, signer |-> v.sender]})]

\* The bucket of v, as a bag.
Bucket(t, v) ==
  [w \in {u \in DOMAIN t.votes : u.block = v.block /\ u.commits = v.commits} |-> t.votes[w]]

\* The vote that fills a bucket turns it into a certificate.  Its signers are
\* in canonical order: with two signatures of one signer a receiver refuses it.
Certify(t, v) ==
  LET bucket == Bucket(t, v)
  IN  IF BagCardinality(bucket) < QuorumSize(N)
      THEN [tree |-> t, qc |-> NoQC]
      ELSE [tree |-> [t EXCEPT !.votes = @ (-) bucket],
            qc |-> [block |-> v.block, commits |-> v.commits,
                    signers |-> {w.signer : w \in DOMAIN bucket}]]

CountVote(t, v) ==
  IF Counts(t, v) THEN Certify(Accumulate(t, v), v) ELSE [tree |-> t, qc |-> NoQC]

\* Process the commit certificate v carries, then count v; the tree, and the
\* certificate v completed.
ProcessVote(t, v) == CountVote(ProcessQC(t, v.highCommitQC), v)

GenerateBlock(t, id, payload, round) ==
  [author |-> id, round |-> round, payload |-> payload, qc |-> t.highQC]

\* serveBlock: the pending tree answers, then the committed blocks.
Serves(t, b) == b \in t.pending \/ b \in t.ledger.committed
==============================================================================
