-------------------------------- MODULE Mempool --------------------------------
(***************************************************************************)
(* FIFOPool (diem/mempool.go): clients add transactions to a bounded       *)
(* channel from their goroutines while the proposer, on the consensus      *)
(* goroutine, takes a batch from it one by one.                            *)
(***************************************************************************)
EXTENDS Naturals, Sequences, SequencesExt

CONSTANTS
  Txns,       \* transactions; a client adds one again after it was proposed
  Capacity, batch

VARIABLES
  q,          \* the channel
  taking,     \* GetTransactions is under way
  out,        \* what it has taken
  proposed    \* what it returned last

vars == <<q, taking, out, proposed>>

NewFIFOPool == q = <<>>

Init == NewFIFOPool /\ taking = FALSE /\ out = <<>> /\ proposed = <<>>

\* A full channel refuses the transaction; the client is told.
Add(txn) ==
  /\ txn \notin Range(q) \cup Range(out)
  /\ q' = IF Len(q) < Capacity THEN Append(q, txn) ELSE q
  /\ UNCHANGED <<taking, out, proposed>>

\* The proposer calls GetTransactions.
Call ==
  /\ ~taking
  /\ taking' = TRUE
  /\ UNCHANGED <<q, out, proposed>>

More == Len(out) < batch

\* Mutant: empty the channel, and drop what is too much for the batch.
Mutant_Take ==
  /\ taking
  /\ q # <<>>
  /\ out' = IF More THEN Append(out, Head(q)) ELSE out
  /\ q' = Tail(q)
  /\ UNCHANGED <<taking, proposed>>

\* One turn of its loop.
Take ==
  /\ taking
  /\ More
  /\ q # <<>>
  /\ out' = Append(out, Head(q))
  /\ q' = Tail(q)
  /\ UNCHANGED <<taking, proposed>>

\* Mutant: the slice of the last batch is not given up.
Mutant_Return ==
  /\ taking
  /\ ~More \/ q = <<>>
  /\ taking' = FALSE
  /\ proposed' = out
  /\ UNCHANGED <<q, out>>

\* It returns a full batch, or what there was when it found the channel empty.
Return ==
  /\ taking
  /\ ~More \/ q = <<>>
  /\ taking' = FALSE
  /\ proposed' = out
  /\ out' = <<>>
  /\ UNCHANGED q

Next == (\E txn \in Txns : Add(txn)) \/ Call \/ Take \/ Return

Spec == Init /\ [][Next]_vars

\* The consensus goroutine goes on with a call it has begun; the clients may
\* add as fast as they can.
Fairness == WF_vars(Take \/ Return)

Abstract == INSTANCE Pool WITH pool <- out \o q, Batch <- batch

\* However clients and proposer interleave, a batch is taken as if at one
\* instant: the oldest accepted transactions, in order, none lost, none twice.
BatchesAreAtomic == Abstract!Spec

\* A flood of transactions does not keep the proposer: GetTransactions returns
\* though the channel never runs empty.
FloodDoesNotStall == taking ~> ~taking
==============================================================================
