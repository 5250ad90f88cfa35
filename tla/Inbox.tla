--------------------------------- MODULE Inbox ---------------------------------
(***************************************************************************)
(* What the transport and the event queue together promise the consensus   *)
(* goroutine: one FIFO inbox per sender.  Messages enter it in the order   *)
(* they were sent, one that entered is never lost while the loop runs, and *)
(* the loop comes round to every inbox.                                    *)
(***************************************************************************)
EXTENDS Naturals, Sequences

CONSTANT Nodes   \* the senders

VARIABLES
  loop,    \* "new", "open" or "closed"
  box,     \* box[s]: numbers of the messages of s that are accepted, not handled
  last     \* last[s]: number of the last message of s accepted

vars == <<loop, box, last>>

Init ==
  /\ loop = "new"
  /\ box = [s \in Nodes |-> <<>>]
  /\ last = [s \in Nodes |-> 0]

\* A later message of s; the ones in between were refused.
Accept(s) ==
  /\ last'[s] > last[s]
  /\ last' = [last EXCEPT ![s] = last'[s]]
  /\ box' = [box EXCEPT ![s] = Append(@, last'[s])]
  /\ UNCHANGED loop

Hand(s) ==
  /\ loop = "open"
  /\ box[s] # <<>>
  /\ box' = [box EXCEPT ![s] = Tail(@)]
  /\ UNCHANGED <<loop, last>>

Discard(s) ==
  /\ loop = "closed"
  /\ box[s] # <<>>
  /\ box' = [box EXCEPT ![s] = Tail(@)]
  /\ UNCHANGED <<loop, last>>

Open  == loop = "new" /\ loop' = "open" /\ UNCHANGED <<box, last>>
Close == loop \in {"new", "open"} /\ loop' = "closed" /\ UNCHANGED <<box, last>>

Next ==
  \/ \E s \in Nodes : Accept(s) \/ Hand(s) \/ Discard(s)
  \/ Open
  \/ Close

\* While the loop runs it comes round to every inbox.
Fairness == \A s \in Nodes : WF_vars(Hand(s))

Spec == Init /\ [][Next]_vars

FairSpec == Spec /\ Fairness
==============================================================================
