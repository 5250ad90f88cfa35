------------------------------- MODULE LocalRun -------------------------------
(***************************************************************************)
(* A cluster in one process from its first round to its report: each       *)
(* replica stamps the proposals it sends and logs what it commits          *)
(* (replica/replica.go); runAll waits for all of them, checks that the     *)
(* logs agree and writes the results (cmd/diem/main.go).                   *)
(*                                                                         *)
(* What the replicas commit is left open, so that the logs may disagree.   *)
(* The count of commands follows the log and is left out.                  *)
(***************************************************************************)
EXTENDS Naturals, Sequences, SequencesExt

CONSTANTS n, MaxRound

reps == 1..n
Blocks == [round : 1..MaxRound, author : reps]

VARIABLES
  state,     \* state[r]: "waiting" for peers, "running" or "ended"
  proposed,  \* proposed[r]: rounds with a stamp
  sent,      \* sent[r]: rounds that r ever proposed in
  commits,   \* commits[r]: the log
  latencies, \* latencies[r]: rounds whose blocks were measured
  result,    \* result[r]: there is a measurement
  verdict    \* of the report: "none", "ok" (then "written"), "disagree" or "empty"

vars == <<state, proposed, sent, commits, latencies, result, verdict>>

Init ==
  /\ state = [r \in reps |-> "waiting"]
  /\ proposed = [r \in reps |-> {}] /\ sent = [r \in reps |-> {}]
  /\ commits = [r \in reps |-> <<>>] /\ latencies = [r \in reps |-> <<>>]
  /\ result = [r \in reps |-> FALSE]
  /\ verdict = "none"

\* The peers are there: the measurement starts, then the core.
Begin(r) ==
  /\ state[r] = "waiting"
  /\ state' = [state EXCEPT ![r] = "running"]
  /\ UNCHANGED <<proposed, sent, commits, latencies, result, verdict>>

\* stamper.Proposal: Core proposes once in a round, and in later rounds later.
Propose(r, round) ==
  /\ state[r] = "running"
  /\ \A s \in sent[r] : s < round
  /\ proposed' = [proposed EXCEPT ![r] = @ \cup {round}]
  /\ sent' = [sent EXCEPT ![r] = @ \cup {round}]
  /\ UNCHANGED <<state, commits, latencies, result, verdict>>

\* Mutant: whoever's block of a stamped round counts.
Mutant_Own(r, b) == b.round \in proposed[r]

Own(r, b) == b.round \in proposed[r] /\ b.author = r

\* The ledger commits b, of a later round than the block before, and of r only
\* when r proposed it.
commit(r, b) ==
  /\ state[r] = "running"
  /\ \A i \in DOMAIN commits[r] : commits[r][i].round < b.round
  /\ b.author = r => b.round \in sent[r]
  /\ IF Own(r, b)
     THEN /\ latencies' = [latencies EXCEPT ![r] = Append(@, b.round)]
          /\ proposed' = [proposed EXCEPT ![r] = {round \in @ : round > b.round}]
     ELSE UNCHANGED <<latencies, proposed>>
  /\ commits' = [commits EXCEPT ![r] = Append(@, b)]
  /\ UNCHANGED <<state, sent, result, verdict>>

\* Run returns: interrupted, killed or at the end of its time.  One that never
\* reached the first round has no result.
End(r) ==
  /\ state[r] # "ended"
  /\ state' = [state EXCEPT ![r] = "ended"]
  /\ result' = [result EXCEPT ![r] = state[r] = "running"]
  /\ UNCHANGED <<proposed, sent, commits, latencies, verdict>>

------------------------------------------------------------------------------
(* The report. *)

min(a, b) == IF a <= b THEN a ELSE b

\* Mutant: only the first commits are compared.
Mutant_Disagree(k, l) == k # <<>> /\ l # <<>> /\ k[1] # l[1]

Disagree(k, l) == \E i \in 1..min(Len(k), Len(l)) : k[i] # l[i]

Empty(k) == k = <<>>

\* After every Run has returned.
report ==
  /\ \A r \in reps : state[r] = "ended"
  /\ verdict = "none"
  /\ verdict' =
       CASE \E i \in reps : \E j \in i + 1..n : Disagree(commits[i], commits[j]) -> "disagree"
         [] \E i \in reps : Empty(commits[i]) -> "empty"
         [] OTHER -> "ok"
  /\ UNCHANGED <<state, proposed, sent, commits, latencies, result>>

\* After a good report, if there is a file to write to.
writeResults ==
  /\ verdict = "ok"
  /\ verdict' = "written"
  /\ UNCHANGED <<state, proposed, sent, commits, latencies, result>>

Next ==
  \/ \E r \in reps :
       \/ Begin(r) \/ End(r)
       \/ \E round \in 1..MaxRound : Propose(r, round)
       \/ \E b \in Blocks : commit(r, b)
  \/ report
  \/ writeResults

Spec == Init /\ [][Next]_vars

------------------------------------------------------------------------------
\* report lets the logs pass only when of any two one is a prefix of the other,
\* and faults them only when not; and it passes no replica that stopped before
\* its first round, whose results writeResults would not find.
ReportIsRight ==
  LET agree == \A i, j \in reps : IsPrefix(commits[i], commits[j]) \/ IsPrefix(commits[j], commits[i])
  IN  /\ verdict = "disagree" => ~agree
      /\ verdict \in {"ok", "empty", "written"} => agree
      /\ verdict = "written" => \A r \in reps : result[r]

\* Every block a replica proposed and committed is measured, once, and no other
\* is: not that of another leader of the same round, nor one whose stamp went
\* with a later one's.
MeasuredOnce ==
  \A r \in reps :
    LET own == SelectSeq(commits[r], LAMBDA b : b.author = r)
    IN latencies[r] = [i \in DOMAIN own |-> own[i].round]
==============================================================================
