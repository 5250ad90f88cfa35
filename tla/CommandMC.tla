------------------------------- MODULE CommandMC -------------------------------
(***************************************************************************)
(* The command (run of cmd/diem/main.go): either -gen-keys and processes   *)
(* with -self around a directory of keys, or a -local cluster in one       *)
(* process up to its report; and the signatures both make.                 *)
(***************************************************************************)
EXTENDS Deployment, Signer

CONSTANTS n, MaxRound   \* of LocalRun

VARIABLES
  local,   \* -local without -gen-keys
  state, proposed, sent, commits, latencies, result, verdict

localVars == <<state, proposed, sent, commits, latencies, result, verdict>>

Local == INSTANCE LocalRun

------------------------------------------------------------------------------
Entry(a) == [addr |-> a, spaces |-> FALSE]

MCRemotes ==
  {<<Entry("a"), [addr |-> "b", spaces |-> TRUE]>>,
   <<Entry("a"), Entry("b"), [addr |-> "a", spaces |-> TRUE]>>,
   <<Entry("a"), Entry("")>>,
   <<Entry("")>>}

\* ECDSA over the integers mod a small prime, with k for the point kG: the
\* x-coordinate of kG is that of -kG.
X(k) == IF k <= halfOrder THEN k ELSE curveOrder - k

Reciprocal(k) == CHOOSE i \in Scalars : (i * k) % curveOrder = 1

\* The s of a signature with private key id and nonce k.  One that is 0 is not
\* used: SignASN1 then takes another nonce.
S(id, digest, k) == (Reciprocal(k) * (digest + X(k) * id)) % curveOrder

MCRaw ==
  [a \in signers \X Digests \X Nonces |->
    IF S(a[1], a[2], a[3]) # 0 THEN S(a[1], a[2], a[3]) ELSE 1]

------------------------------------------------------------------------------
\* A local cluster has no use for -remotes and the keys.
CommandInit ==
  /\ local \in BOOLEAN
  /\ Init
  /\ local => remotes = <<Entry("")>> /\ keys = "none"
  /\ Local!Init

Remote == ~local /\ Next /\ UNCHANGED <<local, localVars>>
RunLocal == local /\ Local!Next /\ UNCHANGED <<local, vars>>

CommandNext == Remote \/ RunLocal

CommandSpec == CommandInit /\ [][CommandNext]_<<local, vars, localVars>>

------------------------------------------------------------------------------
\* report lets the logs pass only when of any two one is a prefix of the other,
\* and faults them only when not; the results that writeResults reads are there.
ReportIsRight == Local!ReportIsRight

\* Every block a replica proposed and committed is measured, once, and no other.
MeasuredOnce == Local!MeasuredOnce
==============================================================================
