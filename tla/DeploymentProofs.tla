--------------------------- MODULE DeploymentProofs ---------------------------
(***************************************************************************)
(* Whatever -remotes, however many processes, and however often -gen-keys  *)
(* ran or died: replicas that start have the replica set of -remotes and   *)
(* an identity of their own.  A process alone makes sure of it: ReadKeys   *)
(* that its public keys are 1..n, New that n is the number of addresses.   *)
(***************************************************************************)
EXTENDS Deployment, TLAPS, FiniteSetTheorems

\* A finite set of IDs that holds the first so many holds no other.
LEMMA ContiguousIsInterval ==
  ASSUME NEW D \in SUBSET Ids, \A i \in 1..Cardinality(D) : i \in D
  PROVE  D = 1..Cardinality(D) /\ Cardinality(D) \in Nat
<1>1. IsFiniteSet(Ids)
  BY FS_Interval, FlagsAssumption DEF Ids
<1>2. IsFiniteSet(D) /\ Cardinality(D) \in Nat
  BY <1>1, FS_Subset, FS_CardinalityType
<1>3. 1..Cardinality(D) \subseteq D
  OBVIOUS
<1>4. Cardinality(1..Cardinality(D)) = Cardinality(D)
  BY <1>2, FS_Interval
<1> QED BY <1>2, <1>3, <1>4, FS_Subset

\* The length of a list of addresses that is good and not empty.
LEMMA ListLength ==
  ASSUME NEW r \in Remotes, addresses(r).ok, addresses(r).list # <<>>
  PROVE  /\ Len(addresses(r).list) = Len(r) /\ DOMAIN addresses(r).list = DOMAIN r
         /\ addresses(r).list = Trimmed(r) /\ ~BadList(Trimmed(r))
         /\ Len(r) \in Nat /\ Len(r) <= MaxId
<1>1. r \in Seq([addr : STRING, spaces : BOOLEAN]) /\ Len(r) <= MaxId /\ Len(r) \in Nat
      /\ DOMAIN r = 1..Len(r)
  BY FlagsAssumption
<1>2. addresses(r).list = Trimmed(r) /\ ~BadList(Trimmed(r))
  BY DEF addresses
<1>3. Trimmed(r) \in Seq(STRING) /\ Len(Trimmed(r)) = Len(r) /\ DOMAIN Trimmed(r) = DOMAIN r
  <2> DEFINE E == [addr : STRING, spaces : BOOLEAN]
  <2>0. \A x \in E : x.addr \in STRING
    OBVIOUS
  <2>1. \A i \in 1..Len(r) : r[i] \in E
    <3> HIDE DEF E
    <3> SUFFICES r \in Seq(E)
      OBVIOUS
    <3> QED BY <1>1 DEF E
  <2>2. Trimmed(r) \in [1..Len(r) -> STRING]
    <3> HIDE DEF E
    <3> QED BY <1>1, <2>0, <2>1 DEF Trimmed, TrimSpace
  <2> QED BY <1>1, <2>2
<1> QED BY <1>1, <1>2, <1>3

\* A step of one process concerns that process alone.
LEMMA OneProcess ==
  ASSUME IInv, NEW a \in Procs, NEW p \in Proc, Step(a, p), Checked(a, p, remotes)
  PROVE  IInv'
  BY DEF IInv, Step, flags

\* The writer touches the files alone.
LEMMA WriterIInv ==
  ASSUME IInv, proc' = proc, remotes' = remotes, gen' \in Nat,
         key' \in [Ids -> Int], pub' \in [Ids -> Int]
  PROVE  IInv'
  BY DEF IInv

\* A process that has not begun, or has failed, has nothing to answer for.
LEMMA IdleOK == Idle \in Proc /\ Failed \in Proc /\ Idle.st = "idle" /\ Failed.st = "failed"
                /\ NoKeys \in [Ids -> Int] /\ Seeded \in Int /\ Seeded # Absent /\ Absent \in Int
  BY FlagsAssumption DEF Idle, Failed, Proc, NoKeys, Absent, Seeded

\* A process may fail at any point.
LEMMA FailedIInv == ASSUME IInv, NEW a \in Procs, Step(a, Failed) PROVE IInv'
  BY IdleOK, OneProcess DEF Checked

\* The invariant holds at first.
LEMMA InitIInv == Init => IInv
  BY IdleOK, FlagsAssumption DEF Init, IInv, Checked, Absent

\* -gen-keys touches files only, which the invariant does not relate to processes.
LEMMA NextWriter ==
  ASSUME IInv,
         (\E n \in Ids : GenKeys(n)) \/ (\E i \in Ids : OpenKey(i)) \/ FillKey \/ OpenPub \/ FillPub
           \/ Written \/ Die
  PROVE  IInv'
  BY WriterIInv DEF IInv, GenKeys, OpenKey, FillKey, OpenPub, FillPub, Written, Die, flags, Torn

\* Reading the own key keeps the ID that runOne found.
LEMMA ReadKeyIInv == ASSUME IInv, NEW a \in Procs, ReadKey(a) PROVE IInv'
<1> DEFINE k == key[proc[a].id]
           p == [proc[a] EXCEPT !.st = "glob", !.priv = k]
<1>1. proc[a] \in Proc /\ Checked(a, proc[a], remotes) /\ proc[a].st = "key" /\ remotes \in Remotes
  BY DEF IInv, ReadKey
<1>2. proc[a].id \in DOMAIN addresses(remotes).list /\ addresses(remotes).ok
  BY <1>1 DEF Checked
<1>3. CASE Step(a, Failed)
  BY <1>3, FailedIInv
<1>4. CASE Step(a, p)
  <2>1. addresses(remotes).list # <<>>
    BY <1>2
  <2>2. proc[a].id \in Ids
    BY <1>1, <1>2, <2>1, ListLength, FlagsAssumption DEF Ids
  <2>3. p \in Proc /\ p.st = "glob" /\ p.id = proc[a].id
    BY <1>1, <2>2 DEF IInv, Proc
  <2>4. Checked(a, p, remotes)
    BY <1>1, <2>3 DEF Checked
  <2> HIDE DEF p
  <2> QED BY <1>4, <2>3, <2>4, OneProcess
<1> QED BY <1>3, <1>4 DEF ReadKey

\* A process that starts has found its own address in a good list.
LEMMA StartIInv == ASSUME IInv, NEW a \in Procs, Start(a) PROVE IInv'
<1> DEFINE addrs == addresses(remotes)
           n == Len(addrs.list)
           p == [Idle EXCEPT
                   !.id = IdOf(a, addrs.list),
                   !.st = IF keys = "dir" THEN "key" ELSE "keys",
                   !.priv = IF keys = "dir" THEN Absent ELSE Seeded,
                   !.pubs = IF keys = "dir" THEN NoKeys
                            ELSE [i \in Ids |-> IF i <= n THEN Seeded ELSE Absent]]
<1>1. CASE Step(a, Failed)
  BY <1>1, FailedIInv
<1>2. CASE addrs.ok /\ (\E i \in DOMAIN addrs.list : addrs.list[i] = a) /\ Step(a, p)
  <2>1. remotes \in Remotes /\ addrs.list # <<>>
    BY <1>2 DEF IInv
  <2>2. /\ n = Len(remotes) /\ n \in Nat /\ n <= MaxId /\ DOMAIN addrs.list = DOMAIN remotes
        /\ DOMAIN remotes = 1..n
    BY <1>2, <2>1, ListLength, FlagsAssumption
  <2>3. \E i \in DOMAIN addrs.list : addrs.list[i] = a /\ \A j \in 1..i - 1 : addrs.list[j] # a
    <3>1. PICK i \in DOMAIN addrs.list : addrs.list[i] = a
      BY <1>2
    <3>2. IsInjective(addrs.list)
      BY <1>2, <2>1, ListLength DEF BadList
    <3>3. \A j \in 1..i - 1 : j \in DOMAIN addrs.list /\ j # i
      BY <2>2
    <3> QED BY <3>1, <3>2, <3>3 DEF IsInjective
  <2>4. IdOf(a, addrs.list) \in DOMAIN addrs.list /\ addrs.list[IdOf(a, addrs.list)] = a
    BY <2>3 DEF IdOf
  <2> DEFINE seeds == [i \in Ids |-> IF i <= n THEN Seeded ELSE Absent]
             st == IF keys = "dir" THEN "key" ELSE "keys"
             priv == IF keys = "dir" THEN Absent ELSE Seeded
             pubs == IF keys = "dir" THEN NoKeys ELSE seeds
  <2>51. seeds \in [Ids -> Int] /\ Known(seeds) = {i \in Ids : i <= n}
    BY IdleOK DEF Known
  <2>52. st \in {"key", "keys"} /\ priv \in Int /\ pubs \in [Ids -> Int] /\ IdOf(a, addrs.list) \in Nat
    <3> HIDE DEF seeds
    <3> QED BY <2>2, <2>4, <2>51, IdleOK
  <2>53. st = "keys" => Known(pubs) = 1..n
    <3>1. st = "keys" => pubs = seeds
      OBVIOUS
    <3> HIDE DEF seeds, n, st, pubs
    <3>2. {i \in Ids : i <= n} = 1..n
      BY <2>2, FlagsAssumption DEF Ids
    <3> QED BY <2>51, <3>1, <3>2
  <2>54. p = [st |-> st, id |-> IdOf(a, addrs.list), priv |-> priv, names |-> {}, pubs |-> pubs]
    <3>1. p = [Idle EXCEPT !.id = IdOf(a, addrs.list), !.st = st, !.priv = priv, !.pubs = pubs]
      OBVIOUS
    <3> HIDE DEF st, priv, pubs, p
    <3> QED BY <3>1 DEF Idle
  <2> HIDE DEF st, priv, pubs, p
  <2>5. p \in Proc /\ p.id = IdOf(a, addrs.list) /\ p.st = st /\ p.pubs = pubs
    BY <2>52, <2>54 DEF Proc
  <2>6. p.st \in {"key", "keys"} /\ (p.st = "keys" => Known(p.pubs) = 1..n)
    BY <2>5, <2>52, <2>53
  <2>7. Cardinality(1..n) = n
    <3> HIDE DEF n
    <3>1. n \in Nat
      BY <2>2
    <3> QED BY <3>1, FS_Interval
  <2>8. Checked(a, p, remotes)
    BY <1>2, <2>4, <2>5, <2>6, <2>7 DEF Checked
  <2> QED BY <1>2, <2>5, <2>8, OneProcess
<1> QED BY <1>1, <1>2 DEF Start, SeededKeys

\* Listing the public keys keeps it too.
LEMMA GlobIInv == ASSUME IInv, NEW a \in Procs, Glob(a) PROVE IInv'
<1> DEFINE p == [proc[a] EXCEPT !.st = "pubs", !.names = {i \in Ids : pub[i] # Absent}]
<1>1. proc[a] \in Proc /\ Checked(a, proc[a], remotes) /\ proc[a].st = "glob" /\ Step(a, p)
  BY DEF IInv, Glob
<1>2. p \in Proc /\ p.st = "pubs" /\ p.id = proc[a].id
  BY <1>1 DEF Proc
<1>3. Checked(a, p, remotes)
  BY <1>1, <1>2 DEF Checked
<1> HIDE DEF p
<1> QED BY <1>1, <1>2, <1>3, OneProcess

\* So does reading one of them.
LEMMA ReadPubIInv == ASSUME IInv, NEW a \in Procs, NEW i \in Ids, ReadPub(a, i) PROVE IInv'
<1> DEFINE p == [proc[a] EXCEPT !.names = @ \ {i}, !.pubs[i] = pub[i]]
<1>1. proc[a] \in Proc /\ Checked(a, proc[a], remotes) /\ proc[a].st = "pubs" /\ pub \in [Ids -> Int]
  BY DEF IInv, ReadPub
<1>2. CASE Step(a, Failed)
  BY <1>2, FailedIInv
<1>3. CASE Step(a, p)
  <2>1. p \in Proc /\ p.st = "pubs" /\ p.id = proc[a].id
    BY <1>1 DEF Proc
  <2>2. Checked(a, p, remotes)
    BY <1>1, <2>1 DEF Checked
  <2> HIDE DEF p
  <2> QED BY <1>3, <2>1, <2>2, OneProcess
<1> QED BY <1>2, <1>3 DEF ReadPub

\* The contiguity check leaves an interval of IDs.
LEMMA CheckKeysIInv == ASSUME IInv, NEW a \in Procs, CheckKeys(a) PROVE IInv'
<1> DEFINE p == [proc[a] EXCEPT !.st = "keys"]
           D == Known(proc[a].pubs)
<1>1. proc[a] \in Proc /\ Checked(a, proc[a], remotes) /\ proc[a].st = "pubs"
  BY DEF IInv, CheckKeys
<1>2. CASE Step(a, Failed)
  BY <1>2, FailedIInv
<1>3. CASE Contiguous(proc[a].pubs) /\ Step(a, p)
  <2>1. D \in SUBSET Ids /\ \A i \in 1..Cardinality(D) : i \in D
    BY <1>3 DEF Contiguous, Known
  <2>2. D = 1..Cardinality(D)
    <3> HIDE DEF D
    <3> QED BY <2>1, ContiguousIsInterval
  <2>3. p \in Proc /\ p.st = "keys" /\ p.id = proc[a].id /\ Known(p.pubs) = D
    BY <1>1 DEF Proc
  <2>4. Checked(a, p, remotes)
    BY <1>1, <2>2, <2>3 DEF Checked
  <2> HIDE DEF p
  <2> QED BY <1>3, <2>3, <2>4, OneProcess
<1> QED BY <1>2, <1>3 DEF CheckKeys

\* A replica that New lets through has as many keys as addresses.
LEMMA NewReplicaIInv == ASSUME IInv, NEW a \in Procs, NewReplica(a) PROVE IInv'
<1> DEFINE p == [proc[a] EXCEPT !.st = "up"]
           peers == addresses(remotes).list
           D == Known(proc[a].pubs)
<1>1. proc[a] \in Proc /\ Checked(a, proc[a], remotes) /\ proc[a].st = "keys" /\ remotes \in Remotes
  BY DEF IInv, NewReplica
<1>2. CASE Step(a, Failed)
  BY <1>2, FailedIInv
<1>3. CASE ~(Len(peers) # 0 /\ Len(peers) # Cardinality(D)) /\ Step(a, p)
  <2>1. addresses(remotes).ok /\ proc[a].id \in DOMAIN peers /\ peers # <<>> /\ D = 1..Cardinality(D)
    BY <1>1 DEF Checked
  <2>2. Len(peers) \in Nat /\ DOMAIN peers = 1..Len(peers)
    BY <1>1, <2>1, ListLength, FlagsAssumption
  <2>3. Len(peers) # 0
    BY <2>1, <2>2
  <2>4. p \in Proc /\ p.st = "up" /\ p.id = proc[a].id /\ Known(p.pubs) = D
    BY <1>1 DEF Proc
  <2>5. Checked(a, p, remotes)
    BY <1>1, <1>3, <2>1, <2>3, <2>4 DEF Checked
  <2> HIDE DEF p
  <2> QED BY <1>3, <2>4, <2>5, OneProcess
<1> QED BY <1>2, <1>3 DEF NewReplica

\* Every process that got so far has made sure of it.
THEOREM Invariance == Spec => []IInv
<1>1. Init => IInv
  BY InitIInv
<1>2. IInv /\ [Next]_vars => IInv'
  <2> SUFFICES ASSUME IInv, [Next]_vars PROVE IInv'
    OBVIOUS
  <2>1. CASE UNCHANGED vars
    BY <2>1 DEF vars, IInv
  <2> QED BY <2>1, NextWriter, StartIInv, ReadKeyIInv, GlobIInv, ReadPubIInv, CheckKeysIInv,
             NewReplicaIInv DEF Next
<1> QED BY <1>1, <1>2, PTL DEF Spec

\* Replicas that start have the replica set of -remotes.
THEOREM ReplicaSetAgreed == Spec => []SameReplicaSet
<1>1. IInv => SameReplicaSet
  <2> SUFFICES ASSUME IInv, NEW a \in Up PROVE Known(proc[a].pubs) = 1..Len(remotes)
    BY DEF SameReplicaSet
  <2>1. a \in Procs /\ proc[a].st = "up" /\ Checked(a, proc[a], remotes) /\ remotes \in Remotes
    BY DEF Up, IInv
  <2>2. /\ addresses(remotes).ok /\ addresses(remotes).list # <<>>
        /\ Known(proc[a].pubs) = 1..Len(addresses(remotes).list)
    BY <2>1 DEF Checked
  <2> QED BY <2>1, <2>2, ListLength
<1> QED BY <1>1, Invariance, PTL

\* And an identity of their own.
THEOREM IdentitiesDistinct == Spec => []OwnIdentity
<1>1. IInv => OwnIdentity
  <2> SUFFICES ASSUME IInv PROVE OwnIdentity
    OBVIOUS
  <2> DEFINE list == addresses(remotes).list
  <2>1. \A a \in Up : a \in Procs /\ addresses(remotes).ok /\ proc[a].id \in DOMAIN list
                     /\ list[proc[a].id] = a /\ list # <<>>
    BY DEF Up, IInv, Checked
  <2>2. \A a, b \in Up : proc[a].id = proc[b].id => a = b
    BY <2>1
  <2>3. ASSUME NEW a \in Up, NEW i \in DOMAIN remotes, NEW j \in DOMAIN remotes,
               TrimSpace(remotes[i]) = TrimSpace(remotes[j])
        PROVE  i = j
    <3>1. remotes \in Remotes
      BY DEF IInv
    <3>2. IsInjective(Trimmed(remotes)) /\ DOMAIN Trimmed(remotes) = DOMAIN remotes
      BY <2>1, <3>1, ListLength DEF BadList
    <3> QED BY <2>3, <3>2 DEF IsInjective, Trimmed
  <2> QED BY <2>2, <2>3 DEF OwnIdentity
<1> QED BY <1>1, Invariance, PTL

==============================================================================
