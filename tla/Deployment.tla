------------------------------ MODULE Deployment ------------------------------
(***************************************************************************)
(* How a cluster comes to agree on who it is: -gen-keys writes a directory *)
(* of key files one by one and may die in between, and the processes, all  *)
(* given the same -remotes, read it while they start (cmd/diem/main.go,    *)
(* crypto/keys.go, replica.New).  The replica set fixes the quorum and the *)
(* leader rotation, so replicas that started must have the same one.       *)
(*                                                                         *)
(* A key pair is the number of the generation that made it.                *)
(***************************************************************************)
EXTENDS Integers, Sequences, FiniteSets, Functions

CONSTANTS
  Remotes,     \* the values -remotes may have: sequences of [addr, spaces]
  Procs,       \* the values of -self
  Sizes,       \* the values of -local given with -gen-keys
  MaxId,       \* no -local is larger, no -remotes longer
  MaxGen       \* -gen-keys is run no more often

Ids == 1..MaxId

ASSUME FlagsAssumption ==
  /\ MaxId \in Nat /\ MaxGen \in Nat
  /\ Sizes \subseteq Ids
  /\ \A r \in Remotes : r \in Seq([addr : STRING, spaces : BOOLEAN]) /\ Len(r) <= MaxId

\* The content of a file, besides a key of some generation.
Absent == 0
Torn == -1
Seeded == MaxGen + 1   \* not a file: the key that SeededKeys derives

VARIABLES
  remotes,  \* the flags all processes share; where the keys come from: the
  keys,     \* directory "dir", else "seeded" when that is asked for, else "none"
  gen,      \* -gen-keys runs so far
  key, pub, \* the files <id>.key and <id>.pub
  writer,   \* -gen-keys: [at, left, id]
  proc,     \* proc[a]: the process with -self a
  clean     \* processes that started after a finished -gen-keys and before the next

vars == <<remotes, keys, gen, key, pub, writer, proc, clean>>
flags == <<remotes, keys>>

------------------------------------------------------------------------------
TrimSpace(entry) == entry.addr

Trimmed(r) == [i \in DOMAIN r |-> TrimSpace(r[i])]

\* Mutant: a repeated entry is let through.
Mutant_BadList(s) == \E i \in DOMAIN s : s[i] = ""

\* An empty or repeated entry would give two replicas one identity.
BadList(s) == (\E i \in DOMAIN s : s[i] = "") \/ ~IsInjective(s)

\* -remotes as a list: empty when the flag is, an error when it is bad.
addresses(r) ==
  CASE Trimmed(r) = <<"">>  -> [ok |-> TRUE, list |-> <<>>]
    [] BadList(Trimmed(r))  -> [ok |-> FALSE, list |-> <<>>]
    [] OTHER                -> [ok |-> TRUE, list |-> Trimmed(r)]

NoKeys == [i \in Ids |-> Absent]

\* The replicas whose public keys a process has.
Known(pubs) == {i \in Ids : pubs[i] # Absent}

Idle == [st |-> "idle", id |-> 0, priv |-> Absent, names |-> {}, pubs |-> NoKeys]

Init ==
  /\ remotes \in Remotes /\ keys \in {"dir", "seeded", "none"}
  /\ gen = 0
  /\ key = [i \in Ids |-> Absent] /\ pub = [i \in Ids |-> Absent]
  /\ writer = [at |-> "idle", left |-> {}, id |-> 0]
  /\ proc = [a \in Procs |-> Idle]
  /\ clean = {}

------------------------------------------------------------------------------
(* -gen-keys. *)

\* The replicas it makes keys for.
GenerateKeys(n) == 1..n

\* writeKeys, for -local n or for the length of -remotes.
GenKeys(n) ==
  /\ writer.at \in {"idle", "dead"}
  /\ gen < MaxGen
  /\ keys = "dir"
  /\ n \in Sizes \/ (addresses(remotes).ok /\ n = Len(addresses(remotes).list))
  /\ n # 0
  /\ gen' = gen + 1
  /\ writer' = [at |-> "next", left |-> GenerateKeys(n), id |-> 0]
  /\ clean' = {}
  /\ UNCHANGED <<flags, key, pub, proc>>

\* WriteKeys takes the replicas in the order of a map: any.  A file is
\* truncated before it is written.
OpenKey(i) ==
  /\ writer.at = "next"
  /\ i \in writer.left
  /\ key' = [key EXCEPT ![i] = Torn]
  /\ writer' = [at |-> "key", left |-> writer.left \ {i}, id |-> i]
  /\ UNCHANGED <<flags, gen, pub, proc, clean>>

FillKey ==
  /\ writer.at = "key"
  /\ key' = [key EXCEPT ![writer.id] = gen]
  /\ writer' = [writer EXCEPT !.at = "between"]
  /\ UNCHANGED <<flags, gen, pub, proc, clean>>


OpenPub ==
  /\ writer.at = "between"
  /\ pub' = [pub EXCEPT ![writer.id] = Torn]
  /\ writer' = [writer EXCEPT !.at = "pub"]
  /\ UNCHANGED <<flags, gen, key, proc, clean>>

FillPub ==
  /\ writer.at = "pub"
  /\ pub' = [pub EXCEPT ![writer.id] = gen]
  /\ writer' = [writer EXCEPT !.at = "next"]
  /\ UNCHANGED <<flags, gen, key, proc, clean>>

Written ==
  /\ writer.at = "next"
  /\ writer.left = {}
  /\ writer' = [writer EXCEPT !.at = "idle"]
  /\ UNCHANGED <<flags, gen, key, pub, proc, clean>>

\* The process dies, or a write fails, at any point.
Die ==
  /\ writer.at \notin {"idle", "dead"}
  /\ writer' = [at |-> "dead", left |-> {}, id |-> 0]
  /\ UNCHANGED <<flags, gen, key, pub, proc, clean>>
------------------------------------------------------------------------------
(* A process: runOne, replicaKeys, ReadKeys, New. *)

Step(a, p) ==
  /\ proc' = [proc EXCEPT ![a] = p]
  /\ UNCHANGED <<flags, gen, key, pub, writer>>

Failed == [Idle EXCEPT !.st = "failed"]

\* The position of the own address is the ID.
IdOf(a, list) == CHOOSE i \in DOMAIN list : list[i] = a /\ \A j \in 1..i - 1 : list[j] # a

\* Everybody computes the same public keys.
SeededKeys(n) == [i \in Ids |-> IF i <= n THEN Seeded ELSE Absent]

\* runOne up to the keys.  Without a directory the seeded keys are used only
\* when asked for.
Start(a) ==
  /\ proc[a].st \in {"idle", "failed"}
  /\ clean' = IF writer.at = "idle" THEN clean \cup {a} ELSE clean \ {a}
  /\ LET addrs == addresses(remotes)
         size == Len(addrs.list)
     IN IF ~addrs.ok \/ (\A i \in DOMAIN addrs.list : addrs.list[i] # a) \/ keys = "none"
        THEN Step(a, Failed)
        ELSE Step(a, [Idle EXCEPT
               !.id = IdOf(a, addrs.list),
               !.st = IF keys = "dir" THEN "key" ELSE "keys",
               !.priv = IF keys = "dir" THEN Absent ELSE Seeded,
               !.pubs = IF keys = "dir" THEN NoKeys ELSE SeededKeys(size)])

ReadKey(a) ==
  /\ proc[a].st = "key"
  /\ LET k == key[proc[a].id] IN
     Step(a, IF k \in {Absent, Torn} THEN Failed
             ELSE [proc[a] EXCEPT !.st = "glob", !.priv = k])
  /\ UNCHANGED clean

Glob(a) ==
  /\ proc[a].st = "glob"
  /\ Step(a, [proc[a] EXCEPT !.st = "pubs", !.names = {i \in Ids : pub[i] # Absent}])
  /\ UNCHANGED clean

ReadPub(a, i) ==
  /\ proc[a].st = "pubs"
  /\ i \in proc[a].names
  /\ LET p == proc[a] IN
     Step(a, IF pub[i] = Torn THEN Failed
             ELSE [p EXCEPT !.names = @ \ {i}, !.pubs[i] = pub[i]])
  /\ UNCHANGED clean

\* Mutant: any set of public keys will do.
Mutant_Contiguous(pubs) == Known(pubs) # {}

\* The public keys must be exactly 1..n.
Contiguous(pubs) ==
  Known(pubs) # {} /\ \A i \in 1..Cardinality(Known(pubs)) : i \in Known(pubs)

\* The end of ReadKeys.
CheckKeys(a) ==
  /\ proc[a].st = "pubs"
  /\ proc[a].names = {}
  /\ Step(a, IF Contiguous(proc[a].pubs) THEN [proc[a] EXCEPT !.st = "keys"] ELSE Failed)
  /\ UNCHANGED clean

\* replica.New panics when the peers and the keys are not equally many, or the
\* own key is missing.
NewReplica(a) ==
  /\ proc[a].st = "keys"
  /\ LET p == proc[a]
         peers == addresses(remotes).list
     IN Step(a, IF \/ Len(peers) # 0 /\ Len(peers) # Cardinality(Known(p.pubs))
                   \/ p.id \notin Known(p.pubs)
                THEN Failed
                ELSE [p EXCEPT !.st = "up"])
  /\ UNCHANGED clean

Next ==
  \/ \E n \in Ids : GenKeys(n)
  \/ \E i \in Ids : OpenKey(i)
  \/ FillKey \/ OpenPub \/ FillPub \/ Written \/ Die
  \/ \E a \in Procs :
       \/ Start(a) \/ ReadKey(a) \/ Glob(a) \/ CheckKeys(a) \/ NewReplica(a)
       \/ \E i \in Ids : ReadPub(a, i)

Spec == Init /\ [][Next]_vars

------------------------------------------------------------------------------
Up == {a \in Procs : proc[a].st = "up"}

\* Replicas that started have the same replica set, that of -remotes, and so
\* the same quorum and leader rotation, whatever key files were left behind by
\* a -gen-keys for more or fewer replicas or one that died.
SameReplicaSet ==
  \A a \in Up : Known(proc[a].pubs) = 1..Len(remotes)

\* Each of them is a different one: no two share an ID, and every ID of the
\* quorum's count has an address of its own to be reached at.
OwnIdentity ==
  /\ \A a, b \in Up : proc[a].id = proc[b].id => a = b
  /\ Up # {} => \A i, j \in DOMAIN remotes : TrimSpace(remotes[i]) = TrimSpace(remotes[j]) => i = j


------------------------------------------------------------------------------
(* The inductive invariant behind SameReplicaSet and OwnIdentity. *)

Proc == [st : {"idle", "failed", "key", "glob", "pubs", "keys", "up"}, id : Nat, priv : Int,
         names : SUBSET Ids, pubs : [Ids -> Int]]

\* What a process has made sure of when it gets as far as p.
Checked(a, p, r) ==
  /\ p.st \notin {"idle", "failed"} =>
       addresses(r).ok /\ p.id \in DOMAIN addresses(r).list /\ addresses(r).list[p.id] = a
  /\ p.st \in {"keys", "up"} => Known(p.pubs) = 1..Cardinality(Known(p.pubs))
  /\ p.st = "up" => Cardinality(Known(p.pubs)) = Len(addresses(r).list)

IInv ==
  /\ remotes \in Remotes /\ gen \in Nat
  /\ key \in [Ids -> Int] /\ pub \in [Ids -> Int]
  /\ proc \in [Procs -> Proc]
  /\ \A a \in Procs : Checked(a, proc[a], remotes)
==============================================================================
