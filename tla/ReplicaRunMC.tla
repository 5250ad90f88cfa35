----------------------------- MODULE ReplicaRunMC -----------------------------
(* Instances of ReplicaRun. *)
EXTENDS ReplicaRun

Sends == [kind : {"send"}, to : {Nodes, {}}]
Fetches == [kind : {"fetch"}, to : {{}}]
==============================================================================
