------------------------------ MODULE ReplicaRun ------------------------------
(***************************************************************************)
(* The goroutines of one replica from Run to its return: the consensus     *)
(* loop, the handlers Gorums dispatches, the sender that drains the        *)
(* outbound queue, the block fetches, the timer's callback and the         *)
(* shutdown, with the two bounded channels between them.  The loop blocks  *)
(* for nobody, everybody else blocks on the loop.                          *)
(*                                                                         *)
(* What Core.Step does with an event is reduced to the calls it makes on   *)
(* the transport.  Gorums is external: a stream per sender, received in    *)
(* order; a lock per stream, held by the handler; a bounded send queue per *)
(* node; a server whose Stop waits for no handler.                         *)
(***************************************************************************)
EXTENDS Naturals, Sequences, FiniteSets, SequencesExt

CONSTANTS
  Self, Peers,
  QueueSize,    \* capacity of the event queue
  OutQueue,     \* capacity of the outbound queue
  StreamSize,   \* capacity of the send queue of the own, local node
  MaxSent,      \* each peer sends no more messages
  Kinds,        \* the messages of the peers, a subset of {"msg", "bad", "req"}
  MaxCalls,     \* Core makes no more calls
  Calls,        \* the calls Core makes
  MaxFires      \* timers do not fire more often

Nodes == Peers \cup {Self}

ASSUME RunAssumption ==
  /\ Self \notin Peers
  /\ QueueSize \in Nat \ {0} /\ OutQueue \in Nat \ {0} /\ StreamSize \in Nat \ {0}
  /\ MaxSent \in Nat /\ MaxCalls \in Nat /\ MaxFires \in Nat
  /\ Kinds \subseteq {"msg", "bad", "req"}
  /\ Calls \subseteq [kind : {"send", "fetch"}, to : SUBSET Nodes]

VARIABLES
  phase,      \* where Run is
  ctxDone,    \* its context is done
  connected,  \* peers that have connected
  net,        \* where the transport is: "off", "up", "cancelled" or "down"
  stream,     \* stream[s]: messages of s that no handler has taken
  sent,       \* sent[s]: messages s has sent
  handlers,   \* handler goroutines: [msg, at]
  q,          \* the event queue: events beyond QueueSize are those of the
              \* producers blocked in a push, in the order the runtime serves them
  last,       \* last[s]: number of the last message of s that was accepted
  todo,       \* calls the current Step has yet to make
  out,        \* the outbound queue
  drain,      \* the sender: "idle", "sending" or "ended"
  left,       \* the call it is making: the nodes it has yet to send to
  fetches,    \* block fetches: how many were started, have yet to ask, and wait
  timer,      \* [armed, callbacks, fires]
  tally       \* calls [made, carried, dropped]

vars == <<phase, ctxDone, connected, net, stream, sent, handlers, q, last, todo, out, drain,
          left, fetches, timer, tally>>

------------------------------------------------------------------------------
\* A goroutine of sender s is blocked in a push.
Parked(s) == \E i \in QueueSize + 1..Len(q) : q[i].from = s

\* The stream's lock: held until the handler returns or releases it.
Locked(s) == Parked(s) \/ \E h \in handlers : h.msg.from = s /\ h.at \in {"verify", "push"}

Receive(s, kind) == Append(stream[s], [from |-> s, n |-> sent[s] + 1, kind |-> kind])

Init ==
  /\ phase = "new" /\ ctxDone = FALSE /\ connected = {} /\ net = "off"
  /\ stream = [s \in Nodes |-> <<>>] /\ sent = [s \in Nodes |-> 0] /\ handlers = {}
  /\ q = <<>> /\ last = [s \in Nodes |-> 0]
  /\ todo = <<>> /\ out = <<>> /\ drain = "idle" /\ left = {}
  /\ fetches = [made |-> 0, asking |-> 0, asked |-> 0]
  /\ timer = [armed |-> FALSE, callbacks |-> 0, fires |-> 0]
  /\ tally = [made |-> 0, carried |-> 0, dropped |-> 0]

------------------------------------------------------------------------------
(* Run. *)

netVars  == <<stream, sent, handlers>>
sendVars == <<out, drain, left, fetches>>

\* Transport.Start.
Serve ==
  /\ phase = "new"
  /\ phase' = "waiting"
  /\ net' = "up"
  /\ UNCHANGED <<ctxDone, connected, netVars, q, last, todo, sendVars, timer, tally>>

Connect(s) ==
  /\ net = "up"
  /\ s \notin connected
  /\ connected' = connected \cup {s}
  /\ UNCHANGED <<phase, ctxDone, net, netVars, q, last, todo, sendVars, timer, tally>>

\* The caller, or the measurement's duration.
Cancel ==
  /\ ~ctxDone
  /\ ctxDone' = TRUE
  /\ UNCHANGED <<phase, connected, net, netVars, q, last, todo, sendVars, timer, tally>>

\* The calls a Step, or Start, makes: at most two, a vote and a proposal say.
Emits ==
  \E cs \in BoundedSeq(Calls, 2) : tally.made + Len(cs) <= MaxCalls /\ todo' = cs

\* Every peer has connected.
WaitForPeers == connected = Peers

\* WaitForPeers returned: start the core, then the loop.
Begin ==
  /\ phase = "waiting"
  /\ WaitForPeers
  /\ phase' = "running"
  /\ timer' = [timer EXCEPT !.armed = TRUE]
  /\ Emits
  /\ UNCHANGED <<ctxDone, connected, net, netVars, q, last, sendVars, tally>>

\* WaitForPeers failed.
GiveUp ==
  /\ phase = "waiting"
  /\ ctxDone
  /\ phase' = "stopping"
  /\ UNCHANGED <<ctxDone, connected, net, netVars, q, last, todo, sendVars, timer, tally>>
------------------------------------------------------------------------------
(* Inbound. *)

runVars == <<phase, ctxDone, connected, net>>

\* A message of a peer arrives at the server.
Arrive(s, kind) ==
  /\ net = "up"
  /\ sent[s] < MaxSent
  /\ stream' = [stream EXCEPT ![s] = Receive(s, kind)]
  /\ sent' = [sent EXCEPT ![s] = @ + 1]
  /\ UNCHANGED <<runVars, handlers, q, last, todo, sendVars, timer, tally>>

\* The next message of s gets a handler once the one before released the stream.
Dispatch(s) ==
  /\ net \in {"up", "cancelled"}
  /\ stream[s] # <<>>
  /\ ~Locked(s)
  /\ handlers' = handlers \cup {[msg |-> Head(stream[s]), at |-> "verify"]}
  /\ stream' = [stream EXCEPT ![s] = Tail(@)]
  /\ UNCHANGED <<runVars, sent, q, last, todo, sendVars, timer, tally>>

\* A message the Verifier refuses ends its handler; the others are accepted.
Verify(h) ==
  /\ h.at = "verify"
  /\ IF h.msg.kind = "bad"
     THEN handlers' = handlers \ {h} /\ UNCHANGED last
     ELSE /\ handlers' = (handlers \ {h}) \cup {[h EXCEPT !.at = "push"]}
          /\ last' = [last EXCEPT ![h.msg.from] = h.msg.n]
  /\ UNCHANGED <<runVars, stream, sent, q, todo, sendVars, timer, tally>>

\* Queue.Push: a producer that finds the queue full waits behind the others.
Push(e) == q' = Append(q, e)

\* The handler's push.  That of a block request waits on for the reply.
Sink(h) ==
  /\ h.at = "push"
  /\ Push(h.msg)
  /\ handlers' = (handlers \ {h})
                   \cup (IF h.msg.kind = "req" THEN {[h EXCEPT !.at = "reply"]} ELSE {})
  /\ UNCHANGED <<runVars, stream, sent, last, todo, sendVars, timer, tally>>

\* The handler's push has returned.
Queued(h) == \A i \in QueueSize + 1..Len(q) : q[i] # h.msg

\* Mutant: the handler waits for the reply alone.
Mutant_Return(h) ==
  /\ h.at = "answered"
  /\ Queued(h)
  /\ handlers' = handlers \ {h}
  /\ UNCHANGED <<runVars, stream, sent, q, last, todo, sendVars, timer, tally>>

\* The block request returns with the reply, or when the server's Stop ends its
\* context.
Return(h) ==
  /\ h.at = "answered" \/ (h.at = "reply" /\ net = "down")
  /\ Queued(h)
  /\ handlers' = handlers \ {h}
  /\ UNCHANGED <<runVars, stream, sent, q, last, todo, sendVars, timer, tally>>

\* The peer has given up its request.
HangUp(h) ==
  /\ h.at = "reply"
  /\ Queued(h)
  /\ handlers' = handlers \ {h}
  /\ UNCHANGED <<runVars, stream, sent, q, last, todo, sendVars, timer, tally>>

\* The round timer expires, and its callback pushes.
Fire ==
  /\ timer.armed
  /\ timer.fires < MaxFires
  /\ timer' = [armed |-> FALSE, callbacks |-> timer.callbacks + 1, fires |-> timer.fires + 1]
  /\ UNCHANGED <<runVars, netVars, q, last, todo, sendVars, tally>>

Callback ==
  /\ timer.callbacks > 0
  /\ Push([from |-> "timer", n |-> 0, kind |-> "local"])
  /\ timer' = [timer EXCEPT !.callbacks = @ - 1]
  /\ UNCHANGED <<runVars, netVars, last, todo, sendVars, tally>>

------------------------------------------------------------------------------
(* The consensus loop.  It is at its select when it has no call to make. *)

\* Step of the next event.  It may arm the timer; a block request is answered
\* on a channel with room for the reply, its handler there or not.
Take ==
  /\ phase = "running"
  /\ todo = <<>>
  /\ q # <<>>
  /\ q' = Tail(q)
  /\ handlers' = {IF h.msg = Head(q) THEN [h EXCEPT !.at = "answered"] ELSE h : h \in handlers}
  /\ \E armed \in {timer.armed, TRUE} : timer' = [timer EXCEPT !.armed = armed]
  /\ Emits
  /\ UNCHANGED <<runVars, stream, sent, last, sendVars, tally>>

\* Mutant: an outbound call waits for room.
Mutant_Enqueue ==
  /\ todo # <<>>
  /\ todo' = Tail(todo)
  /\ Len(out) < OutQueue
  /\ out' = Append(out, Head(todo))
  /\ tally' = [tally EXCEPT !.made = @ + 1]
  /\ UNCHANGED <<runVars, netVars, q, last, drain, left, fetches, timer>>

\* A call that finds the outbound queue full is dropped and counted.
Enqueue ==
  /\ todo # <<>>
  /\ todo' = Tail(todo)
  /\ IF Len(out) < OutQueue
     THEN out' = Append(out, Head(todo)) /\ tally' = [tally EXCEPT !.made = @ + 1]
     ELSE tally' = [tally EXCEPT !.made = @ + 1, !.dropped = @ + 1] /\ UNCHANGED out
  /\ UNCHANGED <<runVars, netVars, q, last, drain, left, fetches, timer>>

\* The loop sees its context done, stops the core and hands over to stop.
EndLoop ==
  /\ phase = "running"
  /\ todo = <<>>
  /\ ctxDone
  /\ phase' = "stopping"
  /\ timer' = [timer EXCEPT !.armed = FALSE]
  /\ UNCHANGED <<ctxDone, connected, net, netVars, q, last, todo, sendVars, tally>>
------------------------------------------------------------------------------
(* The sender and the fetches. *)


\* A send has a node to go to.
Configured(c) == c.to # {}

\* Take the next call.  A fetch gets a goroutine of its own; a send to a node
\* that is not configured is dropped and counted.
Pick ==
  /\ drain = "idle"
  /\ net # "off"
  /\ out # <<>>
  /\ out' = Tail(out)
  /\ LET c == Head(out) IN
     \/ /\ c.kind = "fetch"
        /\ fetches' = [fetches EXCEPT !.made = @ + 1, !.asking = @ + 1]
        /\ tally' = [tally EXCEPT !.carried = @ + 1]
        /\ UNCHANGED <<drain, left>>
     \/ /\ c.kind = "send" /\ ~Configured(c)
        /\ tally' = [tally EXCEPT !.dropped = @ + 1]
        /\ UNCHANGED <<drain, left, fetches>>
     \/ /\ c.kind = "send" /\ Configured(c)
        /\ drain' = "sending"
        /\ left' = c.to
        /\ UNCHANGED <<fetches, tally>>
  /\ UNCHANGED <<runVars, netVars, q, last, todo, timer>>

\* Send to one of the nodes, once its send queue has room.  When a peer's has
\* is up to the peer.
SendTo(s) ==
  /\ drain = "sending"
  /\ s \in left
  /\ net # "down"
  /\ left' = left \ {s}
  /\ IF s = Self
     THEN /\ Len(stream[s]) < StreamSize
          /\ stream' = [stream EXCEPT ![s] = Receive(s, "msg")]
          /\ sent' = [sent EXCEPT ![s] = @ + 1]
     ELSE UNCHANGED <<stream, sent>>
  /\ IF left' = {}
     THEN drain' = "idle" /\ tally' = [tally EXCEPT !.carried = @ + 1]
     ELSE UNCHANGED <<drain, tally>>
  /\ UNCHANGED <<runVars, handlers, q, last, todo, out, fetches, timer>>

\* Mutant: a send under way waits for its node whatever happens.
Mutant_Abort == FALSE /\ UNCHANGED vars

\* A blocked send ends with the transport's context.
Abort ==
  /\ drain = "sending"
  /\ net \in {"cancelled", "down"}
  /\ drain' = "idle"
  /\ left' = {}
  /\ UNCHANGED <<runVars, netVars, q, last, todo, out, fetches, timer, tally>>

EndDrain ==
  /\ drain = "idle"
  /\ net \in {"cancelled", "down"}
  /\ drain' = "ended"
  /\ UNCHANGED <<runVars, netVars, q, last, todo, out, left, fetches, timer, tally>>

\* The request of a fetch, which the own replica receives too.
Ask ==
  /\ fetches.asking > 0
  /\ net = "up"
  /\ Len(stream[Self]) < StreamSize
  /\ stream' = [stream EXCEPT ![Self] = Receive(Self, "req")]
  /\ sent' = [sent EXCEPT ![Self] = @ + 1]
  /\ fetches' = [fetches EXCEPT !.asking = @ - 1, !.asked = @ + 1]
  /\ UNCHANGED <<runVars, handlers, q, last, todo, out, drain, left, timer, tally>>

\* A fetch gets its block and pushes it, or ends without.
Fetched ==
  /\ fetches.asked > 0
  /\ Push([from |-> "fetch", n |-> 0, kind |-> "block"])
  /\ fetches' = [fetches EXCEPT !.asked = @ - 1]
  /\ UNCHANGED <<runVars, netVars, last, todo, out, drain, left, timer, tally>>

NotFetched ==
  /\ \E f \in {"asking", "asked"} : fetches[f] > 0 /\ fetches' = [fetches EXCEPT ![f] = @ - 1]
  /\ UNCHANGED <<runVars, netVars, q, last, todo, out, drain, left, timer, tally>>

------------------------------------------------------------------------------
(* stop. *)

\* Transport.Stop, on a goroutine of its own.
StopNet ==
  /\ phase = "stopping"
  /\ \/ net = "up" /\ net' = "cancelled"
     \/ net = "cancelled" /\ net' = "down"
  /\ UNCHANGED <<phase, ctxDone, connected, netVars, q, last, todo, sendVars, timer, tally>>

\* Meanwhile, and once more when the transport is down, the queue is emptied.
Discard ==
  /\ phase \in {"stopping", "final"}
  /\ q # <<>>
  /\ q' = Tail(q)
  /\ UNCHANGED <<runVars, netVars, last, todo, sendVars, timer, tally>>

\* Mutant: nothing more is taken from the queue once the transport is down.
Mutant_Stopped ==
  /\ phase = "stopping" /\ net = "down" /\ drain = "ended"
  /\ phase' = "returned"
  /\ UNCHANGED <<ctxDone, connected, net, netVars, q, last, todo, sendVars, timer, tally>>

\* The server and the sender have ended.
Stopped ==
  /\ phase = "stopping" /\ net = "down" /\ drain = "ended"
  /\ phase' = "final"
  /\ UNCHANGED <<ctxDone, connected, net, netVars, q, last, todo, sendVars, timer, tally>>

\* Run returns.
Returned ==
  /\ phase = "final"
  /\ q = <<>>
  /\ phase' = "returned"
  /\ UNCHANGED <<ctxDone, connected, net, netVars, q, last, todo, sendVars, timer, tally>>

------------------------------------------------------------------------------
Handler == \/ \E s \in Nodes : Dispatch(s)
           \/ \E h \in handlers : Verify(h) \/ Sink(h) \/ Return(h)
Sender  == Pick \/ SendTo(Self) \/ Abort \/ EndDrain
Fetch   == Ask \/ Fetched \/ NotFetched
Main    == Serve \/ GiveUp \/ Discard \/ Stopped \/ Returned

Next ==
  \/ Main \/ Begin \/ Cancel \/ StopNet
  \/ \E s \in Peers : Connect(s) \/ SendTo(s) \/ \E kind \in Kinds : Arrive(s, kind)
  \/ Handler
  \/ \E h \in handlers : HangUp(h)
  \/ Take \/ Enqueue \/ EndLoop
  \/ Fire \/ Callback
  \/ Sender
  \/ Fetch

Spec == Init /\ [][Next]_vars

\* Every goroutine that can go on does.  Nothing is assumed of the peers: that
\* they connect, send, take what is sent to them or answer.  A select with
\* several cases ready picks one at random, so the loop does not overlook its
\* context for ever.
Fairness ==
  /\ WF_vars(Main) /\ WF_vars(Begin) /\ WF_vars(StopNet)
  /\ WF_vars(Handler)
  /\ WF_vars(Take \/ Enqueue) /\ SF_vars(EndLoop)
  /\ WF_vars(Callback)
  /\ WF_vars(Sender)
  /\ WF_vars(Fetch)

FairSpec == Spec /\ Fairness

------------------------------------------------------------------------------
\* The inbox of each sender: its accepted messages, queued or about to be.
Numbers(s, msgs) ==
  LET own == SelectSeq(msgs, LAMBDA e : e.from = s) IN [i \in DOMAIN own |-> own[i].n]

About(s) == {h.msg : h \in {g \in handlers : g.msg.from = s /\ g.at = "push"}}

Abstract == INSTANCE Inbox WITH
  loop <- CASE phase \in {"new", "waiting"} -> "new"
            [] phase = "running" -> "open"
            [] OTHER -> "closed",
  box <- [s \in Nodes |-> Numbers(s, q \o SetToSeq(About(s)))]

\* The consensus loop sees one FIFO inbox per sender, out of which nothing is
\* lost while it runs: the handlers hold the stream until the event is queued,
\* and a push waits.  And the loop comes round to all of them: no cycle of
\* goroutines, each waiting for room that the next should make, stops it.
ServesInbox == Abstract!FairSpec

\* Run returns after its context is done, whatever the peers do and whatever
\* goroutine was blocked where: the sender in a send, handlers in a push.
ShutdownCompletes == ctxDone ~> phase = "returned"

\* The queue has room for the producers that may come after it was emptied for
\* the last time: a handler per sender, a callback per timer, a goroutine per
\* fetch (Replica.stop).
Room == Cardinality(Nodes) + timer.fires + fetches.made <= QueueSize

\* Once Run has returned no producer is blocked on the queue nobody reads, as
\* long as the queue has room for those still to come.
NobodyStranded == phase = "returned" /\ Room => Len(q) <= QueueSize

\* A handler ends, under the same condition: a block request is answered, or its
\* context ends with the transport, also when its event was discarded.
HandlersEnd ==
  \A s \in Nodes : \A n \in 1..MaxSent :
    ((phase = "running" \/ ctxDone) /\ \E h \in handlers : h.msg.from = s /\ h.msg.n = n)
      ~> (Room => ~\E h \in handlers : h.msg.from = s /\ h.msg.n = n)

==============================================================================
