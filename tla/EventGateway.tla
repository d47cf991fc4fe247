---------------------------- MODULE EventGateway ----------------------------
(***************************************************************************)
(* The persistent integration endpoint: EventHub (models/events.rs), the   *)
(* sockets of api/gateway.rs, and the publishers, set_model                *)
(* (services/integration.rs, repos/mod.rs) and create_destiny_profile      *)
(* (services/bazi_service.rs), together with a client that follows         *)
(* docs/websocket-integration.md: subscribe, then fetch a snapshot; reload *)
(* on every event.                                                         *)
(*                                                                         *)
(* Data abstraction.  What get_state returns is the version of the owner's *)
(* row.  Events carry no data and are alike, so a notification queue is a  *)
(* number.                                                                 *)
(*                                                                         *)
(* Locking.  publish holds the read lock of the owner's shard while it     *)
(* walks the connections; connect and drop take the write lock.            *)
(***************************************************************************)
EXTENDS Naturals, Sequences, FiniteSets

CONSTANTS
  Owners,
  Conns,           \* sockets, each open again and again
  Owner,           \* Owner[c]: whose key a socket presents
  Writers,         \* tasks that change an owner's row and publish
  Commands,        \* what clients ask for: "subscribe", "unsubscribe", "get"
  MaxConnections,  \* WS_MAX_CONNECTIONS
  PerOwner,        \* connections per owner; two in the code
  QueueCapacity,   \* WS_QUEUE_CAPACITY
  WireCapacity,    \* messages a socket takes before its send blocks
  MaxVersions      \* bound: changes per owner

ASSUME GatewayAssumption ==
  /\ IsFiniteSet(Conns)
  /\ Owner \in [Conns -> Owners]
  /\ Commands \subseteq {"subscribe", "unsubscribe", "get"}
  /\ MaxConnections \in Nat \ {0}
  /\ PerOwner \in Nat
  /\ QueueCapacity \in Nat \ {0}
  /\ WireCapacity \in Nat \ {0}
  /\ MaxVersions \in Nat

VARIABLES
  permits,                \* left in Runtime.connections
  pc,                     \* where the task of each socket stands
  hub,                    \* the sockets registered in EventHub
  enabled, slow, queue,   \* their Subscriber: flag, token, notifications
  hand, wire,             \* the message being sent; messages on their way
  waiting, frame,         \* client: its open command; the frame is unread
  following, due,         \* client: subscribed; must reload
  known,                  \* client: the version it knows
  row,                    \* the stored version, per owner
  acked,                  \* the newest version whose publisher has finished
  wpc, job, todo,         \* writers: position, change, sockets to notify
  shutdown

socketVars == <<permits, pc, hub, enabled, slow, queue, hand, wire>>
clientVars == <<waiting, frame, following, due, known>>
writerVars == <<row, acked, wpc, job, todo>>
vars == <<socketVars, clientVars, writerVars, shutdown>>

Versions == 0..MaxVersions
Messages == [kind : {"event", "ok", "error"}, version : {0}] \cup
            [kind : {"state"}, version : Versions]
Nothing  == [kind |-> "none", version |-> 0]
Event    == [kind |-> "event", version |-> 0]
NoJob    == [owner |-> "none", version |-> 0]
Jobs     == [owner : Owners, version : Versions]

Labels == {"off", "permit", "poll", "event", "frame", "dispatch", "send", "close",
           "drop", "return"}

TypeOK == /\ permits \in 0..MaxConnections
          /\ pc \in [Conns -> Labels]
          /\ hub \subseteq Conns
          /\ enabled \in [Conns -> BOOLEAN]
          /\ slow \in [Conns -> BOOLEAN]
          /\ queue \in [Conns -> 0..QueueCapacity]
          /\ hand \in [Conns -> Messages \cup {Nothing}]
          /\ wire \in [Conns -> Seq(Messages)]
          /\ \A c \in Conns : Len(wire[c]) <= WireCapacity
          /\ waiting \in [Conns -> {"none", "subscribe", "unsubscribe", "get"}]
          /\ frame \in [Conns -> BOOLEAN]
          /\ following \in [Conns -> BOOLEAN]
          /\ due \in [Conns -> BOOLEAN]
          /\ known \in [Conns -> Versions]
          /\ row \in [Owners -> Versions]
          /\ acked \in [Owners -> Versions]
          /\ wpc \in [Writers -> {"idle", "publish", "notify"}]
          /\ job \in [Writers -> Jobs \cup {NoJob}]
          /\ todo \in [Writers -> SUBSET Conns]
          /\ shutdown \in BOOLEAN

Init == /\ permits = MaxConnections
        /\ pc = [c \in Conns |-> "off"]
        /\ hub = {}
        /\ enabled = [c \in Conns |-> FALSE]
        /\ slow = [c \in Conns |-> FALSE]
        /\ queue = [c \in Conns |-> 0]
        /\ hand = [c \in Conns |-> Nothing]
        /\ wire = [c \in Conns |-> <<>>]
        /\ waiting = [c \in Conns |-> "none"]
        /\ frame = [c \in Conns |-> FALSE]
        /\ following = [c \in Conns |-> FALSE]
        /\ due = [c \in Conns |-> FALSE]
        /\ known = [c \in Conns |-> 0]
        /\ row = [o \in Owners |-> 0]
        /\ acked = [o \in Owners |-> 0]
        /\ wpc = [w \in Writers |-> "idle"]
        /\ job = [w \in Writers |-> NoJob]
        /\ todo = [w \in Writers |-> {}]
        /\ shutdown = FALSE

----------------------------------------------------------------------------
(* Shared helpers *)

Registered(o) == {c \in hub : Owner[c] = o}

\* Somebody walks the connections of o under the read lock.
Walked(o) == \E w \in Writers : wpc[w] = "notify" /\ job[w].owner = o

Goto(c, label) == pc' = [pc EXCEPT ![c] = label]

OpenLabels == {"poll", "event", "frame", "dispatch", "send"}
Open(c) == pc[c] \in OpenLabels

----------------------------------------------------------------------------
(* upgrade: one of the permits, then a place in the hub *)

TakePermit(c) == /\ pc[c] = "off" /\ permits > 0
                 /\ permits' = permits - 1
                 /\ Goto(c, "permit")
                 /\ UNCHANGED <<hub, enabled, slow, queue, hand, wire, clientVars, writerVars,
                                shutdown>>

\* Mutant of Connect: one socket too many.
ConnectThree(c) ==
  /\ pc[c] = "permit" /\ ~Walked(Owner[c])
  /\ hub' = hub \cup {c}
  /\ Goto(c, "poll")
  /\ UNCHANGED <<permits, enabled, slow, queue, hand, wire, clientVars, writerVars, shutdown>>

Connect(c) ==
  /\ pc[c] = "permit" /\ ~Walked(Owner[c])
  /\ \/ /\ Cardinality(Registered(Owner[c])) < PerOwner
        /\ hub' = hub \cup {c}
        /\ Goto(c, "poll")
     \/ /\ Cardinality(Registered(Owner[c])) >= PerOwner
        /\ UNCHANGED hub
        /\ Goto(c, "return")
  /\ UNCHANGED <<permits, enabled, slow, queue, hand, wire, clientVars, writerVars, shutdown>>

----------------------------------------------------------------------------
(* run: the biased select looks at the tokens, then the queue, then frames *)

\* Mutants of Poll: one of the tokens is not looked at.
PollShutdown(c) == /\ pc[c] = "poll"
                   /\ Goto(c, IF shutdown THEN "close" ELSE "event")
                   /\ UNCHANGED <<permits, hub, enabled, slow, queue, hand, wire, clientVars,
                                  writerVars, shutdown>>
PollSlow(c) == /\ pc[c] = "poll"
               /\ Goto(c, IF slow[c] THEN "close" ELSE "event")
               /\ UNCHANGED <<permits, hub, enabled, slow, queue, hand, wire, clientVars,
                              writerVars, shutdown>>

Poll(c) == /\ pc[c] = "poll"
           /\ Goto(c, IF shutdown \/ slow[c] THEN "close" ELSE "event")
           /\ UNCHANGED <<permits, hub, enabled, slow, queue, hand, wire, clientVars, writerVars,
                          shutdown>>

\* Mutant of PollEvent: what is queued goes out, subscribed or not.
PollEventAll(c) ==
  /\ pc[c] = "event"
  /\ \/ /\ queue[c] = 0
        /\ Goto(c, "frame")
        /\ UNCHANGED <<queue, hand>>
     \/ /\ queue[c] > 0
        /\ queue' = [queue EXCEPT ![c] = @ - 1]
        /\ hand' = [hand EXCEPT ![c] = Event]
        /\ Goto(c, "send")
  /\ UNCHANGED <<permits, hub, enabled, slow, wire, clientVars, writerVars, shutdown>>

\* An event that was queued before an unsubscribe is taken and discarded.
PollEvent(c) ==
  /\ pc[c] = "event"
  /\ \/ /\ queue[c] = 0
        /\ Goto(c, "frame")
        /\ UNCHANGED <<queue, hand>>
     \/ /\ queue[c] > 0 /\ enabled[c]
        /\ queue' = [queue EXCEPT ![c] = @ - 1]
        /\ hand' = [hand EXCEPT ![c] = Event]
        /\ Goto(c, "send")
     \/ /\ queue[c] > 0 /\ ~enabled[c]
        /\ queue' = [queue EXCEPT ![c] = @ - 1]
        /\ UNCHANGED hand
        /\ Goto(c, "poll")
  /\ UNCHANGED <<permits, hub, enabled, slow, wire, clientVars, writerVars, shutdown>>

\* A frame, or a wake-up by anything the select looks at first.
PollFrame(c) ==
  /\ pc[c] = "frame"
  /\ \/ /\ frame[c]
        /\ frame' = [frame EXCEPT ![c] = FALSE]
        /\ Goto(c, "dispatch")
     \/ /\ shutdown \/ slow[c] \/ queue[c] > 0
        /\ Goto(c, "poll")
        /\ UNCHANGED frame
  /\ UNCHANGED <<permits, hub, enabled, slow, queue, hand, wire, waiting, following, due, known,
                 writerVars, shutdown>>

Respond(c, kind, version) ==
  /\ hand' = [hand EXCEPT ![c] = [kind |-> kind, version |-> version]]
  /\ Goto(c, "send")

\* dispatch.  A snapshot can fail or time out, a (un)subscription cannot.
Dispatch(c) ==
  /\ pc[c] = "dispatch"
  /\ \/ /\ waiting[c] = "subscribe"
        /\ enabled' = [enabled EXCEPT ![c] = TRUE]
        /\ Respond(c, "ok", 0)
     \/ /\ waiting[c] = "unsubscribe"
        /\ enabled' = [enabled EXCEPT ![c] = FALSE]
        /\ Respond(c, "ok", 0)
     \/ /\ waiting[c] = "get"
        /\ Respond(c, "state", row[Owner[c]]) \/ Respond(c, "error", 0)
        /\ UNCHANGED enabled
  /\ UNCHANGED <<permits, hub, slow, queue, wire, clientVars, writerVars, shutdown>>

Send(c) ==
  /\ pc[c] = "send" /\ Len(wire[c]) < WireCapacity
  /\ wire' = [wire EXCEPT ![c] = Append(@, hand[c])]
  /\ hand' = [hand EXCEPT ![c] = Nothing]
  /\ Goto(c, "poll")
  /\ UNCHANGED <<permits, hub, enabled, slow, queue, clientVars, writerVars, shutdown>>

\* The peer takes nothing for send_seconds.
SendTimeout(c) ==
  /\ pc[c] = "send" /\ Len(wire[c]) = WireCapacity
  /\ Goto(c, "drop")
  /\ UNCHANGED <<permits, hub, enabled, slow, queue, hand, wire, clientVars, writerVars, shutdown>>

\* The peer is gone, silent past its heartbeat, over budget, revoked or
\* sends what is not supported: with a close frame or without.
Leave(c) ==
  /\ Open(c)
  /\ Goto(c, "close") \/ Goto(c, "drop")
  /\ UNCHANGED <<permits, hub, enabled, slow, queue, hand, wire, clientVars, writerVars, shutdown>>

\* close: best effort, bounded by two timeouts.
Close(c) ==
  /\ pc[c] = "close"
  /\ Goto(c, "drop")
  /\ UNCHANGED <<permits, hub, enabled, slow, queue, hand, wire, clientVars, writerVars, shutdown>>

\* The Connection is dropped: its Subscriber and whatever was under way.
Drop(c) ==
  /\ pc[c] = "drop" /\ ~Walked(Owner[c])
  /\ hub' = hub \ {c}
  /\ enabled' = [enabled EXCEPT ![c] = FALSE]
  /\ slow' = [slow EXCEPT ![c] = FALSE]
  /\ queue' = [queue EXCEPT ![c] = 0]
  /\ hand' = [hand EXCEPT ![c] = Nothing]
  /\ wire' = [wire EXCEPT ![c] = <<>>]
  /\ waiting' = [waiting EXCEPT ![c] = "none"]
  /\ frame' = [frame EXCEPT ![c] = FALSE]
  /\ following' = [following EXCEPT ![c] = FALSE]
  /\ due' = [due EXCEPT ![c] = FALSE]
  /\ known' = [known EXCEPT ![c] = 0]
  /\ Goto(c, "return")
  /\ UNCHANGED <<permits, writerVars, shutdown>>

ReturnPermit(c) ==
  /\ pc[c] = "return"
  /\ permits' = permits + 1
  /\ Goto(c, "off")
  /\ UNCHANGED <<hub, enabled, slow, queue, hand, wire, clientVars, writerVars, shutdown>>

----------------------------------------------------------------------------
(* The client of the documented protocol *)

\* One command at a time; a reload is asked for when it is due.
Ask(c, command) ==
  /\ Open(c) /\ command \in Commands /\ waiting[c] = "none"
  /\ \/ /\ command = "subscribe" /\ ~following[c]
        /\ UNCHANGED <<due, following>>
     \/ /\ command = "unsubscribe" /\ following[c]
        /\ following' = [following EXCEPT ![c] = FALSE]
        /\ UNCHANGED due
     \/ /\ command = "get" /\ due[c]
        /\ due' = [due EXCEPT ![c] = FALSE]
        /\ UNCHANGED following
  /\ waiting' = [waiting EXCEPT ![c] = command]
  /\ frame' = [frame EXCEPT ![c] = TRUE]
  /\ UNCHANGED <<known, socketVars, writerVars, shutdown>>

Receive(c) ==
  /\ wire[c] # <<>>
  /\ wire' = [wire EXCEPT ![c] = Tail(@)]
  /\ LET m == Head(wire[c])
     IN \/ /\ m.kind = "event"
           /\ due' = [due EXCEPT ![c] = TRUE]
           /\ UNCHANGED <<waiting, following, known>>
        \/ /\ m.kind = "ok"
           /\ following' = [following EXCEPT ![c] = (waiting[c] = "subscribe")]
           /\ due' = [due EXCEPT ![c] = @ \/ waiting[c] = "subscribe"]
           /\ waiting' = [waiting EXCEPT ![c] = "none"]
           /\ UNCHANGED known
        \/ /\ m.kind = "state"
           /\ known' = [known EXCEPT ![c] = m.version]
           /\ waiting' = [waiting EXCEPT ![c] = "none"]
           /\ UNCHANGED <<following, due>>
        \/ /\ m.kind = "error"
           /\ due' = [due EXCEPT ![c] = TRUE]
           /\ waiting' = [waiting EXCEPT ![c] = "none"]
           /\ UNCHANGED <<following, known>>
  /\ UNCHANGED <<frame, permits, pc, hub, enabled, slow, queue, hand, writerVars, shutdown>>

----------------------------------------------------------------------------
(* Publishers *)

\* The statement that changes the row.
Write(w, o) ==
  /\ wpc[w] = "idle" /\ row[o] < MaxVersions
  /\ row' = [row EXCEPT ![o] = @ + 1]
  /\ job' = [job EXCEPT ![w] = [owner |-> o, version |-> row[o] + 1]]
  /\ wpc' = [wpc EXCEPT ![w] = "publish"]
  /\ UNCHANGED <<acked, todo, socketVars, clientVars, shutdown>>

Stop(w) == /\ wpc' = [wpc EXCEPT ![w] = "idle"]
           /\ job' = [job EXCEPT ![w] = NoJob]

\* The caller is cancelled after its statement was applied: a command that
\* timed out, a deadline, a client that left, shutdown.
Lose(w) == /\ wpc[w] = "publish"
           /\ Stop(w)
           /\ UNCHANGED <<row, acked, todo, socketVars, clientVars, shutdown>>

StartPublish(w) ==
  /\ wpc[w] = "publish"
  /\ todo' = [todo EXCEPT ![w] = Registered(job[w].owner)]
  /\ wpc' = [wpc EXCEPT ![w] = "notify"]
  /\ UNCHANGED <<row, acked, job, socketVars, clientVars, shutdown>>

\* Mutant of Notify: the channel has no bound.
NotifyUnbounded(w, c) ==
  /\ wpc[w] = "notify" /\ c \in todo[w]
  /\ todo' = [todo EXCEPT ![w] = @ \ {c}]
  /\ queue' = [queue EXCEPT ![c] = IF enabled[c] THEN @ + 1 ELSE @]
  /\ UNCHANGED <<permits, pc, hub, enabled, slow, hand, wire, row, acked, wpc, job,
                 clientVars, shutdown>>

\* Mutant of Notify: a socket that is busy with a command is passed over.
NotifyIdle(w, c) ==
  /\ wpc[w] = "notify" /\ c \in todo[w]
  /\ todo' = [todo EXCEPT ![w] = @ \ {c}]
  /\ queue' = [queue EXCEPT ![c] = IF enabled[c] /\ pc[c] # "send" /\ @ < QueueCapacity
                                   THEN @ + 1 ELSE @]
  /\ UNCHANGED <<permits, pc, hub, enabled, slow, hand, wire, row, acked, wpc, job,
                 clientVars, shutdown>>

\* The flag is read and the event offered in one step: an event that is
\* offered after the flag was cleared in between is discarded by PollEvent.
Notify(w, c) ==
  /\ wpc[w] = "notify" /\ c \in todo[w]
  /\ todo' = [todo EXCEPT ![w] = @ \ {c}]
  /\ \/ /\ enabled[c] /\ queue[c] < QueueCapacity
        /\ queue' = [queue EXCEPT ![c] = @ + 1]
        /\ UNCHANGED slow
     \/ /\ enabled[c] /\ queue[c] = QueueCapacity
        /\ slow' = [slow EXCEPT ![c] = TRUE]
        /\ UNCHANGED queue
     \/ /\ ~enabled[c]
        /\ UNCHANGED <<queue, slow>>
  /\ UNCHANGED <<permits, pc, hub, enabled, hand, wire, row, acked, wpc, job, clientVars,
                 shutdown>>

EndPublish(w) ==
  /\ wpc[w] = "notify" /\ todo[w] = {}
  /\ LET o == job[w].owner
     IN acked' = [acked EXCEPT ![o] = IF @ < job[w].version THEN job[w].version ELSE @]
  /\ Stop(w)
  /\ UNCHANGED <<row, todo, socketVars, clientVars, shutdown>>

Cancel == /\ ~shutdown
          /\ shutdown' = TRUE
          /\ UNCHANGED <<socketVars, clientVars, writerVars>>

----------------------------------------------------------------------------

\* What the task of a socket does by itself.
SocketStep(c) ==
  \/ Connect(c) \/ Poll(c) \/ PollEvent(c) \/ PollFrame(c) \/ Dispatch(c)
  \/ Send(c) \/ SendTimeout(c) \/ Close(c) \/ Drop(c) \/ ReturnPermit(c)

WriterStep(w) == \/ StartPublish(w) \/ EndPublish(w)
                 \/ \E c \in Conns : Notify(w, c)

Next == \/ \E c \in Conns : \/ TakePermit(c) \/ SocketStep(c) \/ Leave(c)
                            \/ Receive(c)
                            \/ \E command \in Commands : Ask(c, command)
        \/ \E w \in Writers : \/ WriterStep(w) \/ Lose(w)
                              \/ \E o \in Owners : Write(w, o)
        \/ Cancel

Spec == Init /\ [][Next]_vars

(* Socket tasks and publishers are polled; every await of a socket has a   *)
(* timeout.  Nothing is assumed of clients, nor that anybody connects.     *)
FairSpec == /\ Spec
            /\ \A c \in Conns : WF_vars(SocketStep(c))
            /\ \A w \in Writers : WF_vars(WriterStep(w))

(* A client that keeps to the protocol, against a database that does not   *)
(* fail for ever.                                                          *)
Answer(c) == Dispatch(c) /\ hand'[c].kind # "error"
ClientSpec == /\ FairSpec
              /\ \A c \in Conns : /\ WF_vars(Receive(c)) /\ WF_vars(Ask(c, "get"))
                                  /\ SF_vars(Answer(c))

----------------------------------------------------------------------------

HubLabels == OpenLabels \cup {"close", "drop"}

(* The hub lists exactly the sockets that are open or closing, no more of  *)
(* an owner than allowed, and every socket that is not off holds a permit: no path   *)
(* through upgrade, rejection, slow consumer or shutdown leaks either.     *)
RegistryExact ==
  /\ hub = {c \in Conns : pc[c] \in HubLabels}
  /\ \A o \in Owners : Cardinality(Registered(o)) <= PerOwner
  /\ permits + Cardinality({c \in Conns : pc[c] # "off"}) = MaxConnections

Pending(c) == \/ queue[c] > 0
              \/ hand[c].kind = "event"
              \/ \E i \in DOMAIN wire[c] : wire[c][i].kind = "event"

\* A reload that will show version v: one not yet dispatched, or its answer.
Reloading(c, v) ==
  LET fresh(m) == m.kind = "error" \/ (m.kind = "state" /\ m.version >= v)
  IN /\ waiting[c] = "get"
     /\ \/ frame[c] \/ pc[c] = "dispatch"
        \/ fresh(hand[c])
        \/ \E i \in DOMAIN wire[c] : fresh(wire[c][i])

(* A subscribed client that follows the protocol never settles on an old   *)
(* state: once a change has been published, it knows it, is due to reload, *)
(* is reloading it, has an event coming, or is being closed as too slow.   *)
NoMissedUpdate ==
  \A c \in Conns : LET v == acked[Owner[c]]
                   IN following[c] /\ Open(c) /\ ~slow[c] /\ known[c] < v =>
                        due[c] \/ Pending(c) \/ Reloading(c, v)

(* After an unsubscribe has been answered no event reaches the client,     *)
(* although events may still be in the queue and on their way into it.     *)
QuietAfterUnsubscribe ==
  \A c \in Conns : ~following[c] /\ waiting[c] = "none" =>
                     \A i \in DOMAIN wire[c] : wire[c][i].kind # "event"

(* A slow consumer is closed and its place is free again.                  *)
SlowLeaves == \A c \in Conns : slow[c] ~> pc[c] = "off"

(* Shutdown closes every socket that is open.                              *)
ShutdownCloses == \A c \in Conns : (shutdown /\ c \in hub) ~> c \notin hub

(* A published change reaches every subscribed client that stays.          *)
UpdatesArrive ==
  \A c \in Conns, v \in Versions \ {0} :
    (following[c] /\ acked[Owner[c]] >= v) ~> (known[c] >= v \/ ~following[c] \/ ~Open(c))
=============================================================================
