------------------------- MODULE EventGatewayProofs -------------------------
(***************************************************************************)
(* Type correctness, RegistryExact, QuietAfterUnsubscribe and              *)
(* NoMissedUpdate of EventGateway, and that clients never go back, for any *)
(* number of sockets, publishers and changes.                              *)
(***************************************************************************)
EXTENDS EventGateway, FiniteSetTheorems, TLAPS

----------------------------------------------------------------------------
(* One socket and its client *)

IsReply(m) == m.kind \in {"ok", "state", "error"}

\* The open command has been dispatched; its answer is on the way.
Replied(c) == IsReply(hand[c]) \/ \E i \in DOMAIN wire[c] : IsReply(wire[c][i])

\* A socket that is not in the hub has left nothing behind.
Clean(c) ==
  pc[c] \notin HubLabels =>
    /\ queue[c] = 0 /\ hand[c] = Nothing /\ wire[c] = <<>>
    /\ waiting[c] = "none" /\ known[c] = 0
    /\ ~enabled[c] /\ ~slow[c] /\ ~frame[c] /\ ~following[c] /\ ~due[c]

\* A message is in hand only while it is sent.
InHand(c) == /\ pc[c] \in {"poll", "event", "frame", "dispatch"} => hand[c] = Nothing
             /\ pc[c] = "send" => hand[c] \in Messages

\* A client has one command open, which is in exactly one place.
OneCommand(c) ==
  /\ frame[c] \/ pc[c] = "dispatch" \/ Replied(c) => waiting[c] # "none"
  /\ ~(frame[c] /\ pc[c] = "dispatch")
  /\ Replied(c) => ~frame[c] /\ pc[c] # "dispatch"
  /\ IsReply(hand[c]) => \A i \in DOMAIN wire[c] : ~IsReply(wire[c][i])
  /\ \A i, j \in DOMAIN wire[c] : IsReply(wire[c][i]) /\ IsReply(wire[c][j]) => i = j

\* m answers what the client has asked, and tells it nothing older than it knows.
Fits(c, m) ==
  /\ m.kind = "ok" => waiting[c] \in {"subscribe", "unsubscribe"}
  /\ m.kind \in {"state", "error"} => waiting[c] = "get"
  /\ m.kind = "state" => known[c] <= m.version /\ m.version <= row[Owner[c]]

Fitting(c) == /\ known[c] <= row[Owner[c]]
              /\ Fits(c, hand[c])
              /\ \A i \in DOMAIN wire[c] : Fits(c, wire[c][i])

\* The flag of the socket and the client's idea of it.
FlagAgrees(c) ==
  /\ enabled[c] => \/ following[c] \/ waiting[c] = "subscribe"
                   \/ waiting[c] = "unsubscribe" /\ ~Replied(c)
  /\ following[c] => enabled[c] /\ waiting[c] \notin {"subscribe", "unsubscribe"}
  /\ waiting[c] = "subscribe" /\ Replied(c) => enabled[c]
  /\ hand[c].kind = "event" => enabled[c]

\* What is on the wire of a disabled socket is older than the answer to
\* its client's unsubscription.
EventsPrecede(c) ==
  ~enabled[c] =>
    \A i \in DOMAIN wire[c] : wire[c][i].kind = "event" =>
      /\ waiting[c] = "unsubscribe"
      /\ hand[c].kind = "ok" \/ \E j \in DOMAIN wire[c] : i < j /\ wire[c][j].kind = "ok"

SocketInv(c) == /\ Clean(c) /\ InHand(c) /\ OneCommand(c) /\ Fitting(c)
                /\ FlagAgrees(c) /\ EventsPrecede(c)

----------------------------------------------------------------------------
(* Publishers, and what they owe to the clients *)

Walk(w) == /\ wpc[w] # "idle" => job[w] \in Jobs /\ job[w].version <= row[job[w].owner]
           /\ wpc[w] = "notify" => todo[w] \subseteq Registered(job[w].owner)
           /\ wpc[w] # "notify" => todo[w] = {}

\* Version v is known to the client, or will be.
Served(c, v) == following[c] /\ Open(c) /\ ~slow[c] /\ known[c] < v =>
                  due[c] \/ Pending(c) \/ Reloading(c, v)

\* w has done with c.
Passed(w, c) == wpc[w] = "notify" /\ job[w].owner = Owner[c] /\ c \notin todo[w]

AllServed ==
  \A c \in Conns : /\ Served(c, acked[Owner[c]])
                   /\ \A w \in Writers : Passed(w, c) => Served(c, job[w].version)

AckedStored == \A o \in Owners : acked[o] <= row[o]

IInv == /\ TypeOK /\ RegistryExact
        /\ \A c \in Conns : SocketInv(c)
        /\ \A w \in Writers : Walk(w)
        /\ AckedStored /\ AllServed

----------------------------------------------------------------------------
(* Messages                                                                *)

LEMMA MessageKinds ==
  ASSUME NEW m \in Messages
  PROVE  /\ m.kind \in {"event", "ok", "error", "state"} /\ m.version \in Versions
         /\ m.kind # "event" => IsReply(m)
         /\ m # Nothing
<1>1. m.kind \in {"event", "ok", "error", "state"} /\ m.version \in Versions
  BY GatewayAssumption DEF Messages, Versions
<1> QED BY <1>1 DEF IsReply, Nothing

LEMMA MessageValues ==
  /\ Event \in Messages /\ Event.kind = "event"
  /\ Nothing.kind = "none"
  /\ \A v \in Versions : [kind |-> "state", version |-> v] \in Messages
  /\ \A k \in {"ok", "error"} : [kind |-> k, version |-> 0] \in Messages
BY DEF Event, Nothing, Messages

\* Nothing about d changes.
Same(d) ==
  /\ pc'[d] = pc[d] /\ queue'[d] = queue[d] /\ hand'[d] = hand[d] /\ wire'[d] = wire[d]
  /\ enabled'[d] = enabled[d] /\ slow'[d] = slow[d]
  /\ waiting'[d] = waiting[d] /\ frame'[d] = frame[d]
  /\ following'[d] = following[d] /\ due'[d] = due[d] /\ known'[d] = known[d]

(* A step of somebody else, during which the row may only grow.            *)
LEMMA SocketUntouched ==
  ASSUME NEW d \in Conns, TypeOK, SocketInv(d), Same(d),
         row[Owner[d]] <= row'[Owner[d]], row'[Owner[d]] \in Nat
  PROVE  SocketInv(d)'
<1>1. Clean(d)'
  BY DEF SocketInv, Same, Clean
<1>2. InHand(d)'
  BY DEF SocketInv, Same, InHand
<1>3. Replied(d)' = Replied(d)
  BY DEF Same, Replied
<1>4. OneCommand(d)'
  BY <1>3 DEF SocketInv, Same, OneCommand
<1>5. FlagAgrees(d)'
  BY <1>3 DEF SocketInv, Same, FlagAgrees
<1>6. EventsPrecede(d)'
  BY DEF SocketInv, Same, EventsPrecede
<1>7. Owner[d] \in Owners /\ row[Owner[d]] \in Nat /\ known[d] \in Nat
  BY GatewayAssumption DEF TypeOK, Versions
<1>8. ASSUME NEW m, Fits(d, m), m.kind = "state" => m.version \in Nat
      PROVE  Fits(d, m)'
  BY <1>7, <1>8 DEF Fits, Same
<1>9. hand[d].kind = "state" => hand[d].version \in Nat
  <2>1. hand[d] \in Messages \cup {Nothing}
    BY DEF TypeOK
  <2> QED BY <2>1, MessageKinds, MessageValues, GatewayAssumption DEF Versions
<1>10. ASSUME NEW i \in DOMAIN wire[d]
       PROVE  wire[d][i].kind = "state" => wire[d][i].version \in Nat
  <2>1. wire[d][i] \in Messages
    BY DEF TypeOK
  <2> QED BY <2>1, MessageKinds, GatewayAssumption DEF Versions
<1>11. Fitting(d)'
  BY <1>7, <1>8, <1>9, <1>10 DEF SocketInv, Same, Fitting
<1> QED BY <1>1, <1>2, <1>4, <1>5, <1>6, <1>11 DEF SocketInv

LEMMA ServedUntouched ==
  ASSUME NEW d \in Conns, NEW v, Served(d, v), Same(d)
  PROVE  Served(d, v)'
BY DEF Served, Same, Open, Pending, Reloading

----------------------------------------------------------------------------
(* Steps of one socket and its client: what remains to be shown of each    *)

LEMMA SocketStepHolds ==
  ASSUME NEW c \in Conns, IInv, UNCHANGED writerVars,
         TypeOK', RegistryExact', SocketInv(c)',
         \A d \in Conns \ {c} : Same(d),
         \A d \in hub : d \in hub' \/ (d = c /\ ~Walked(Owner[c])),
         \A v \in Versions : v <= row[Owner[c]] /\ Served(c, v) => Served(c, v)'
  PROVE  IInv'
<1>1. \A o \in Owners : row'[o] = row[o] /\ row[o] \in Nat /\ row[o] \in Versions
  BY DEF writerVars, TypeOK, IInv, Versions
<1>2. ASSUME NEW d \in Conns PROVE SocketInv(d)'
  <2>1. CASE d = c
    BY <2>1
  <2>2. CASE d # c
    BY <1>1, <2>2, SocketUntouched, GatewayAssumption DEF IInv
  <2> QED BY <2>1, <2>2
<1>3. ASSUME NEW w \in Writers PROVE Walk(w)'
  <2>1. Walk(w) /\ wpc'[w] = wpc[w] /\ job' = job /\ todo' = todo /\ row' = row
    BY DEF IInv, writerVars
  <2>2. wpc[w] = "notify" => Registered(job[w].owner) \subseteq Registered(job[w].owner)'
    BY <2>1 DEF Registered, Walked
  <2> QED BY <2>1, <2>2 DEF Walk
<1>4. AckedStored'
  BY DEF IInv, AckedStored, writerVars
<1>5. ASSUME NEW d \in Conns, NEW v \in Versions, v <= row[Owner[d]], Served(d, v)
      PROVE  Served(d, v)'
  <2>1. CASE d = c
    BY <1>5, <2>1
  <2>2. CASE d # c
    BY <1>5, <2>2, ServedUntouched
  <2> QED BY <2>1, <2>2
<1>6. AllServed'
  <2> SUFFICES ASSUME NEW d \in Conns
               PROVE  /\ Served(d, acked[Owner[d]])'
                      /\ \A w \in Writers : Passed(w, d)' => Served(d, job[w].version)'
    BY DEF AllServed
  <2>1. Served(d, acked[Owner[d]])'
    <3>1. acked' = acked /\ acked[Owner[d]] \in Versions /\ acked[Owner[d]] <= row[Owner[d]]
      BY GatewayAssumption DEF IInv, AckedStored, TypeOK, writerVars
    <3>2. Served(d, acked[Owner[d]])
      BY DEF IInv, AllServed
    <3>3. PICK v \in Versions : v = acked[Owner[d]]
      BY <3>1
    <3>4. v <= row[Owner[d]] /\ Served(d, v)
      BY <3>1, <3>2, <3>3
    <3>5. Served(d, v)'
      BY <1>5, <3>4
    <3> QED BY <3>1, <3>3, <3>5 DEF Served, Reloading
  <2>2. ASSUME NEW w \in Writers, Passed(w, d)' PROVE Served(d, job[w].version)'
    <3>1. job' = job /\ wpc' = wpc /\ todo' = todo
      BY DEF writerVars
    <3>2. Passed(w, d)
      BY <2>2, <3>1 DEF Passed
    <3>3. job[w] \in Jobs /\ job[w].version <= row[job[w].owner]
      BY <3>2 DEF IInv, Walk, Passed
    <3>4. job[w].version \in Versions /\ job[w].version <= row[Owner[d]]
      BY <3>2, <3>3 DEF Jobs, Passed
    <3>5. Served(d, job[w].version)
      BY <3>2 DEF IInv, AllServed
    <3>6. PICK v \in Versions : v = job[w].version
      BY <3>4
    <3>7. Served(d, v)'
      BY <1>5, <3>4, <3>5, <3>6
    <3> QED BY <3>1, <3>6, <3>7 DEF Served, Reloading
  <2> QED BY <2>1, <2>2
<1> QED BY <1>2, <1>3, <1>4, <1>6 DEF IInv

(* A step that leaves a socket in the hub, or out of it.                   *)
LEMMA RegistryKept ==
  ASSUME NEW c \in Conns, TypeOK, RegistryExact, hub' = hub, permits' = permits,
         NEW l \in Labels, pc' = pc \/ pc' = [pc EXCEPT ![c] = l],
         pc[c] \in HubLabels, l \in HubLabels
  PROVE  RegistryExact'
<1>1. \A d \in Conns : /\ pc'[d] \in HubLabels <=> pc[d] \in HubLabels
                       /\ pc'[d] = "off" <=> pc[d] = "off"
  BY DEF TypeOK, HubLabels, OpenLabels
<1>2. \A o : Registered(o)' = Registered(o)
  BY DEF Registered
<1>3. {d \in Conns : pc'[d] # "off"} = {d \in Conns : pc[d] # "off"}
  BY <1>1
<1>4. hub' = {d \in Conns : pc'[d] \in HubLabels}
  BY <1>1 DEF RegistryExact
<1> QED BY <1>2, <1>3, <1>4 DEF RegistryExact

----------------------------------------------------------------------------
(* The task of a socket                                                    *)

(* The task moves on with nothing in hand, or towards the end.             *)
LEMMA MoveHolds ==
  ASSUME NEW c \in Conns, IInv, NEW l \in {"poll", "event", "frame", "close", "drop"},
         pc[c] \in HubLabels, l \notin {"close", "drop"} => pc[c] \in {"poll", "event", "frame"},
         Goto(c, l),
         UNCHANGED <<permits, hub, enabled, slow, queue, hand, wire, clientVars, writerVars,
                     shutdown>>
  PROVE  IInv'
<1>1. TypeOK /\ SocketInv(c) /\ RegistryExact
  BY DEF IInv
<1>2. pc' = [pc EXCEPT ![c] = l] /\ pc'[c] = l /\ l \in Labels /\ l \in HubLabels
  BY <1>1 DEF TypeOK, Goto, Labels, HubLabels, OpenLabels
<1>3. TypeOK'
  BY <1>1, <1>2 DEF TypeOK, clientVars, writerVars
<1>4. RegistryExact'
  BY <1>1, <1>2, RegistryKept
<1>5. SocketInv(c)'
  <2>1. Replied(c)' = Replied(c)
    BY DEF Replied
  <2>2. Clean(c)'
    BY <1>2 DEF Clean
  <2>3. InHand(c)'
    BY <1>1, <1>2 DEF SocketInv, InHand
  <2>4. OneCommand(c)'
    BY <1>1, <1>2, <2>1 DEF SocketInv, OneCommand, clientVars
  <2>5. Fitting(c)'
    BY <1>1 DEF SocketInv, Fitting, Fits, clientVars, writerVars
  <2>6. FlagAgrees(c)' /\ EventsPrecede(c)'
    BY <1>1, <2>1 DEF SocketInv, FlagAgrees, EventsPrecede, clientVars
  <2> QED BY <2>2, <2>3, <2>4, <2>5, <2>6 DEF SocketInv
<1>6. \A d \in Conns \ {c} : Same(d)
  BY <1>1, <1>2 DEF TypeOK, Same, clientVars
<1>7. ASSUME NEW v \in Versions, Served(c, v) PROVE Served(c, v)'
  BY <1>2, <1>7 DEF Served, Open, OpenLabels, Pending, Reloading, clientVars
<1> QED BY <1>3, <1>4, <1>5, <1>6, <1>7, SocketStepHolds

(* upgrade                                                                 *)
LEMMA RegisteredGrows ==
  ASSUME NEW c \in Conns, hub \subseteq Conns, c \notin hub, hub' = hub \cup {c}
  PROVE  /\ Cardinality(Registered(Owner[c])') = Cardinality(Registered(Owner[c])) + 1
         /\ \A o \in Owners : o # Owner[c] => Registered(o)' = Registered(o)
<1>1. IsFiniteSet(Registered(Owner[c]))
  BY FS_Subset, GatewayAssumption DEF Registered
<1>2. Registered(Owner[c])' = Registered(Owner[c]) \cup {c} /\ c \notin Registered(Owner[c])
  BY DEF Registered
<1>3. \A o \in Owners : o # Owner[c] => Registered(o)' = Registered(o)
  BY DEF Registered
<1> QED BY <1>1, <1>2, <1>3, FS_AddElement

LEMMA OutsideTypes ==
  ASSUME NEW c \in Conns, IInv, NEW l \in Labels, Goto(c, l),
         pc[c] \notin HubLabels, NEW h \in SUBSET Conns, hub' = h, permits' \in 0..MaxConnections,
         UNCHANGED <<enabled, slow, queue, hand, wire, clientVars, writerVars, shutdown>>,
         l \notin {"dispatch", "send"}
  PROVE  /\ TypeOK' /\ SocketInv(c)' /\ pc' = [pc EXCEPT ![c] = l] /\ pc'[c] = l
         /\ \A d \in Conns \ {c} : Same(d)
         /\ \A v \in Versions : Served(c, v)'
<1>1. TypeOK /\ SocketInv(c)
  BY DEF IInv
<1>2. pc' = [pc EXCEPT ![c] = l] /\ pc'[c] = l
  BY <1>1 DEF TypeOK, Goto
<1>3. TypeOK'
  BY <1>1, <1>2 DEF TypeOK, clientVars, writerVars
<1>4. Clean(c)
  BY <1>1 DEF SocketInv
<1>5. SocketInv(c)'
  <2>1. ~Replied(c)' /\ ~Replied(c) /\ wire'[c] = <<>> /\ hand'[c] = Nothing /\ waiting'[c] = "none"
    BY <1>4, MessageValues DEF Clean, Replied, IsReply, clientVars
  <2>2. Clean(c)' /\ InHand(c)'
    BY <1>2, <1>4 DEF Clean, InHand, clientVars
  <2>3. OneCommand(c)' /\ FlagAgrees(c)' /\ EventsPrecede(c)'
    BY <1>2, <1>4, <2>1, MessageValues DEF OneCommand, FlagAgrees, EventsPrecede, Clean, IsReply, clientVars
  <2>4. Fitting(c)'
    <3>1. known'[c] = 0 /\ row'[Owner[c]] \in Nat
      BY <1>4, <1>3, GatewayAssumption DEF Clean, clientVars, TypeOK, Versions
    <3> QED BY <2>1, <3>1, MessageValues DEF Fitting, Fits
  <2> QED BY <2>2, <2>3, <2>4 DEF SocketInv
<1>6. \A d \in Conns \ {c} : Same(d)
  BY <1>1, <1>2 DEF TypeOK, Same, clientVars
<1>7. \A v \in Versions : Served(c, v)'
  BY <1>4 DEF Clean, Served, clientVars
<1> QED BY <1>2, <1>3, <1>5, <1>6, <1>7

\* The sockets that hold a permit.
Busy == {c \in Conns : pc[c] # "off"}

LEMMA BusyFinite == /\ IsFiniteSet(Busy) /\ Cardinality(Busy) \in Nat
                    /\ \A c \in Conns : IsFiniteSet(Busy \ {c})
BY FS_Subset, FS_CardinalityType, GatewayAssumption DEF Busy

LEMMA TakePermitHolds ==
  ASSUME NEW c \in Conns, IInv, TakePermit(c)
  PROVE  IInv'
<1>1. TypeOK /\ RegistryExact /\ "permit" \in Labels /\ "permit" \notin HubLabels
  BY DEF IInv, Labels, HubLabels, OpenLabels
<1>2. pc[c] = "off" /\ pc[c] \notin HubLabels
  BY DEF TakePermit, HubLabels, OpenLabels
<1>3. permits' \in 0..MaxConnections /\ permits' = permits - 1
  BY <1>1, GatewayAssumption DEF TakePermit, TypeOK
<1>4. /\ TypeOK' /\ SocketInv(c)' /\ pc' = [pc EXCEPT ![c] = "permit"] /\ pc'[c] = "permit"
      /\ \A d \in Conns \ {c} : Same(d)
      /\ \A v \in Versions : Served(c, v)'
  <2>1. Goto(c, "permit") /\ hub' = hub /\ hub \in SUBSET Conns
        /\ UNCHANGED <<enabled, slow, queue, hand, wire, clientVars, writerVars, shutdown>>
    BY <1>1 DEF TakePermit, TypeOK
  <2> QED BY <1>1, <1>2, <1>3, <2>1, OutsideTypes
<1>5. RegistryExact'
  <2>1. hub' = {d \in Conns : pc'[d] \in HubLabels}
    BY <1>1, <1>2, <1>4 DEF RegistryExact, TakePermit, TypeOK
  <2>2. \A o \in Owners : Registered(o)' = Registered(o)
    BY DEF Registered, TakePermit
  <2>3. Busy' = Busy \cup {c} /\ c \notin Busy
    BY <1>1, <1>2, <1>4 DEF Busy, TypeOK
  <2>4. Cardinality(Busy') = Cardinality(Busy) + 1
    BY <2>3, BusyFinite, FS_AddElement
  <2>5. permits' + Cardinality(Busy') = MaxConnections
    <3>1. permits + Cardinality(Busy) = MaxConnections /\ permits \in Nat
      BY <1>1 DEF RegistryExact, Busy, TypeOK
    <3> QED BY <1>3, <2>4, <3>1, BusyFinite
  <2> QED BY <1>1, <2>1, <2>2, <2>5 DEF RegistryExact, Busy
<1>6. UNCHANGED writerVars /\ hub' = hub
  BY DEF TakePermit
<1> QED BY <1>4, <1>5, <1>6, SocketStepHolds

LEMMA ReturnPermitHolds ==
  ASSUME NEW c \in Conns, IInv, ReturnPermit(c)
  PROVE  IInv'
<1>1. TypeOK /\ RegistryExact /\ "off" \in Labels /\ "off" \notin HubLabels
  BY DEF IInv, Labels, HubLabels, OpenLabels
<1>2. pc[c] = "return" /\ pc[c] \notin HubLabels
  BY DEF ReturnPermit, HubLabels, OpenLabels
<1>3. /\ permits + Cardinality(Busy) = MaxConnections /\ permits \in Nat
      /\ c \in Busy /\ permits' = permits + 1
  BY <1>1, <1>2 DEF RegistryExact, Busy, TypeOK, ReturnPermit
<1>4. Cardinality(Busy \ {c}) = Cardinality(Busy) - 1 /\ Cardinality(Busy \ {c}) \in Nat
  BY <1>3, BusyFinite, FS_RemoveElement, FS_CardinalityType
<1>5. permits' \in 0..MaxConnections
  BY <1>3, <1>4, BusyFinite, GatewayAssumption
<1>6. /\ TypeOK' /\ SocketInv(c)' /\ pc' = [pc EXCEPT ![c] = "off"] /\ pc'[c] = "off"
      /\ \A d \in Conns \ {c} : Same(d)
      /\ \A v \in Versions : Served(c, v)'
  <2>1. Goto(c, "off") /\ hub' = hub /\ hub \in SUBSET Conns
        /\ UNCHANGED <<enabled, slow, queue, hand, wire, clientVars, writerVars, shutdown>>
    BY <1>1 DEF ReturnPermit, TypeOK
  <2> QED BY <1>1, <1>2, <1>5, <2>1, OutsideTypes
<1>7. RegistryExact'
  <2>1. hub' = {d \in Conns : pc'[d] \in HubLabels}
    BY <1>1, <1>2, <1>6 DEF RegistryExact, ReturnPermit, TypeOK
  <2>2. \A o \in Owners : Registered(o)' = Registered(o)
    BY DEF Registered, ReturnPermit
  <2>3. Busy' = Busy \ {c}
    BY <1>1, <1>6 DEF Busy, TypeOK
  <2>4. permits' + Cardinality(Busy') = MaxConnections
    BY <1>3, <1>4, <2>3, BusyFinite
  <2> QED BY <1>1, <2>1, <2>2, <2>4 DEF RegistryExact, Busy
<1>8. UNCHANGED writerVars /\ hub' = hub
  BY DEF ReturnPermit
<1> QED BY <1>6, <1>7, <1>8, SocketStepHolds

LEMMA ConnectHolds ==
  ASSUME NEW c \in Conns, IInv, Connect(c)
  PROVE  IInv'
<1>1. TypeOK /\ RegistryExact /\ pc[c] = "permit" /\ pc[c] \notin HubLabels
      /\ {"poll", "return"} \subseteq Labels /\ "poll" \in HubLabels /\ "return" \notin HubLabels
      /\ UNCHANGED <<permits, enabled, slow, queue, hand, wire, clientVars, writerVars, shutdown>>
      /\ permits' \in 0..MaxConnections /\ c \notin hub /\ hub \in SUBSET Conns
  BY DEF IInv, Labels, HubLabels, OpenLabels, Connect, TypeOK, RegistryExact
<1>2. PICK l \in {"poll", "return"} :
        /\ Goto(c, l)
        /\ l = "poll" => hub' = hub \cup {c} /\ Cardinality(Registered(Owner[c])) < PerOwner
        /\ l = "return" => hub' = hub
  BY DEF Connect
<1>3. hub' \in SUBSET Conns /\ hub \subseteq hub'
  BY <1>1, <1>2
<1>4. /\ TypeOK' /\ SocketInv(c)' /\ pc' = [pc EXCEPT ![c] = l] /\ pc'[c] = l
      /\ \A d \in Conns \ {c} : Same(d)
      /\ \A v \in Versions : Served(c, v)'
  BY <1>1, <1>2, <1>3, OutsideTypes
<1>5. RegistryExact'
  <2>1. hub' = {d \in Conns : pc'[d] \in HubLabels}
    BY <1>1, <1>2, <1>4 DEF RegistryExact, TypeOK
  <2>2. ASSUME NEW o \in Owners PROVE Cardinality(Registered(o))' <= PerOwner
    <3>1. Cardinality(Registered(o)) <= PerOwner
      BY <1>1 DEF RegistryExact
    <3>2. CASE Registered(o)' = Registered(o)
      BY <3>1, <3>2
    <3>3. CASE l = "poll" /\ o = Owner[c]
      <4>1. Cardinality(Registered(Owner[c])) \in Nat
        <5>1. Registered(Owner[c]) \subseteq Conns
          BY <1>1 DEF Registered
        <5> QED BY <5>1, FS_Subset, FS_CardinalityType, GatewayAssumption
      <4>2. Cardinality(Registered(Owner[c])') = Cardinality(Registered(Owner[c])) + 1
        BY <1>1, <1>2, <3>3, RegisteredGrows
      <4> QED BY <1>2, <3>3, <4>1, <4>2, GatewayAssumption
    <3>4. CASE l = "return"
      BY <1>2, <3>2, <3>4 DEF Registered
    <3>5. CASE l = "poll" /\ o # Owner[c]
      BY <1>1, <1>2, <3>2, <3>5, RegisteredGrows
    <3> QED BY <1>2, <3>3, <3>4, <3>5
  <2>3. Busy' = Busy
    BY <1>1, <1>2, <1>4 DEF Busy, TypeOK
  <2> QED BY <1>1, <2>1, <2>2, <2>3 DEF RegistryExact, Busy
<1> QED BY <1>1, <1>3, <1>4, <1>5, SocketStepHolds

----------------------------------------------------------------------------
(* run                                                                     *)

LEMMA PollHolds ==
  ASSUME NEW c \in Conns, IInv, Poll(c) \/ SendTimeout(c) \/ Leave(c) \/ Close(c)
  PROVE  IInv'
<1>1. pc[c] \in HubLabels
  BY DEF Poll, SendTimeout, Leave, Close, Open, OpenLabels, HubLabels
<1>2. UNCHANGED <<permits, hub, enabled, slow, queue, hand, wire, clientVars, writerVars,
                  shutdown>>
  BY DEF Poll, SendTimeout, Leave, Close
<1>3. PICK l \in {"event", "close", "drop"} :
        Goto(c, l) /\ (l = "event" => pc[c] = "poll")
  BY DEF Poll, SendTimeout, Leave, Close
<1> QED BY <1>1, <1>2, <1>3, MoveHolds

LEMMA PollEventHolds ==
  ASSUME NEW c \in Conns, IInv, PollEvent(c)
  PROVE  IInv'
<1>1. TypeOK /\ SocketInv(c) /\ RegistryExact /\ pc[c] = "event" /\ "event" \in HubLabels
  BY DEF IInv, PollEvent, HubLabels, OpenLabels
<1>2. CASE queue[c] = 0
  BY <1>1, <1>2, MoveHolds DEF PollEvent
<1>3. CASE queue[c] # 0
  <2>1. PICK l \in {"send", "poll"} :
          /\ pc' = [pc EXCEPT ![c] = l] /\ queue' = [queue EXCEPT ![c] = @ - 1]
          /\ l = "send" => enabled[c] /\ hand' = [hand EXCEPT ![c] = Event]
          /\ l = "poll" => ~enabled[c] /\ hand' = hand
    BY <1>3 DEF PollEvent, Goto
  <2>2. /\ pc'[c] = l /\ l \in Labels /\ l \in HubLabels
        /\ queue[c] \in 0..QueueCapacity /\ queue'[c] \in 0..QueueCapacity
        /\ hand[c] = Nothing /\ hand'[c] \in {Nothing, Event}
        /\ l = "send" => hand'[c] = Event
        /\ l = "poll" => hand'[c] = Nothing
    BY <1>1, <1>3, <2>1, GatewayAssumption DEF TypeOK, Labels, HubLabels, OpenLabels, SocketInv, InHand
  <2>3. UNCHANGED <<permits, hub, enabled, slow, wire, clientVars, writerVars, shutdown>>
    BY DEF PollEvent
  <2>4. TypeOK'
    <3>1. queue' \in [Conns -> 0..QueueCapacity]
      BY <1>1, <2>1, <2>2 DEF TypeOK
    <3>2. hand' \in [Conns -> Messages \cup {Nothing}]
      BY <1>1, <2>1, MessageValues DEF TypeOK
    <3>3. pc' \in [Conns -> Labels]
      BY <1>1, <2>1, <2>2 DEF TypeOK
    <3> QED BY <1>1, <2>3, <3>1, <3>2, <3>3 DEF TypeOK, clientVars, writerVars
  <2>5. RegistryExact'
    BY <1>1, <2>1, <2>2, <2>3, RegistryKept
  <2>6. ~IsReply(hand[c]) /\ ~IsReply(hand'[c]) /\ hand'[c].kind # "ok" /\ hand[c].kind # "ok"
    BY <2>2, MessageValues DEF IsReply
  <2>7. SocketInv(c)'
    <3>1. Replied(c)' = Replied(c)
      BY <2>3, <2>6 DEF Replied, IsReply
    <3>2. Clean(c)' /\ InHand(c)'
      BY <2>2, MessageValues DEF Clean, InHand
    <3>3. OneCommand(c)'
      BY <1>1, <2>1, <2>2, <2>3, <2>6, <3>1 DEF SocketInv, OneCommand, IsReply, clientVars
    <3>4. Fitting(c)'
      BY <1>1, <2>2, <2>3, MessageValues DEF SocketInv, Fitting, Fits, clientVars, writerVars
    <3>5. FlagAgrees(c)'
      BY <1>1, <2>1, <2>2, <2>3, <3>1, MessageValues DEF SocketInv, FlagAgrees, clientVars
    <3>6. EventsPrecede(c)'
      BY <1>1, <2>3, <2>6 DEF SocketInv, EventsPrecede, clientVars
    <3> QED BY <3>2, <3>3, <3>4, <3>5, <3>6 DEF SocketInv
  <2>8. \A d \in Conns \ {c} : Same(d)
    BY <1>1, <2>1, <2>3 DEF TypeOK, Same, clientVars
  <2>9. ASSUME NEW v \in Versions, Served(c, v) PROVE Served(c, v)'
    <3>1. CASE l = "send"
      BY <2>1, <2>2, <2>3, <2>9, <3>1, MessageValues, <1>1 DEF Served, Open, OpenLabels, Pending, clientVars
    <3>2. CASE l = "poll"
      BY <1>1, <2>1, <2>3, <3>2 DEF Served, SocketInv, FlagAgrees, clientVars
    <3> QED BY <3>1, <3>2
  <2> QED BY <2>3, <2>4, <2>5, <2>7, <2>8, <2>9, SocketStepHolds
<1> QED BY <1>2, <1>3

LEMMA PollFrameHolds ==
  ASSUME NEW c \in Conns, IInv, PollFrame(c)
  PROVE  IInv'
<1>1. TypeOK /\ SocketInv(c) /\ RegistryExact /\ pc[c] = "frame" /\ "frame" \in HubLabels
  BY DEF IInv, PollFrame, HubLabels, OpenLabels
<1>2. UNCHANGED <<permits, hub, enabled, slow, queue, hand, wire, waiting, following, due, known,
                  writerVars, shutdown>>
  BY DEF PollFrame
<1>3. CASE frame' = frame /\ Goto(c, "poll")
  BY <1>1, <1>2, <1>3, MoveHolds DEF clientVars
<1>4. CASE frame[c] /\ frame' = [frame EXCEPT ![c] = FALSE] /\ Goto(c, "dispatch")
  <2>1. pc' = [pc EXCEPT ![c] = "dispatch"] /\ pc'[c] = "dispatch" /\ ~frame'[c]
        /\ "dispatch" \in Labels /\ "dispatch" \in HubLabels
    BY <1>1, <1>4 DEF TypeOK, Goto, Labels, HubLabels, OpenLabels
  <2>2. TypeOK'
    BY <1>1, <1>2, <1>4, <2>1 DEF TypeOK, writerVars
  <2>3. RegistryExact'
    BY <1>1, <1>2, <2>1, RegistryKept
  <2>4. SocketInv(c)'
    <3>1. Replied(c)' = Replied(c) /\ ~Replied(c)
      BY <1>1, <1>2, <1>4 DEF Replied, SocketInv, OneCommand
    <3>2. Clean(c)' /\ InHand(c)'
      BY <1>1, <1>2, <2>1 DEF Clean, InHand, SocketInv
    <3>3. OneCommand(c)'
      BY <1>1, <1>2, <1>4, <2>1, <3>1 DEF SocketInv, OneCommand
    <3>4. Fitting(c)'
      BY <1>1, <1>2 DEF SocketInv, Fitting, Fits, writerVars
    <3>5. FlagAgrees(c)' /\ EventsPrecede(c)'
      BY <1>1, <1>2, <3>1 DEF SocketInv, FlagAgrees, EventsPrecede
    <3> QED BY <3>2, <3>3, <3>4, <3>5 DEF SocketInv
  <2>5. \A d \in Conns \ {c} : Same(d)
    BY <1>1, <1>2, <1>4, <2>1 DEF TypeOK, Same
  <2>6. ASSUME NEW v \in Versions, Served(c, v) PROVE Served(c, v)'
    BY <1>1, <1>2, <2>1, <2>6 DEF Served, Open, OpenLabels, Pending, Reloading
  <2> QED BY <1>2, <2>2, <2>3, <2>4, <2>5, <2>6, SocketStepHolds
<1> QED BY <1>3, <1>4 DEF PollFrame

LEMMA DispatchHolds ==
  ASSUME NEW c \in Conns, IInv, Dispatch(c)
  PROVE  IInv'
<1>1. TypeOK /\ SocketInv(c) /\ RegistryExact /\ pc[c] = "dispatch"
      /\ "dispatch" \in HubLabels /\ "send" \in HubLabels /\ "send" \in Labels
      /\ row[Owner[c]] \in Versions /\ row[Owner[c]] \in Nat /\ Owner[c] \in Owners
  BY GatewayAssumption DEF IInv, Dispatch, HubLabels, OpenLabels, Labels, TypeOK, Versions
<1>2. UNCHANGED <<permits, hub, slow, queue, wire, clientVars, writerVars, shutdown>>
  BY DEF Dispatch
<1>3. PICK m \in Messages :
        /\ hand' = [hand EXCEPT ![c] = m] /\ IsReply(m)
        /\ pc' = [pc EXCEPT ![c] = "send"]
        /\ \/ waiting[c] = "subscribe" /\ m.kind = "ok" /\ enabled' = [enabled EXCEPT ![c] = TRUE]
           \/ waiting[c] = "unsubscribe" /\ m.kind = "ok" /\ enabled' = [enabled EXCEPT ![c] = FALSE]
           \/ waiting[c] = "get" /\ m.kind = "state" /\ m.version = row[Owner[c]] /\ enabled' = enabled
           \/ waiting[c] = "get" /\ m.kind = "error" /\ enabled' = enabled
  <2>1. CASE waiting[c] = "subscribe" \/ waiting[c] = "unsubscribe"
    <3> DEFINE m == [kind |-> "ok", version |-> 0]
    <3>1. m \in Messages /\ IsReply(m) /\ m.kind = "ok"
      BY MessageValues DEF IsReply
    <3>2. hand' = [hand EXCEPT ![c] = m] /\ pc' = [pc EXCEPT ![c] = "send"]
      BY <2>1 DEF Dispatch, Respond, Goto
    <3> QED BY <2>1, <3>1, <3>2 DEF Dispatch
  <2>2. CASE waiting[c] = "get" /\ Respond(c, "state", row[Owner[c]])
    <3> DEFINE m == [kind |-> "state", version |-> row[Owner[c]]]
    <3>1. m \in Messages /\ IsReply(m) /\ m.kind = "state" /\ m.version = row[Owner[c]]
      BY <1>1, MessageValues DEF IsReply
    <3>2. hand' = [hand EXCEPT ![c] = m] /\ pc' = [pc EXCEPT ![c] = "send"] /\ enabled' = enabled
      BY <2>2 DEF Dispatch, Respond, Goto
    <3> QED BY <2>2, <3>1, <3>2
  <2>3. CASE waiting[c] = "get" /\ Respond(c, "error", 0)
    <3> DEFINE m == [kind |-> "error", version |-> 0]
    <3>1. m \in Messages /\ IsReply(m) /\ m.kind = "error"
      BY MessageValues DEF IsReply
    <3>2. hand' = [hand EXCEPT ![c] = m] /\ pc' = [pc EXCEPT ![c] = "send"] /\ enabled' = enabled
      BY <2>3 DEF Dispatch, Respond, Goto
    <3> QED BY <2>3, <3>1, <3>2
  <2> QED BY <2>1, <2>2, <2>3 DEF Dispatch
<1>4. /\ pc'[c] = "send" /\ hand'[c] = m
      /\ enabled' \in [Conns -> BOOLEAN]
      /\ waiting[c] = "subscribe" => enabled'[c]
      /\ waiting[c] = "unsubscribe" => ~enabled'[c]
      /\ waiting[c] = "get" => enabled'[c] = enabled[c]
      /\ \A d \in Conns \ {c} : enabled'[d] = enabled[d]
  BY <1>1, <1>3 DEF TypeOK
<1>5. TypeOK'
  <2>1. hand' \in [Conns -> Messages \cup {Nothing}] /\ pc' \in [Conns -> Labels]
    BY <1>1, <1>3 DEF TypeOK
  <2> QED BY <1>1, <1>2, <1>4, <2>1 DEF TypeOK, clientVars, writerVars
<1>6. RegistryExact'
  BY <1>1, <1>2, <1>3, RegistryKept
<1>7. SocketInv(c)'
  <2>1. Replied(c)' /\ ~Replied(c) /\ ~frame[c] /\ waiting[c] \in {"subscribe", "unsubscribe", "get"}
    BY <1>1, <1>3, <1>4 DEF Replied, SocketInv, OneCommand
  <2>2. Clean(c)' /\ InHand(c)'
    BY <1>1, <1>4 DEF Clean, InHand
  <2>3. OneCommand(c)'
    BY <1>1, <1>2, <1>4, <2>1 DEF SocketInv, OneCommand, Replied, clientVars
  <2>4. Fitting(c)'
    <3>1. Fits(c, m)'
      BY <1>1, <1>2, <1>3 DEF Fits, clientVars, writerVars, SocketInv, Fitting
    <3> QED BY <1>1, <1>2, <1>4, <3>1 DEF SocketInv, Fitting, Fits, clientVars, writerVars
  <2>5. FlagAgrees(c)'
    BY <1>1, <1>2, <1>3, <1>4, <2>1 DEF SocketInv, FlagAgrees, IsReply, clientVars
  <2>6. EventsPrecede(c)'
    BY <1>1, <1>2, <1>3, <1>4, <2>1 DEF SocketInv, EventsPrecede, clientVars
  <2> QED BY <2>2, <2>3, <2>4, <2>5, <2>6 DEF SocketInv
<1>8. \A d \in Conns \ {c} : Same(d)
  BY <1>1, <1>2, <1>3, <1>4 DEF TypeOK, Same, clientVars
<1>9. ASSUME NEW v \in Versions, v <= row[Owner[c]], Served(c, v) PROVE Served(c, v)'
  <2> SUFFICES ASSUME following'[c], Open(c)', ~slow'[c], known'[c] < v
               PROVE  due'[c] \/ Pending(c)' \/ Reloading(c, v)'
    BY DEF Served
  <2>1. due[c] \/ Pending(c) \/ Reloading(c, v)
    BY <1>1, <1>2, <1>9 DEF Served, Open, OpenLabels, clientVars
  <2>2. CASE due[c]
    BY <1>2, <2>2 DEF clientVars
  <2>3. CASE Pending(c)
    <3>1. hand[c].kind # "event"
      BY <1>1, MessageValues DEF SocketInv, InHand
    <3> QED BY <1>2, <2>3, <3>1 DEF Pending
  <2>4. CASE Reloading(c, v)
    <3>1. waiting[c] = "get"
      BY <2>4 DEF Reloading
    <3>2. m.kind = "error" \/ (m.kind = "state" /\ m.version >= v)
      BY <1>1, <1>3, <1>9, <3>1 DEF Versions
    <3> QED BY <1>2, <1>4, <3>1, <3>2 DEF Reloading, clientVars
  <2> QED BY <2>1, <2>2, <2>3, <2>4
<1> QED BY <1>2, <1>5, <1>6, <1>7, <1>8, <1>9, SocketStepHolds

LEMMA SendHolds ==
  ASSUME NEW c \in Conns, IInv, Send(c)
  PROVE  IInv'
<1>1. TypeOK /\ SocketInv(c) /\ RegistryExact /\ pc[c] = "send" /\ hand[c] \in Messages
      /\ "poll" \in HubLabels /\ "send" \in HubLabels /\ "poll" \in Labels
      /\ wire[c] \in Seq(Messages) /\ Len(wire[c]) < WireCapacity
  BY DEF IInv, Send, HubLabels, OpenLabels, Labels, SocketInv, InHand, TypeOK
<1>2. UNCHANGED <<permits, hub, enabled, slow, queue, clientVars, writerVars, shutdown>>
      /\ pc' = [pc EXCEPT ![c] = "poll"] /\ hand' = [hand EXCEPT ![c] = Nothing]
      /\ wire' = [wire EXCEPT ![c] = Append(@, hand[c])]
  BY DEF Send, Goto
<1>3. /\ pc'[c] = "poll" /\ hand'[c] = Nothing /\ ~IsReply(hand'[c])
      /\ hand'[c].kind # "event" /\ hand'[c].kind # "ok"
  BY <1>1, <1>2, MessageValues DEF TypeOK, IsReply
<1> DEFINE n == Len(wire[c]) + 1
<1>4. /\ wire'[c] = Append(wire[c], hand[c]) /\ wire'[c] \in Seq(Messages)
      /\ n \in Nat /\ Len(wire'[c]) = n /\ n <= WireCapacity
      /\ DOMAIN wire[c] = 1 .. (n - 1) /\ DOMAIN wire'[c] = 1 .. n
      /\ \A i \in DOMAIN wire[c] : i \in DOMAIN wire'[c] /\ wire'[c][i] = wire[c][i] /\ i < n
      /\ n \in DOMAIN wire'[c] /\ wire'[c][n] = hand[c]
      /\ \A i \in DOMAIN wire'[c] : i \in DOMAIN wire[c] \/ i = n
  BY <1>1, <1>2, GatewayAssumption DEF TypeOK
<1> HIDE DEF n
<1>5. TypeOK'
  <2>1. hand' \in [Conns -> Messages \cup {Nothing}] /\ pc' \in [Conns -> Labels]
    BY <1>1, <1>2 DEF TypeOK
  <2>2. wire' \in [Conns -> Seq(Messages)]
    BY <1>1, <1>2, <1>4 DEF TypeOK
  <2>3. \A d \in Conns : Len(wire'[d]) <= WireCapacity
    BY <1>1, <1>2, <1>4 DEF TypeOK
  <2> QED BY <1>1, <1>2, <2>1, <2>2, <2>3 DEF TypeOK, clientVars, writerVars
<1>6. RegistryExact'
  BY <1>1, <1>2, RegistryKept
<1>7. SocketInv(c)'
  <2>1. Replied(c)' <=> Replied(c)
    <3>1. ASSUME Replied(c)' PROVE Replied(c)
      <4>1. PICK i \in DOMAIN wire'[c] : IsReply(wire'[c][i])
        BY <1>3, <3>1 DEF Replied, IsReply
      <4> QED BY <1>4, <4>1 DEF Replied
    <3>2. ASSUME Replied(c) PROVE Replied(c)'
      <4>1. CASE IsReply(hand[c])
        BY <1>4, <4>1 DEF Replied, IsReply
      <4>2. CASE \E i \in DOMAIN wire[c] : IsReply(wire[c][i])
        BY <1>4, <4>2 DEF Replied, IsReply
      <4> QED BY <3>2, <4>1, <4>2 DEF Replied
    <3> QED BY <3>1, <3>2
  <2>2. Clean(c)' /\ InHand(c)'
    BY <1>1, <1>3 DEF Clean, InHand
  <2>3. OneCommand(c)'
    <3>1. frame' = frame /\ waiting' = waiting /\ (frame[c] \/ Replied(c) => waiting[c] # "none")
          /\ (Replied(c) => ~frame[c])
      BY <1>1, <1>2 DEF SocketInv, OneCommand, clientVars
    <3>2. ASSUME NEW i \in DOMAIN wire'[c], NEW j \in DOMAIN wire'[c],
                 IsReply(wire'[c][i]), IsReply(wire'[c][j])
          PROVE  i = j
      <4>1. CASE i \in DOMAIN wire[c] /\ j \in DOMAIN wire[c]
        BY <1>1, <1>4, <3>2, <4>1 DEF SocketInv, OneCommand
      <4>2. CASE i = n /\ j \in DOMAIN wire[c]
        BY <1>1, <1>4, <3>2, <4>2 DEF SocketInv, OneCommand
      <4>3. CASE j = n /\ i \in DOMAIN wire[c]
        BY <1>1, <1>4, <3>2, <4>3 DEF SocketInv, OneCommand
      <4> QED BY <1>4, <4>1, <4>2, <4>3
    <3>3. \A i, j \in DOMAIN wire'[c] : IsReply(wire'[c][i]) /\ IsReply(wire'[c][j]) => i = j
      BY <3>2
    <3> QED BY <1>3, <2>1, <3>1, <3>3 DEF OneCommand, IsReply
  <2>4. Fitting(c)'
    <3>1. ASSUME NEW i \in DOMAIN wire'[c] PROVE Fits(c, wire'[c][i])
      BY <1>1, <1>4 DEF SocketInv, Fitting
    <3>2. Fits(c, hand'[c])
      BY <1>3, MessageValues DEF Fits
    <3> QED BY <1>1, <1>2, <3>1, <3>2 DEF SocketInv, Fitting, Fits, clientVars, writerVars
  <2>5. FlagAgrees(c)'
    BY <1>1, <1>2, <1>3, <2>1 DEF SocketInv, FlagAgrees, clientVars
  <2>6. EventsPrecede(c)'
    <3> SUFFICES ASSUME ~enabled[c], NEW i \in DOMAIN wire'[c], wire'[c][i].kind = "event"
                 PROVE  /\ waiting[c] = "unsubscribe"
                        /\ \E j \in DOMAIN wire'[c] : i < j /\ wire'[c][j].kind = "ok"
      BY <1>2 DEF EventsPrecede, clientVars
    <3>1. hand[c].kind # "event"
      BY <1>1 DEF SocketInv, FlagAgrees
    <3>2. i \in DOMAIN wire[c] /\ wire[c][i].kind = "event"
      BY <1>4, <3>1
    <3>3. /\ waiting[c] = "unsubscribe"
          /\ hand[c].kind = "ok" \/ \E j \in DOMAIN wire[c] : i < j /\ wire[c][j].kind = "ok"
      BY <1>1, <3>2 DEF SocketInv, EventsPrecede
    <3>4. CASE hand[c].kind = "ok"
      BY <1>4, <3>2, <3>3, <3>4
    <3>5. CASE \E j \in DOMAIN wire[c] : i < j /\ wire[c][j].kind = "ok"
      BY <1>4, <3>3, <3>5
    <3> QED BY <3>3, <3>4, <3>5
  <2> QED BY <2>2, <2>3, <2>4, <2>5, <2>6 DEF SocketInv
<1>8. \A d \in Conns \ {c} : Same(d)
  BY <1>1, <1>2 DEF TypeOK, Same, clientVars
<1>9. ASSUME NEW v \in Versions, Served(c, v) PROVE Served(c, v)'
  <2> SUFFICES ASSUME following'[c], Open(c)', ~slow'[c], known'[c] < v
               PROVE  due'[c] \/ Pending(c)' \/ Reloading(c, v)'
    BY DEF Served
  <2>1. due[c] \/ Pending(c) \/ Reloading(c, v)
    BY <1>1, <1>2, <1>9 DEF Served, Open, OpenLabels, clientVars
  <2>2. CASE due[c]
    BY <1>2, <2>2 DEF clientVars
  <2>3. CASE Pending(c)
    BY <1>2, <1>4, <2>3 DEF Pending
  <2>4. CASE Reloading(c, v)
    BY <1>1, <1>2, <1>4, <2>4 DEF Reloading, clientVars
  <2> QED BY <2>1, <2>2, <2>3, <2>4
<1> QED BY <1>2, <1>5, <1>6, <1>7, <1>8, <1>9, SocketStepHolds

LEMMA DropHolds ==
  ASSUME NEW c \in Conns, IInv, Drop(c)
  PROVE  IInv'
<1>1. TypeOK /\ RegistryExact /\ pc[c] = "drop" /\ ~Walked(Owner[c])
      /\ "return" \notin HubLabels /\ "return" \in Labels /\ "drop" \in HubLabels
  BY DEF IInv, Drop, HubLabels, OpenLabels, Labels
<1>2. /\ pc' = [pc EXCEPT ![c] = "return"] /\ hub' = hub \ {c}
      /\ enabled' = [enabled EXCEPT ![c] = FALSE] /\ slow' = [slow EXCEPT ![c] = FALSE]
      /\ queue' = [queue EXCEPT ![c] = 0] /\ hand' = [hand EXCEPT ![c] = Nothing]
      /\ wire' = [wire EXCEPT ![c] = <<>>] /\ waiting' = [waiting EXCEPT ![c] = "none"]
      /\ frame' = [frame EXCEPT ![c] = FALSE] /\ following' = [following EXCEPT ![c] = FALSE]
      /\ due' = [due EXCEPT ![c] = FALSE] /\ known' = [known EXCEPT ![c] = 0]
      /\ UNCHANGED <<permits, writerVars, shutdown>>
  BY DEF Drop, Goto
<1>3. /\ pc'[c] = "return" /\ queue'[c] = 0 /\ hand'[c] = Nothing /\ wire'[c] = <<>>
      /\ waiting'[c] = "none" /\ known'[c] = 0
      /\ ~enabled'[c] /\ ~slow'[c] /\ ~frame'[c] /\ ~following'[c] /\ ~due'[c]
  BY <1>1, <1>2 DEF TypeOK
<1>4. TypeOK'
  <2>1. /\ queue' \in [Conns -> 0..QueueCapacity] /\ known' \in [Conns -> Versions]
        /\ hand' \in [Conns -> Messages \cup {Nothing}] /\ pc' \in [Conns -> Labels]
        /\ hub' \subseteq Conns
    BY <1>1, <1>2, GatewayAssumption DEF TypeOK, Versions
  <2>2. /\ wire' \in [Conns -> Seq(Messages)]
        /\ \A d \in Conns : Len(wire'[d]) <= WireCapacity
    BY <1>1, <1>2, GatewayAssumption DEF TypeOK
  <2>3. /\ enabled' \in [Conns -> BOOLEAN] /\ slow' \in [Conns -> BOOLEAN]
        /\ frame' \in [Conns -> BOOLEAN] /\ following' \in [Conns -> BOOLEAN]
        /\ due' \in [Conns -> BOOLEAN]
        /\ waiting' \in [Conns -> {"none", "subscribe", "unsubscribe", "get"}]
    BY <1>1, <1>2 DEF TypeOK
  <2> QED BY <1>1, <1>2, <2>1, <2>2, <2>3 DEF TypeOK, writerVars
<1>5. RegistryExact'
  <2>1. hub' = {d \in Conns : pc'[d] \in HubLabels}
    BY <1>1, <1>2, <1>3 DEF RegistryExact, TypeOK
  <2>2. ASSUME NEW o \in Owners PROVE Cardinality(Registered(o)') <= PerOwner
    <3>1. /\ Registered(o) \subseteq Conns /\ Registered(o)' \subseteq Registered(o)
          /\ Cardinality(Registered(o)) <= PerOwner
      BY <1>1, <1>2 DEF Registered, TypeOK, RegistryExact
    <3>2. IsFiniteSet(Registered(o))
      BY <3>1, FS_Subset, GatewayAssumption
    <3>3. /\ Cardinality(Registered(o)') <= Cardinality(Registered(o))
          /\ Cardinality(Registered(o)') \in Nat /\ Cardinality(Registered(o)) \in Nat
      BY <3>1, <3>2, FS_Subset, FS_CardinalityType
    <3> QED BY <3>1, <3>3, GatewayAssumption
  <2>3. Busy' = Busy
    BY <1>1, <1>2, <1>3 DEF Busy, TypeOK
  <2> QED BY <1>1, <1>2, <2>1, <2>2, <2>3 DEF RegistryExact, Busy
<1>6. SocketInv(c)'
  <2>1. ~Replied(c)'
    BY <1>3, MessageValues DEF Replied, IsReply
  <2>2. Clean(c)' /\ InHand(c)' /\ EventsPrecede(c)'
    BY <1>3, MessageValues DEF Clean, InHand, EventsPrecede
  <2>3. OneCommand(c)' /\ FlagAgrees(c)'
    BY <1>3, <2>1, MessageValues DEF OneCommand, FlagAgrees, IsReply
  <2>4. Fitting(c)'
    <3>1. row'[Owner[c]] \in Nat
      BY <1>4, GatewayAssumption DEF TypeOK, Versions
    <3> QED BY <1>3, <3>1, MessageValues DEF Fitting, Fits
  <2> QED BY <2>2, <2>3, <2>4 DEF SocketInv
<1>7. \A d \in Conns \ {c} : Same(d)
  BY <1>1, <1>2 DEF TypeOK, Same
<1>8. \A v \in Versions : Served(c, v)'
  BY <1>3 DEF Served
<1>9. \A d \in hub : d \in hub' \/ (d = c /\ ~Walked(Owner[c]))
  BY <1>1, <1>2
<1> QED BY <1>2, <1>4, <1>5, <1>6, <1>7, <1>8, <1>9, SocketStepHolds

----------------------------------------------------------------------------
(* The client                                                              *)

(* Steps of the client leave the registry as it is.                        *)
LEMMA RegistryUntouched ==
  ASSUME RegistryExact, UNCHANGED <<pc, hub, permits>>
  PROVE  RegistryExact'
BY DEF RegistryExact, Registered

LEMMA AskHolds ==
  ASSUME NEW c \in Conns, NEW command \in Commands, IInv, Ask(c, command)
  PROVE  IInv'
<1>1. TypeOK /\ RegistryExact /\ SocketInv(c) /\ Open(c) /\ waiting[c] = "none"
      /\ command \in {"subscribe", "unsubscribe", "get"} /\ pc[c] \in HubLabels
  BY GatewayAssumption DEF IInv, Ask, Open, HubLabels
<1>2. /\ waiting' = [waiting EXCEPT ![c] = command] /\ frame' = [frame EXCEPT ![c] = TRUE]
      /\ UNCHANGED <<known, pc, hub, permits, queue, hand, wire, enabled, slow, shutdown>>
      /\ UNCHANGED writerVars
      /\ command = "subscribe" => ~following[c] /\ UNCHANGED <<due, following>>
      /\ command = "unsubscribe" => following' = [following EXCEPT ![c] = FALSE] /\ due' = due
      /\ command = "get" => due' = [due EXCEPT ![c] = FALSE] /\ following' = following
  BY DEF Ask, socketVars
<1>3. waiting'[c] = command /\ frame'[c]
  BY <1>1, <1>2 DEF TypeOK
<1>4. /\ following' \in [Conns -> BOOLEAN] /\ due' \in [Conns -> BOOLEAN]
      /\ command # "get" => ~following'[c] /\ due' = due
      /\ \A d \in Conns \ {c} : following'[d] = following[d] /\ due'[d] = due[d]
  BY <1>1, <1>2 DEF TypeOK
<1>5. TypeOK'
  <2>1. /\ frame' \in [Conns -> BOOLEAN]
        /\ waiting' \in [Conns -> {"none", "subscribe", "unsubscribe", "get"}]
    BY <1>1, <1>2 DEF TypeOK
  <2> QED BY <1>1, <1>2, <1>4, <2>1 DEF TypeOK, writerVars
<1>6. RegistryExact'
  BY <1>1, <1>2, RegistryUntouched
<1>7. SocketInv(c)'
  <2>1. ~Replied(c) /\ ~Replied(c)' /\ pc[c] # "dispatch"
    BY <1>1, <1>2 DEF Replied, SocketInv, OneCommand
  <2>2. Clean(c)' /\ InHand(c)'
    BY <1>1, <1>2 DEF Clean, InHand, SocketInv
  <2>3. OneCommand(c)'
    BY <1>1, <1>2, <1>3, <2>1 DEF OneCommand, SocketInv, Replied
  <2>4. Fitting(c)'
    <3>1. ASSUME NEW m, Fits(c, m), ~IsReply(m) PROVE Fits(c, m)'
      BY <3>1 DEF Fits, IsReply
    <3> QED BY <1>1, <1>2, <2>1, <3>1 DEF Fitting, SocketInv, Replied, writerVars
  <2>5. FlagAgrees(c)'
    BY <1>1, <1>2, <1>3, <1>4, <2>1 DEF FlagAgrees, SocketInv
  <2>6. EventsPrecede(c)'
    BY <1>1, <1>2, <1>3 DEF EventsPrecede, SocketInv
  <2> QED BY <2>2, <2>3, <2>4, <2>5, <2>6 DEF SocketInv
<1>8. \A d \in Conns \ {c} : Same(d)
  BY <1>1, <1>2, <1>4 DEF TypeOK, Same
<1>9. ASSUME NEW v \in Versions, Served(c, v) PROVE Served(c, v)'
  <2>1. CASE command = "get"
    BY <1>2, <1>3, <2>1 DEF Served, Reloading
  <2>2. CASE command # "get"
    BY <1>4, <2>2 DEF Served
  <2> QED BY <2>1, <2>2
<1> QED BY <1>2, <1>5, <1>6, <1>7, <1>8, <1>9, SocketStepHolds

LEMMA ReceiveHolds ==
  ASSUME NEW c \in Conns, IInv, Receive(c)
  PROVE  IInv'
<1> DEFINE s == wire[c]
           m == Head(s)
           t == wire'[c]
<1>1. TypeOK /\ RegistryExact /\ SocketInv(c) /\ s \in Seq(Messages) /\ s # <<>>
  BY DEF IInv, Receive, TypeOK
<1>2. UNCHANGED <<frame, permits, pc, hub, enabled, slow, queue, hand, shutdown>>
      /\ UNCHANGED writerVars /\ wire' = [wire EXCEPT ![c] = Tail(s)]
  BY DEF Receive
<1>3. /\ m \in Messages /\ t = Tail(s) /\ t \in Seq(Messages) /\ Len(t) <= WireCapacity
      /\ 1 \in DOMAIN s /\ m = s[1]
      /\ \A i \in DOMAIN t : i \in Nat /\ i + 1 \in DOMAIN s /\ i + 1 # 1 /\ t[i] = s[i + 1]
      /\ \A i \in DOMAIN s : i \in Nat /\ (i = 1 \/ (i - 1 \in DOMAIN t /\ t[i - 1] = s[i]))
  BY <1>1, <1>2, GatewayAssumption DEF TypeOK
<1> HIDE DEF s, m, t
<1>4. known[c] \in Nat /\ row[Owner[c]] \in Nat /\ m.version \in Versions /\ m.version \in Nat
  BY <1>1, <1>3, MessageKinds, GatewayAssumption DEF TypeOK, Versions
<1>5. /\ wire' \in [Conns -> Seq(Messages)] /\ \A d \in Conns : Len(wire'[d]) <= WireCapacity
      /\ \A d \in Conns \ {c} : wire'[d] = wire[d]
  BY <1>1, <1>2, <1>3 DEF TypeOK, s, t
<1>6. Fits(c, m) /\ OneCommand(c) /\ Fitting(c) /\ FlagAgrees(c) /\ EventsPrecede(c) /\ Clean(c)
      /\ InHand(c)
  BY <1>1, <1>3 DEF SocketInv, Fitting, s
<1>7. InHand(c)' /\ pc[c] \in HubLabels
  BY <1>2, <1>6, <1>1 DEF InHand, Clean, s
<1>8. Clean(c)'
  BY <1>2, <1>7 DEF Clean
<1>9. RegistryExact'
  BY <1>1, <1>2, RegistryUntouched
<1>10. CASE m.kind = "event"
  <2>1. due' = [due EXCEPT ![c] = TRUE] /\ UNCHANGED <<waiting, following, known>>
    BY <1>10 DEF Receive, s, m
  <2>2. due'[c] /\ TypeOK'
    BY <1>1, <1>2, <1>5, <2>1 DEF TypeOK, writerVars
  <2>3. ~IsReply(m) /\ m.kind # "ok"
    BY <1>10 DEF IsReply
  <2>4. Replied(c)' <=> Replied(c)
    BY <1>2, <1>3, <2>3 DEF Replied, s, t, IsReply
  <2>5. OneCommand(c)'
    <3>1. ASSUME NEW i \in DOMAIN t, NEW j \in DOMAIN t, IsReply(t[i]), IsReply(t[j]) PROVE i = j
      <4>1. i + 1 = j + 1
        BY <1>3, <1>6, <3>1 DEF OneCommand, s
      <4> QED BY <1>3, <4>1
    <3>2. IsReply(hand[c]) => \A i \in DOMAIN t : ~IsReply(t[i])
      BY <1>3, <1>6 DEF OneCommand, s
    <3> QED BY <1>2, <1>6, <2>1, <2>4, <3>1, <3>2 DEF OneCommand, t, IsReply
  <2>6. Fitting(c)'
    BY <1>2, <1>3, <1>6, <2>1 DEF Fitting, Fits, s, t, writerVars
  <2>7. FlagAgrees(c)'
    BY <1>2, <1>6, <2>1, <2>4 DEF FlagAgrees
  <2>8. EventsPrecede(c)'
    <3> SUFFICES ASSUME ~enabled[c], NEW i \in DOMAIN t, t[i].kind = "event"
                 PROVE  /\ waiting[c] = "unsubscribe"
                        /\ hand[c].kind = "ok" \/ \E j \in DOMAIN t : i < j /\ t[j].kind = "ok"
      BY <1>2, <2>1 DEF EventsPrecede, t
    <3>1. i + 1 \in DOMAIN s /\ s[i + 1].kind = "event" /\ i \in Nat
      BY <1>3
    <3>2. /\ waiting[c] = "unsubscribe"
          /\ hand[c].kind = "ok" \/ \E j \in DOMAIN s : i + 1 < j /\ s[j].kind = "ok"
      BY <1>6, <3>1 DEF EventsPrecede, s
    <3>3. ASSUME NEW j \in DOMAIN s, i + 1 < j, s[j].kind = "ok"
          PROVE  j - 1 \in DOMAIN t /\ i < j - 1 /\ t[j - 1].kind = "ok"
      BY <1>3, <3>1, <3>3
    <3> QED BY <3>2, <3>3
  <2>9. \A d \in Conns \ {c} : Same(d)
    BY <1>1, <1>2, <1>5, <2>1 DEF TypeOK, Same
  <2>10. \A v \in Versions : Served(c, v)'
    BY <2>2 DEF Served
  <2>11. SocketInv(c)'
    BY <1>7, <1>8, <2>5, <2>6, <2>7, <2>8 DEF SocketInv
  <2> QED BY <1>2, <1>9, <2>2, <2>9, <2>10, <2>11, SocketStepHolds
<1>11. CASE m.kind # "event"
  <2>1. IsReply(m) /\ m.kind \in {"ok", "state", "error"}
    BY <1>3, <1>11, MessageKinds DEF IsReply
  <2>2. /\ waiting' = [waiting EXCEPT ![c] = "none"]
        /\ m.kind = "ok" => /\ following' = [following EXCEPT ![c] = (waiting[c] = "subscribe")]
                            /\ due' = [due EXCEPT ![c] = @ \/ waiting[c] = "subscribe"]
                            /\ known' = known
        /\ m.kind = "state" => /\ known' = [known EXCEPT ![c] = m.version]
                               /\ UNCHANGED <<following, due>>
        /\ m.kind = "error" => /\ due' = [due EXCEPT ![c] = TRUE]
                               /\ UNCHANGED <<following, known>>
    BY <1>11, <2>1 DEF Receive, s, m
  <2>3. Replied(c) /\ waiting[c] # "none" /\ ~frame[c] /\ pc[c] # "dispatch"
        /\ ~IsReply(hand[c]) /\ \A i \in DOMAIN t : ~IsReply(t[i])
    <3>1. Replied(c)
      BY <1>3, <2>1 DEF Replied, s
    <3>2. ~IsReply(hand[c])
      BY <1>3, <1>6, <2>1 DEF OneCommand, s
    <3>3. ASSUME NEW i \in DOMAIN t PROVE ~IsReply(t[i])
      BY <1>3, <1>6, <2>1 DEF OneCommand, s
    <3> QED BY <1>6, <3>1, <3>2, <3>3 DEF OneCommand
  <2>4. waiting'[c] = "none" /\ ~Replied(c)'
    BY <1>1, <1>2, <2>2, <2>3 DEF TypeOK, Replied, t, IsReply
  <2>5. /\ following' \in [Conns -> BOOLEAN] /\ due' \in [Conns -> BOOLEAN]
        /\ known' \in [Conns -> Versions]
        /\ m.kind = "ok" => /\ following'[c] = (waiting[c] = "subscribe") /\ known'[c] = known[c]
                            /\ (following'[c] => due'[c])
        /\ m.kind = "state" => known'[c] = m.version /\ following'[c] = following[c] /\ due'[c] = due[c]
        /\ m.kind = "error" => due'[c] /\ following'[c] = following[c] /\ known'[c] = known[c]
        /\ \A d \in Conns \ {c} : /\ following'[d] = following[d] /\ due'[d] = due[d]
                                  /\ known'[d] = known[d] /\ waiting'[d] = waiting[d]
    BY <1>1, <1>4, <2>1, <2>2 DEF TypeOK
  <2>6. TypeOK'
    <3>1. waiting' \in [Conns -> {"none", "subscribe", "unsubscribe", "get"}]
      BY <1>1, <2>2 DEF TypeOK
    <3> QED BY <1>1, <1>2, <1>5, <2>5, <3>1 DEF TypeOK, writerVars
  <2>7. OneCommand(c)'
    BY <1>2, <2>3, <2>4 DEF OneCommand, t, IsReply
  <2>8. Fitting(c)'
    <3>1. known'[c] <= row[Owner[c]]
      BY <1>6, <2>1, <2>5 DEF Fitting, Fits
    <3>2. ASSUME NEW x, ~IsReply(x) PROVE Fits(c, x)'
      BY <3>2 DEF Fits, IsReply
    <3> QED BY <1>2, <2>3, <3>1, <3>2 DEF Fitting, t, writerVars
  <2>9. FlagAgrees(c)'
    <3>1. hand[c].kind = "event" => enabled[c]
      BY <1>6 DEF FlagAgrees
    <3>2. enabled[c] <=> following'[c]
      BY <1>1, <1>6, <2>1, <2>3, <2>5 DEF FlagAgrees, Fits, TypeOK
    <3> QED BY <1>2, <2>4, <3>1, <3>2 DEF FlagAgrees
  <2>10. EventsPrecede(c)'
    <3> SUFFICES ASSUME ~enabled[c], NEW i \in DOMAIN t, t[i].kind = "event" PROVE FALSE
      BY <1>2 DEF EventsPrecede, t
    <3>1. i + 1 \in DOMAIN s /\ s[i + 1].kind = "event" /\ i \in Nat
      BY <1>3
    <3>2. hand[c].kind = "ok" \/ \E j \in DOMAIN s : i + 1 < j /\ s[j].kind = "ok"
      BY <1>6, <3>1 DEF EventsPrecede, s
    <3>3. hand[c].kind # "ok"
      BY <2>3 DEF IsReply
    <3>4. ASSUME NEW j \in DOMAIN s, i + 1 < j, s[j].kind = "ok" PROVE FALSE
      <4>1. j = 1
        BY <1>3, <1>6, <2>1, <3>4 DEF OneCommand, s, IsReply
      <4> QED BY <3>1, <3>4, <4>1
    <3> QED BY <3>2, <3>3, <3>4
  <2>11. \A d \in Conns \ {c} : Same(d)
    BY <1>1, <1>2, <1>5, <2>5 DEF TypeOK, Same
  <2>12. ASSUME NEW v \in Versions, Served(c, v) PROVE Served(c, v)'
    <3> SUFFICES ASSUME following'[c], Open(c)', ~slow'[c], known'[c] < v
                 PROVE  due'[c] \/ Pending(c)' \/ Reloading(c, v)'
      BY DEF Served
    <3>1. CASE m.kind = "ok" \/ m.kind = "error"
      BY <2>5, <3>1
    <3>2. CASE m.kind = "state"
      <4>1. known[c] < v /\ ~(m.version >= v) /\ v \in Nat
        BY <1>4, <1>6, <2>5, <3>2, GatewayAssumption DEF Fits, Versions
      <4>2. following[c] /\ Open(c) /\ ~slow[c]
        BY <1>2, <2>5, <3>2 DEF Open
      <4>3. due[c] \/ Pending(c) \/ Reloading(c, v)
        BY <2>12, <4>1, <4>2 DEF Served
      <4>4. CASE due[c]
        BY <2>5, <3>2, <4>4
      <4>5. CASE Pending(c)
        <5>1. ASSUME NEW i \in DOMAIN s, s[i].kind = "event"
              PROVE  \E j \in DOMAIN t : t[j].kind = "event"
          <6>1. i # 1
            BY <1>3, <1>11, <5>1
          <6>2. i - 1 \in DOMAIN t /\ t[i - 1] = s[i]
            BY <1>3, <6>1
          <6> QED BY <5>1, <6>2
        <5> QED BY <1>2, <4>5, <5>1 DEF Pending, s, t
      <4>6. ~Reloading(c, v)
        <5>1. ASSUME NEW x, x.kind = "error" \/ (x.kind = "state" /\ x.version >= v), ~IsReply(x)
              PROVE FALSE
          BY <5>1 DEF IsReply
        <5>2. ASSUME NEW i \in DOMAIN s,
                     s[i].kind = "error" \/ (s[i].kind = "state" /\ s[i].version >= v)
              PROVE FALSE
          <6>1. i = 1
            BY <1>3, <2>3, <5>1, <5>2
          <6> QED BY <1>3, <3>2, <4>1, <5>2, <6>1
        <5> QED BY <2>3, <5>1, <5>2 DEF Reloading, s
      <4> QED BY <4>3, <4>4, <4>5, <4>6
    <3> QED BY <2>1, <3>1, <3>2
  <2>13. SocketInv(c)'
    BY <1>7, <1>8, <2>7, <2>8, <2>9, <2>10 DEF SocketInv
  <2> QED BY <1>2, <1>9, <2>6, <2>11, <2>12, <2>13, SocketStepHolds
<1> QED BY <1>10, <1>11

----------------------------------------------------------------------------
(* Publishers                                                              *)

LEMMA WriterStepHolds ==
  ASSUME IInv, TypeOK', UNCHANGED <<socketVars, clientVars>>,
         \A o \in Owners : row[o] <= row'[o],
         \A x \in Writers : Walk(x)',
         AckedStored', AllServed'
  PROVE  IInv'
<1>1. \A d \in Conns : Same(d)
  BY DEF Same, socketVars, clientVars
<1>2. ASSUME NEW d \in Conns PROVE SocketInv(d)'
  <2>1. Owner[d] \in Owners /\ row' \in [Owners -> Versions]
    BY GatewayAssumption DEF TypeOK
  <2>2. row[Owner[d]] <= row'[Owner[d]] /\ row'[Owner[d]] \in Nat /\ TypeOK /\ SocketInv(d)
    BY <2>1, GatewayAssumption DEF Versions, IInv
  <2> QED BY <1>1, <2>2, SocketUntouched
<1>3. RegistryExact'
  BY RegistryUntouched DEF IInv, socketVars
<1> QED BY <1>2, <1>3 DEF IInv

(* What a walk owes, it still owes, and what is served stays served.       *)
LEMMA StillServed ==
  ASSUME IInv, UNCHANGED <<socketVars, clientVars>>, acked' = acked,
         \A d \in Conns, x \in Writers : Passed(x, d)' => (Passed(x, d) /\ job'[x] = job[x]) \/ ~Open(d)
  PROVE  AllServed'
<1>1. ASSUME NEW d \in Conns PROVE Served(d, acked[Owner[d]])'
  <2>1. Served(d, acked[Owner[d]])
    BY DEF IInv, AllServed
  <2> QED BY <2>1 DEF Served, Open, Pending, Reloading, socketVars, clientVars
<1>2. ASSUME NEW d \in Conns, NEW x \in Writers, Passed(x, d)' PROVE Served(d, job[x].version)'
  <2>1. CASE ~Open(d)
    BY <2>1 DEF Served, Open, socketVars
  <2>2. CASE Passed(x, d) /\ job'[x] = job[x]
    <3>1. Served(d, job[x].version)
      BY <2>2 DEF IInv, AllServed
    <3> QED BY <2>2, <3>1 DEF Served, Open, Pending, Reloading, socketVars, clientVars
  <2> QED BY <1>2, <2>1, <2>2
<1> QED BY <1>1, <1>2 DEF AllServed

LEMMA WriteHolds ==
  ASSUME NEW w \in Writers, NEW o \in Owners, IInv, Write(w, o)
  PROVE  IInv'
<1>1. TypeOK /\ wpc[w] = "idle" /\ row[o] \in Nat /\ row[o] + 1 \in Versions
      /\ \A x \in Owners : row[x] \in Nat
  BY GatewayAssumption DEF IInv, Write, TypeOK, Versions
<1>2. /\ row' = [row EXCEPT ![o] = @ + 1] /\ wpc' = [wpc EXCEPT ![w] = "publish"]
      /\ job' = [job EXCEPT ![w] = [owner |-> o, version |-> row[o] + 1]]
      /\ UNCHANGED <<acked, todo, shutdown>> /\ UNCHANGED <<socketVars, clientVars>>
  BY DEF Write
<1>3. [owner |-> o, version |-> row[o] + 1] \in Jobs
  BY <1>1 DEF Jobs
<1>4. \A x \in Owners : row[x] <= row'[x] /\ row'[x] \in Nat
  BY <1>1, <1>2 DEF TypeOK
<1>5. TypeOK'
  <2>1. row' \in [Owners -> Versions] /\ wpc' \in [Writers -> {"idle", "publish", "notify"}]
        /\ job' \in [Writers -> Jobs \cup {NoJob}]
    BY <1>1, <1>2, <1>3 DEF TypeOK
  <2> QED BY <1>1, <1>2, <2>1 DEF TypeOK, socketVars, clientVars
<1>6. ASSUME NEW x \in Writers PROVE Walk(x)'
  <2>1. CASE x = w
    <3>1. wpc'[w] = "publish" /\ job'[w] = [owner |-> o, version |-> row[o] + 1]
          /\ row'[o] = row[o] + 1 /\ todo'[w] = {}
      BY <1>1, <1>2 DEF TypeOK, IInv, Walk
    <3> QED BY <1>1, <1>3, <2>1, <3>1 DEF Walk
  <2>2. CASE x # w
    <3>1. wpc'[x] = wpc[x] /\ job'[x] = job[x] /\ todo'[x] = todo[x] /\ Walk(x)
      BY <1>1, <1>2, <2>2 DEF TypeOK, IInv
    <3>2. job[x] \in Jobs => job[x].owner \in Owners /\ job[x].version \in Nat
      BY GatewayAssumption DEF Jobs, Versions
    <3>3. \A y : Registered(y)' = Registered(y)
      BY <1>2 DEF Registered, socketVars
    <3>4. wpc[x] # "idle" => job[x].version <= row'[job[x].owner]
      BY <1>1, <1>4, <3>1, <3>2 DEF Walk
    <3> QED BY <3>1, <3>3, <3>4 DEF Walk
  <2> QED BY <2>1, <2>2
<1>7. AckedStored'
  BY <1>1, <1>2, <1>4, GatewayAssumption DEF IInv, AckedStored, TypeOK, Versions
<1>8. AllServed'
  <2>1. \A x \in Writers : wpc'[x] = "notify" => wpc[x] = "notify" /\ job'[x] = job[x]
    BY <1>1, <1>2 DEF TypeOK
  <2> QED BY <1>2, <2>1, StillServed DEF Passed
<1> QED BY <1>2, <1>4, <1>5, <1>6, <1>7, <1>8, WriterStepHolds

LEMMA LoseHolds ==
  ASSUME NEW w \in Writers, IInv, Lose(w)
  PROVE  IInv'
<1>1. TypeOK /\ wpc[w] = "publish" /\ \A x \in Owners : row[x] \in Nat
  BY GatewayAssumption DEF IInv, Lose, TypeOK, Versions
<1>2. /\ wpc' = [wpc EXCEPT ![w] = "idle"] /\ job' = [job EXCEPT ![w] = NoJob]
      /\ UNCHANGED <<row, acked, todo, shutdown>> /\ UNCHANGED <<socketVars, clientVars>>
  BY DEF Lose, Stop
<1>3. TypeOK'
  <2>1. /\ wpc' \in [Writers -> {"idle", "publish", "notify"}]
        /\ job' \in [Writers -> Jobs \cup {NoJob}]
    BY <1>1, <1>2 DEF TypeOK
  <2> QED BY <1>1, <1>2, <2>1 DEF TypeOK, socketVars, clientVars
<1>4. \A y : Registered(y)' = Registered(y)
  BY <1>2 DEF Registered, socketVars
<1>5. \A x \in Writers : Walk(x)'
  BY <1>1, <1>2, <1>4 DEF TypeOK, IInv, Walk
<1>6. AckedStored'
  BY <1>2 DEF IInv, AckedStored
<1>7. AllServed'
  <2>1. \A x \in Writers : wpc'[x] = "notify" => wpc[x] = "notify" /\ job'[x] = job[x]
    BY <1>1, <1>2 DEF TypeOK
  <2> QED BY <1>2, <2>1, StillServed DEF Passed
<1> QED BY <1>1, <1>2, <1>3, <1>5, <1>6, <1>7, WriterStepHolds

LEMMA StartPublishHolds ==
  ASSUME NEW w \in Writers, IInv, StartPublish(w)
  PROVE  IInv'
<1>1. TypeOK /\ RegistryExact /\ wpc[w] = "publish" /\ \A x \in Owners : row[x] \in Nat
  BY GatewayAssumption DEF IInv, StartPublish, TypeOK, Versions
<1>2. /\ wpc' = [wpc EXCEPT ![w] = "notify"]
      /\ todo' = [todo EXCEPT ![w] = Registered(job[w].owner)]
      /\ UNCHANGED <<row, acked, job, shutdown>> /\ UNCHANGED <<socketVars, clientVars>>
  BY DEF StartPublish
<1>3. TypeOK'
  <2>1. Registered(job[w].owner) \in SUBSET Conns
    BY <1>1 DEF Registered, TypeOK
  <2>2. /\ wpc' \in [Writers -> {"idle", "publish", "notify"}]
        /\ todo' \in [Writers -> SUBSET Conns]
    BY <1>1, <1>2, <2>1 DEF TypeOK
  <2> QED BY <1>1, <1>2, <2>2 DEF TypeOK, socketVars, clientVars
<1>4. \A y : Registered(y)' = Registered(y)
  BY <1>2 DEF Registered, socketVars
<1>5. \A x \in Writers : Walk(x)'
  BY <1>1, <1>2, <1>4 DEF TypeOK, IInv, Walk
<1>6. AckedStored'
  BY <1>2 DEF IInv, AckedStored
<1>7. AllServed'
  <2> SUFFICES ASSUME NEW d \in Conns, NEW x \in Writers, Passed(x, d)'
               PROVE  (Passed(x, d) /\ job'[x] = job[x]) \/ ~Open(d)
    BY <1>2, StillServed
  <2>1. CASE x # w
    BY <1>1, <1>2, <2>1 DEF Passed, TypeOK
  <2>2. CASE x = w
    <3>1. d \notin hub
      BY <1>1, <1>2, <2>2 DEF Passed, TypeOK, Registered
    <3> QED BY <1>1, <3>1 DEF RegistryExact, Open, HubLabels
  <2> QED BY <2>1, <2>2
<1> QED BY <1>1, <1>2, <1>3, <1>5, <1>6, <1>7, WriterStepHolds

LEMMA EndPublishHolds ==
  ASSUME NEW w \in Writers, IInv, EndPublish(w)
  PROVE  IInv'
<1> DEFINE o == job[w].owner
<1>1. /\ TypeOK /\ wpc[w] = "notify" /\ todo[w] = {} /\ Walk(w) /\ AckedStored
      /\ job[w] \in Jobs /\ o \in Owners /\ job[w].version \in Versions
      /\ job[w].version <= row[o]
  BY DEF IInv, EndPublish, Walk, Jobs
<1>2. /\ acked' = [acked EXCEPT ![o] = IF @ < job[w].version THEN job[w].version ELSE @]
      /\ wpc' = [wpc EXCEPT ![w] = "idle"] /\ job' = [job EXCEPT ![w] = NoJob]
      /\ UNCHANGED <<row, todo, shutdown>> /\ UNCHANGED <<socketVars, clientVars>>
  BY DEF EndPublish, Stop
<1> HIDE DEF o
<1>3. \A x \in Owners : /\ row[x] \in Nat /\ acked[x] \in Versions /\ acked'[x] \in Versions
                        /\ acked'[x] = acked[x] \/ (x = o /\ acked'[x] = job[w].version)
  BY <1>1, <1>2, GatewayAssumption DEF TypeOK, Versions
<1>4. TypeOK'
  <2>1. /\ wpc' \in [Writers -> {"idle", "publish", "notify"}]
        /\ job' \in [Writers -> Jobs \cup {NoJob}] /\ acked' \in [Owners -> Versions]
    BY <1>1, <1>2, <1>3 DEF TypeOK
  <2> QED BY <1>1, <1>2, <2>1 DEF TypeOK, socketVars, clientVars
<1>5. \A y : Registered(y)' = Registered(y)
  BY <1>2 DEF Registered, socketVars
<1>6. \A x \in Writers : Walk(x)'
  BY <1>1, <1>2, <1>5 DEF TypeOK, IInv, Walk
<1>7. AckedStored'
  BY <1>1, <1>2, <1>3 DEF AckedStored
<1>8. AllServed'
  <2>1. ASSUME NEW d \in Conns PROVE Served(d, acked[Owner[d]])'
    <3>1. Owner[d] \in Owners
      BY GatewayAssumption
    <3>2. CASE acked'[Owner[d]] = acked[Owner[d]]
      <4>1. Served(d, acked[Owner[d]])
        BY DEF IInv, AllServed
      <4> QED BY <1>2, <3>2, <4>1 DEF Served, Open, Pending, Reloading, socketVars, clientVars
    <3>3. CASE Owner[d] = o /\ acked'[Owner[d]] = job[w].version
      <4>1. Served(d, job[w].version)
        BY <1>1, <3>3 DEF IInv, AllServed, Passed, o
      <4> QED BY <1>2, <3>3, <4>1 DEF Served, Open, Pending, Reloading, socketVars, clientVars
    <3> QED BY <1>3, <3>1, <3>2, <3>3
  <2>2. ASSUME NEW d \in Conns, NEW x \in Writers, Passed(x, d)' PROVE Served(d, job[x].version)'
    <3>1. Passed(x, d) /\ job'[x] = job[x]
      BY <1>1, <1>2, <2>2 DEF Passed, TypeOK
    <3>2. Served(d, job[x].version)
      BY <3>1 DEF IInv, AllServed
    <3> QED BY <1>2, <3>1, <3>2 DEF Served, Open, Pending, Reloading, socketVars, clientVars
  <2> QED BY <2>1, <2>2 DEF AllServed
<1>9. \A x \in Owners : row[x] <= row'[x]
  BY <1>2, <1>3
<1> QED BY <1>2, <1>4, <1>6, <1>7, <1>8, <1>9, WriterStepHolds

LEMMA CancelHolds ==
  ASSUME IInv, Cancel
  PROVE  IInv'
<1>1. TypeOK' /\ \A x \in Owners : row[x] \in Nat /\ row[x] <= row'[x]
  BY GatewayAssumption DEF IInv, TypeOK, Cancel, socketVars, clientVars, writerVars, Versions
<1>2. \A x \in Writers : Walk(x)'
  BY DEF IInv, Walk, Cancel, Registered, socketVars, writerVars
<1>3. AckedStored'
  BY DEF IInv, AckedStored, Cancel, writerVars
<1>4. AllServed'
  BY StillServed DEF Cancel, writerVars, Passed
<1> QED BY <1>1, <1>2, <1>3, <1>4, WriterStepHolds DEF Cancel

LEMMA NotifyHolds ==
  ASSUME NEW w \in Writers, NEW c \in Conns, IInv, Notify(w, c)
  PROVE  IInv'
<1>1. /\ TypeOK /\ RegistryExact /\ SocketInv(c) /\ Walk(w) /\ wpc[w] = "notify" /\ c \in todo[w]
      /\ c \in hub /\ pc[c] \in HubLabels /\ job[w] \in Jobs
      /\ \A x \in Owners : row[x] \in Nat
  <2>1. TypeOK /\ RegistryExact /\ SocketInv(c) /\ Walk(w) /\ wpc[w] = "notify" /\ c \in todo[w]
    BY DEF IInv, Notify
  <2>2. c \in hub /\ job[w] \in Jobs
    BY <2>1 DEF Walk, Registered
  <2>3. pc[c] \in HubLabels
    BY <2>1, <2>2 DEF RegistryExact
  <2>4. \A x \in Owners : row[x] \in Nat
    BY <2>1, GatewayAssumption DEF TypeOK, Versions
  <2> QED BY <2>1, <2>2, <2>3, <2>4
<1>2. /\ todo' = [todo EXCEPT ![w] = @ \ {c}]
      /\ UNCHANGED <<permits, pc, hub, enabled, hand, wire, row, acked, wpc, job, clientVars,
                     shutdown>>
  BY DEF Notify
<1>3. /\ queue' \in [Conns -> 0..QueueCapacity] /\ slow' \in [Conns -> BOOLEAN]
      /\ queue[c] \in Nat /\ queue'[c] \in Nat
      /\ queue[c] > 0 => queue'[c] > 0
      /\ slow[c] => slow'[c]
      /\ enabled[c] => queue'[c] > 0 \/ slow'[c]
      /\ \A d \in Conns \ {c} : queue'[d] = queue[d] /\ slow'[d] = slow[d]
  <2>1. /\ queue \in [Conns -> 0..QueueCapacity] /\ slow \in [Conns -> BOOLEAN]
        /\ queue[c] \in 0..QueueCapacity /\ QueueCapacity \in Nat \ {0}
    BY <1>1, GatewayAssumption DEF TypeOK
  <2>2. CASE enabled[c] /\ queue[c] < QueueCapacity /\ slow' = slow
             /\ queue' = [queue EXCEPT ![c] = @ + 1]
    BY <2>1, <2>2
  <2>3. CASE queue[c] = QueueCapacity /\ slow' = [slow EXCEPT ![c] = TRUE] /\ queue' = queue
    BY <2>1, <2>3
  <2>4. CASE ~enabled[c] /\ slow' = slow /\ queue' = queue
    BY <2>1, <2>4
  <2> QED BY <2>2, <2>3, <2>4 DEF Notify
<1>4. TypeOK'
  <2>1. todo' \in [Writers -> SUBSET Conns]
    BY <1>1, <1>2 DEF TypeOK
  <2> QED BY <1>1, <1>2, <1>3, <2>1 DEF TypeOK, clientVars
<1>5. RegistryExact'
  BY <1>1, <1>2, RegistryUntouched
<1>6. ASSUME NEW d \in Conns PROVE SocketInv(d)'
  <2>1. CASE d = c
    <3>1. Replied(c)' = Replied(c)
      BY <1>2 DEF Replied
    <3>2. Clean(c)' /\ InHand(c)'
      BY <1>1, <1>2 DEF Clean, InHand, SocketInv
    <3>3. OneCommand(c)' /\ FlagAgrees(c)' /\ EventsPrecede(c)'
      BY <1>1, <1>2, <3>1 DEF OneCommand, FlagAgrees, EventsPrecede, SocketInv, clientVars
    <3>4. Fitting(c)'
      BY <1>1, <1>2 DEF Fitting, Fits, SocketInv, clientVars
    <3> QED BY <2>1, <3>2, <3>3, <3>4 DEF SocketInv
  <2>2. CASE d # c
    <3>1. Same(d) /\ SocketInv(d) /\ row' = row /\ row[Owner[d]] \in Nat
      BY <1>1, <1>2, <1>3, <2>2, GatewayAssumption DEF Same, clientVars, IInv
    <3> QED BY <1>1, <3>1, SocketUntouched
  <2> QED BY <2>1, <2>2
<1>7. ASSUME NEW x \in Writers PROVE Walk(x)'
  <2>1. Walk(x) /\ todo'[x] \subseteq todo[x]
    BY <1>1, <1>2 DEF IInv, TypeOK
  <2>2. \A y : Registered(y)' = Registered(y)
    BY <1>2 DEF Registered
  <2> QED BY <1>2, <2>1, <2>2 DEF Walk
<1>8. AckedStored'
  BY <1>2 DEF IInv, AckedStored
<1>9. ASSUME NEW d \in Conns, NEW v, Served(d, v) PROVE Served(d, v)'
  <2>1. slow[d] => slow'[d]
    BY <1>3
  <2>2. queue[d] > 0 => queue'[d] > 0
    BY <1>3
  <2> QED BY <1>2, <1>9, <2>1, <2>2 DEF Served, Open, Pending, Reloading, clientVars
<1>10. AllServed'
  <2>1. ASSUME NEW d \in Conns PROVE Served(d, acked[Owner[d]])'
    <3>1. PICK v : v = acked[Owner[d]]
      OBVIOUS
    <3>2. Served(d, v)'
      BY <1>9, <3>1 DEF IInv, AllServed
    <3> QED BY <1>2, <3>1, <3>2 DEF Served, Reloading
  <2>2. ASSUME NEW d \in Conns, NEW x \in Writers, Passed(x, d)' PROVE Served(d, job[x].version)'
    <3>1. CASE Passed(x, d)
      <4>1. PICK v : v = job[x].version
        OBVIOUS
      <4>2. Served(d, v)'
        BY <1>9, <3>1, <4>1 DEF IInv, AllServed
      <4> QED BY <1>2, <4>1, <4>2 DEF Served, Reloading
    <3>2. CASE ~Passed(x, d)
      <4>1. x = w /\ d = c
        BY <1>1, <1>2, <2>2, <3>2 DEF Passed, TypeOK
      <4>2. following[c] => enabled[c]
        BY <1>1 DEF SocketInv, FlagAgrees
      <4> QED BY <1>2, <1>3, <4>1, <4>2 DEF Served, Pending, clientVars
    <3> QED BY <3>1, <3>2
  <2> QED BY <2>1, <2>2 DEF AllServed
<1> QED BY <1>4, <1>5, <1>6, <1>7, <1>8, <1>10 DEF IInv

----------------------------------------------------------------------------
(* The specification                                                       *)

LEMMA InitHolds == Init => IInv
<1> SUFFICES ASSUME Init PROVE IInv
  OBVIOUS
<1>1. \A c \in Conns : /\ pc[c] = "off" /\ pc[c] \notin HubLabels /\ ~Open(c)
                       /\ queue[c] = 0 /\ hand[c] = Nothing /\ wire[c] = <<>>
                       /\ waiting[c] = "none" /\ known[c] = 0
                       /\ ~enabled[c] /\ ~slow[c] /\ ~frame[c] /\ ~following[c] /\ ~due[c]
  BY DEF Init, HubLabels, OpenLabels, Open
<1>2. TypeOK
  <2>1. /\ permits \in 0..MaxConnections /\ pc \in [Conns -> Labels] /\ hub \subseteq Conns
        /\ queue \in [Conns -> 0..QueueCapacity]
        /\ hand \in [Conns -> Messages \cup {Nothing}]
    BY GatewayAssumption DEF Init, Labels
  <2>2. /\ wire \in [Conns -> Seq(Messages)] /\ \A c \in Conns : Len(wire[c]) <= WireCapacity
    BY GatewayAssumption DEF Init
  <2>3. /\ enabled \in [Conns -> BOOLEAN] /\ slow \in [Conns -> BOOLEAN]
        /\ frame \in [Conns -> BOOLEAN] /\ following \in [Conns -> BOOLEAN]
        /\ due \in [Conns -> BOOLEAN] /\ shutdown \in BOOLEAN
        /\ waiting \in [Conns -> {"none", "subscribe", "unsubscribe", "get"}]
    BY DEF Init
  <2>4. /\ known \in [Conns -> Versions] /\ row \in [Owners -> Versions]
        /\ acked \in [Owners -> Versions] /\ wpc \in [Writers -> {"idle", "publish", "notify"}]
        /\ job \in [Writers -> Jobs \cup {NoJob}] /\ todo \in [Writers -> SUBSET Conns]
    BY GatewayAssumption DEF Init, Versions
  <2> QED BY <2>1, <2>2, <2>3, <2>4 DEF TypeOK
<1>3. RegistryExact
  <2>1. hub = {} /\ permits = MaxConnections
    BY DEF Init
  <2>2. {c \in Conns : pc[c] # "off"} = {} /\ {c \in Conns : pc[c] \in HubLabels} = {}
    BY <1>1
  <2>3. \A o : Registered(o) = {}
    BY <2>1 DEF Registered
  <2> QED BY <2>1, <2>2, <2>3, FS_EmptySet, GatewayAssumption DEF RegistryExact
<1>4. ASSUME NEW c \in Conns PROVE SocketInv(c)
  <2>1. ~Replied(c)
    BY <1>1, MessageValues DEF Replied, IsReply
  <2>2. row[Owner[c]] = 0
    BY GatewayAssumption DEF Init
  <2>3. Clean(c) /\ InHand(c) /\ OneCommand(c) /\ FlagAgrees(c) /\ EventsPrecede(c)
    BY <1>1, <2>1, MessageValues
       DEF Clean, InHand, OneCommand, FlagAgrees, EventsPrecede, IsReply
  <2>4. Fitting(c)
    BY <1>1, <2>2, MessageValues DEF Fitting, Fits
  <2> QED BY <2>3, <2>4 DEF SocketInv
<1>5. (\A w \in Writers : Walk(w)) /\ AckedStored
  BY DEF Init, Walk, AckedStored
<1>6. AllServed
  BY <1>1 DEF AllServed, Served
<1> QED BY <1>2, <1>3, <1>4, <1>5, <1>6 DEF IInv

LEMMA NextHolds == IInv /\ [Next]_vars => IInv'
<1> SUFFICES ASSUME IInv, [Next]_vars PROVE IInv'
  OBVIOUS
<1>1. CASE UNCHANGED vars
  <2>1. TypeOK' /\ (\A x \in Owners : row[x] \in Nat /\ row[x] <= row'[x])
    BY <1>1, GatewayAssumption DEF IInv, TypeOK, vars, socketVars, clientVars, writerVars, Versions
  <2>2. (\A x \in Writers : Walk(x)') /\ AckedStored'
    BY <1>1 DEF IInv, Walk, AckedStored, Registered, vars, socketVars, writerVars
  <2>3. AllServed'
    BY <1>1, StillServed DEF vars, writerVars, Passed
  <2> QED BY <1>1, <2>1, <2>2, <2>3, WriterStepHolds DEF vars
<1>2. ASSUME NEW c \in Conns,
             TakePermit(c) \/ SocketStep(c) \/ Leave(c) \/ Receive(c)
             \/ \E command \in Commands : Ask(c, command)
      PROVE  IInv'
  <2>1. CASE TakePermit(c) \/ Connect(c) \/ ReturnPermit(c)
    BY <2>1, TakePermitHolds, ConnectHolds, ReturnPermitHolds
  <2>2. CASE Poll(c) \/ SendTimeout(c) \/ Leave(c) \/ Close(c)
    BY <2>2, PollHolds
  <2>3. CASE PollEvent(c) \/ PollFrame(c) \/ Dispatch(c)
    BY <2>3, PollEventHolds, PollFrameHolds, DispatchHolds
  <2>4. CASE Send(c) \/ Drop(c)
    BY <2>4, SendHolds, DropHolds
  <2>5. CASE Receive(c) \/ \E command \in Commands : Ask(c, command)
    BY <2>5, ReceiveHolds, AskHolds
  <2> QED BY <1>2, <2>1, <2>2, <2>3, <2>4, <2>5 DEF SocketStep
<1>3. ASSUME NEW w \in Writers,
             WriterStep(w) \/ Lose(w) \/ \E o \in Owners : Write(w, o)
      PROVE  IInv'
  BY <1>3, StartPublishHolds, EndPublishHolds, NotifyHolds, LoseHolds, WriteHolds DEF WriterStep
<1>4. CASE Cancel
  BY <1>4, CancelHolds
<1> QED BY <1>1, <1>2, <1>3, <1>4 DEF Next

LEMMA Invariance == Spec => []IInv
BY InitHolds, NextHolds, PTL DEF Spec

(* Queues and wires stay within their capacities, for any number of        *)
(* sockets and publishers (models/events.rs:33-57, api/gateway.rs).        *)
THEOREM TypesCorrect == Spec => []TypeOK
BY Invariance, PTL DEF IInv

(* The hub lists exactly the open and closing sockets, no more of an owner *)
(* than allowed, and no permit leaks (models/events.rs:33-44, 60-69,       *)
(* api/gateway.rs).                                                        *)
THEOREM HubExact == Spec => []RegistryExact
BY Invariance, PTL DEF IInv

(* No event follows the answer to an unsubscription (api/gateway.rs:       *)
(* 103-135).                                                               *)
THEOREM SilenceAfterUnsubscribe == Spec => []QuietAfterUnsubscribe
<1>1. ASSUME IInv, NEW c \in Conns, ~following[c], waiting[c] = "none", NEW i \in DOMAIN wire[c]
      PROVE  wire[c][i].kind # "event"
  <2>1. ~enabled[c]
    BY <1>1 DEF IInv, SocketInv, FlagAgrees
  <2> QED BY <1>1, <2>1 DEF IInv, SocketInv, EventsPrecede
<1>2. IInv => QuietAfterUnsubscribe
  BY <1>1 DEF QuietAfterUnsubscribe
<1> QED BY <1>2, Invariance, PTL

(* A subscribed client never settles on an old state, with any number of   *)
(* changes published at the same time (models/events.rs:46-57).            *)
THEOREM NothingMissed == Spec => []NoMissedUpdate
<1>1. IInv => NoMissedUpdate
  BY DEF IInv, AllServed, Served, NoMissedUpdate
<1> QED BY <1>1, Invariance, PTL

\* What a client knows never becomes older while its socket is in the hub.
ClientsAdvance == \A c \in Conns : known[c] <= known'[c] \/ c \notin hub'

(* However snapshots, events and changes overtake each other, no answer    *)
(* takes a client back to a state older than the one it has: the commands  *)
(* of a socket are answered one at a time, each from the row as it is then *)
(* (api/gateway.rs:103-135).                                               *)
THEOREM KnowledgeAdvances == Spec => [][ClientsAdvance]_vars
<1>1. IInv /\ [Next]_vars => ClientsAdvance \/ UNCHANGED vars
  <2> SUFFICES ASSUME IInv, [Next]_vars PROVE ClientsAdvance \/ UNCHANGED vars
    OBVIOUS
  <2>1. \A d \in Conns : known[d] \in Nat
    BY GatewayAssumption DEF IInv, TypeOK, Versions
  <2>2. CASE UNCHANGED known
    BY <2>1, <2>2 DEF ClientsAdvance
  <2>3. ASSUME NEW c \in Conns, Receive(c), ~ UNCHANGED known
        PROVE  ClientsAdvance
    <3>1. /\ wire[c] # <<>> /\ Head(wire[c]).kind = "state"
          /\ known' = [known EXCEPT ![c] = Head(wire[c]).version]
      BY <2>3 DEF Receive
    <3>2. 1 \in DOMAIN wire[c] /\ Head(wire[c]) = wire[c][1]
      BY <3>1 DEF IInv, TypeOK
    <3>3. known[c] <= Head(wire[c]).version
      BY <3>1, <3>2 DEF IInv, SocketInv, Fitting, Fits
    <3>4. known \in [Conns -> Versions]
      BY DEF IInv, TypeOK
    <3>5. known'[c] = Head(wire[c]).version /\ \A d \in Conns \ {c} : known'[d] = known[d]
      BY <3>1, <3>4
    <3> QED BY <2>1, <3>3, <3>5 DEF ClientsAdvance
  <2>4. ASSUME NEW c \in Conns, Drop(c)
        PROVE  ClientsAdvance
    <3>1. c \notin hub' /\ \A d \in Conns \ {c} : known'[d] = known[d]
      BY <2>4 DEF Drop, IInv, TypeOK
    <3> QED BY <2>1, <3>1 DEF ClientsAdvance
  <2>5. ASSUME NEW c \in Conns,
               TakePermit(c) \/ SocketStep(c) \/ Leave(c)
               \/ \E command \in Commands : Ask(c, command)
        PROVE  UNCHANGED known \/ Drop(c)
    BY <2>5 DEF TakePermit, SocketStep, Connect, Poll, PollEvent, PollFrame, Dispatch, Send,
       SendTimeout, Leave, Close, ReturnPermit, Ask, clientVars
  <2>6. ASSUME NEW w \in Writers,
               WriterStep(w) \/ Lose(w) \/ \E o \in Owners : Write(w, o)
        PROVE  UNCHANGED known
    BY <2>6 DEF WriterStep, StartPublish, EndPublish, Notify, Lose, Write, clientVars
  <2>7. CASE Cancel
    BY <2>2, <2>7 DEF Cancel, clientVars
  <2> QED BY <2>2, <2>3, <2>4, <2>5, <2>6, <2>7 DEF Next
<1> QED BY <1>1, Invariance, PTL DEF Spec
=============================================================================
