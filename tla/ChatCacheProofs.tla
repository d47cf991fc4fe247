-------------------------- MODULE ChatCacheProofs --------------------------
(***************************************************************************)
(* Safety of the write-behind cache for any number of clients, users and   *)
(* operations and for every queue, batch and history size.                 *)
(*                                                                         *)
(* The argument is about numbers: operations are decided in the order of   *)
(* their numbers, so whatever is still undecided is younger than every     *)
(* row, every promise and every acknowledged barrier (Fifo, Settled,       *)
(* BarrierHolds); a transaction contains committed rows and the saves it   *)
(* has applied, and no row that one of its clears should have removed      *)
(* (Transaction); and a Clear that somebody waits for is either queued, or *)
(* in the batch, or done (PendingClears).                                  *)
(*                                                                         *)
(* From there, two more: the cache implements ChatLog (Logged), and nobody *)
(* waits in vain (Waits).                                                  *)
(***************************************************************************)
EXTENDS ChatCache, FiniteSetTheorems, FunctionTheorems, SequenceTheorems,
  WellFoundedInduction, TLAPS

Position ==
  /\ writer \in {"recv", "exit", "stopped"} => batch = <<>>
  /\ writer = "write" => next \in 1..(Len(batch) + 1)
  /\ writer = "stopped" => queue = <<>>
  /\ \A c \in Callers : pc[c] = "clear" => target[c] \in Users

Fifo ==
  /\ \A i, j \in DOMAIN batch : i < j => batch[i].no < batch[j].no
  /\ \A i, j \in DOMAIN queue : i < j => queue[i].no < queue[j].no
  /\ \A i \in DOMAIN batch, j \in DOMAIN queue : batch[i].no < queue[j].no
  /\ \A n \in Undecided : n <= sent

Numbered ==
  \A c \in Callers :
    /\ clearNo[c] <= sent /\ barrierNo[c] <= sent
    /\ pc[c] = "await" /\ clearNo[c] # 0 => clearNo[c] < barrierNo[c]
    /\ pc[c] = "shutdown" => clearNo[c] = 0

Settled ==
  /\ \A r \in rows : r.turn <= sent /\ \A n \in Undecided : r.turn < n
  /\ \A u \in Users : \A m \in promised[u] : m <= sent /\ \A n \in Undecided : m < n

Applied(r) == \E i \in DOMAIN batch : /\ i < next /\ batch[i].kind = "save"
                                      /\ batch[i].user = r.user /\ batch[i].no = r.turn

Transaction ==
  writer = "write" =>
    /\ \A r \in txn : r \in rows \/ Applied(r)
    /\ \A i \in DOMAIN batch : i < next /\ batch[i].kind = "clear" =>
         \A r \in txn : r.user = batch[i].user => r.turn > batch[i].no

\* S is a table: finite, its ids issued, unique and in the order of its turns.
Tabular(S) == /\ IsFiniteSet(S)
              /\ \A r \in S : r.id <= lastId
              /\ \A r, s \in S : r.id = s.id => r = s
              /\ \A r, s \in S : r.id < s.id => r.turn < s.turn

Tables == Tabular(rows) /\ (writer = "write" => Tabular(txn))

ClearIn(s, c) == \E i \in DOMAIN s :
                   s[i].kind = "clear" /\ s[i].user = target[c] /\ s[i].no = clearNo[c]

ClearDone(c) == /\ \A r \in rows : r.user = target[c] => r.turn > clearNo[c]
                /\ \A n \in Undecided : n > clearNo[c]

PendingClears ==
  Open => \A c \in Callers :
    pc[c] \in {"flush", "await"} /\ clearNo[c] \notin failedClears \cup {0} =>
      ClearIn(batch, c) \/ ClearIn(queue, c) \/ ClearDone(c)

Typed == TypeOK /\ Position
Inv == /\ Typed /\ Fifo /\ Numbered /\ Settled /\ Transaction /\ Tables /\ PendingClears
       /\ BarrierHolds /\ ClearErases /\ HistoryBounded

----------------------------------------------------------------------------
(* Sequences of operations.                                                *)

LEMMA TailOps ==
  ASSUME NEW s \in Seq(Ops), s # <<>>
  PROVE  /\ Head(s) \in Ops /\ Tail(s) \in Seq(Ops) /\ Len(Tail(s)) = Len(s) - 1
         /\ 1 \in DOMAIN s /\ Head(s) = s[1]
         /\ \A i \in DOMAIN Tail(s) : i + 1 \in DOMAIN s /\ Tail(s)[i] = s[i + 1]
         /\ \A i \in DOMAIN s : i # 1 => i - 1 \in DOMAIN Tail(s) /\ Tail(s)[i - 1] = s[i]
  OBVIOUS

LEMMA AppendOps ==
  ASSUME NEW s \in Seq(Ops), NEW op \in Ops
  PROVE  /\ Append(s, op) \in Seq(Ops) /\ Len(Append(s, op)) = Len(s) + 1
         /\ Append(s, op)[Len(s) + 1] = op
         /\ Len(s) + 1 \in DOMAIN Append(s, op) /\ Len(s) + 1 \notin DOMAIN s
         /\ \A i \in DOMAIN s : i \in DOMAIN Append(s, op) /\ Append(s, op)[i] = s[i]
         /\ \A i \in DOMAIN Append(s, op) : i = Len(s) + 1 \/ (i \in DOMAIN s /\ i < Len(s) + 1)
         /\ \A i \in DOMAIN s : i < Len(s) + 1
  OBVIOUS

LEMMA RemoveCaller ==
  ASSUME NEW s \in Seq(Callers), NEW i \in DOMAIN s
  PROVE  SubSeq(s, 1, i - 1) \o SubSeq(s, i + 1, Len(s)) \in Seq(Callers)
<1>1. i \in 1..Len(s) /\ Len(s) \in Nat
  OBVIOUS
<1>2. SubSeq(s, 1, i - 1) \in Seq(Callers)
  <2>1. \A k \in 1..(i - 1) : s[k] \in Callers
    BY <1>1
  <2> QED
    BY <1>1, <2>1, SubSeqProperties
<1>3. SubSeq(s, i + 1, Len(s)) \in Seq(Callers)
  <2>1. \A k \in (i + 1)..Len(s) : s[k] \in Callers
    BY <1>1
  <2> QED
    BY <1>1, <2>1, SubSeqProperties
<1> QED
  BY <1>2, <1>3, ConcatProperties

----------------------------------------------------------------------------
(* Types.                                                                  *)

LEMMA InitTyped == Init => Typed
<1> SUFFICES ASSUME Init PROVE Typed
  OBVIOUS
<1> QED
  BY ChatCacheAssumption DEF Init, Typed, TypeOK, Position, Callers, ClientLabels, Numbers

LEMMA UnblockType ==
  ASSUME blocked \in Seq(Callers), NEW c, Unblock(c)
  PROVE  blocked' \in Seq(Callers)
  BY RemoveCaller DEF Unblock

LEMMA EnqueueType ==
  ASSUME TypeOK, NEW kind \in {"save", "clear", "flush", "shutdown"},
         NEW u \in Users \cup {Nobody}, kind \in {"save", "clear"} => u \in Users,
         Enqueue(kind, u), Len(queue) < Capacity
  PROVE  /\ queue' \in Seq(Ops) /\ Len(queue') <= Capacity
         /\ sent' \in Nat /\ sent' = sent + 1
         /\ queue' = Append(queue, [kind |-> kind, user |-> u, no |-> sent + 1])
         /\ [kind |-> kind, user |-> u, no |-> sent + 1] \in Ops
<1>1. [kind |-> kind, user |-> u, no |-> sent + 1] \in Ops
  BY DEF Ops, Numbers, TypeOK
<1> QED
  BY <1>1, AppendOps, ChatCacheAssumption DEF Enqueue, TypeOK

LEMMA SlotFree ==
  ASSUME TypeOK, SlotForNewcomer \/ \E i \in DOMAIN blocked : i <= FreeSlots
  PROVE  Len(queue) < Capacity
  BY ChatCacheAssumption DEF TypeOK, SlotForNewcomer, FreeSlots

LEMMA SentType ==
  ASSUME Typed, NEW c \in Callers, Sent(c), Sending(c), Len(queue) < Capacity
  PROVE  /\ pc' \in [Callers -> ClientLabels \cup MainLabels]
         /\ clearNo' \in [Callers -> Nat] /\ barrierNo' \in [Callers -> Nat]
         /\ queue' \in Seq(Ops) /\ Len(queue') <= Capacity /\ sent' \in Nat
         /\ \A d \in Callers : pc'[d] = "clear" => pc[d] = "clear"
<1>1. target[c] \in Users \cup {Nobody} /\ (pc[c] = "clear" => target[c] \in Users) /\ TypeOK
  BY DEF Typed, TypeOK, Position
<1>2. queue' \in Seq(Ops) /\ Len(queue') <= Capacity /\ sent' \in Nat
  BY <1>1, EnqueueType DEF Sent, Sending
<1>3. sent + 1 \in Nat
  BY <1>1 DEF TypeOK
<1>4. /\ pc' \in [Callers -> ClientLabels \cup MainLabels]
      /\ \A d \in Callers : pc'[d] = "clear" => pc[d] = "clear"
      /\ clearNo' \in [Callers -> Nat] /\ barrierNo' \in [Callers -> Nat]
  BY <1>1, <1>3 DEF Sent, TypeOK, ClientLabels
<1> QED
  BY <1>2, <1>4

LEMMA CallersTyped ==
  ASSUME Typed, NEW c \in Callers,
         \/ \E u \in Users : Save(c, u) \/ CallClear(c, u)
         \/ CallFlush(c) \/ CallShutdown \/ Progress(c) \/ Abandon(c)
  PROVE  Typed'
<1> USE DEF Typed, TypeOK, Position
<1>1. ASSUME NEW u \in Users, Save(c, u) PROVE Typed'
  BY <1>1, SlotFree, EnqueueType DEF Save, callerVars, writerVars, tableVars, Open
<1>2. CASE (\E u \in Users : CallClear(c, u)) \/ CallFlush(c) \/ CallShutdown
  <2>1. PICK d \in Callers, label \in {"clear", "flush", "shutdown"},
             v \in Users \cup {Nobody} : Call(d, label, v) /\ (label = "clear" => v \in Users)
    BY <1>2 DEF CallClear, CallFlush, CallShutdown, Callers
  <2>2. /\ pc' \in [Callers -> ClientLabels \cup MainLabels]
        /\ target' \in [Callers -> Users \cup {Nobody}]
        /\ clearNo' \in [Callers -> Nat] /\ barrierNo' \in [Callers -> Nat]
        /\ \A e \in Callers : pc'[e] = "clear" => target'[e] \in Users
    BY <2>1 DEF Call, ClientLabels, MainLabels
  <2> QED
    BY <2>1, <2>2 DEF Call, writerVars, tableVars
<1>3. CASE Send(c)
  <2>1. CASE SlotForNewcomer /\ Sent(c) /\ UNCHANGED blocked
    BY <1>3, <2>1, SlotFree, SentType DEF Send, writerVars, tableVars, Open
  <2>2. CASE blocked' = Append(blocked, c) /\ UNCHANGED <<pc, clearNo, barrierNo, queue, sent>>
    BY <1>3, <2>2 DEF Send, writerVars, tableVars
  <2> QED
    BY <1>3, <2>1, <2>2 DEF Send
<1>4. CASE SendBlocked(c)
  BY <1>4, SlotFree, SentType, UnblockType DEF SendBlocked, writerVars, tableVars, Open
<1>5. CASE SendClosed(c)
  BY <1>5, UnblockType DEF SendClosed, writerVars, tableVars, ClientLabels, MainLabels
<1>6. CASE Return(c)
  BY <1>6 DEF Return, writerVars, tableVars, ClientLabels, MainLabels
<1>7. CASE Abandon(c)
  BY <1>7, UnblockType DEF Abandon, writerVars, tableVars, ClientLabels
<1> QED
  BY <1>1, <1>2, <1>3, <1>4, <1>5, <1>6, <1>7 DEF Progress

LEMMA WriterTyped ==
  ASSUME Typed, WriterStep
  PROVE  Typed'
<1> USE DEF Typed, TypeOK, Position
<1>1. CASE Receive
  <2>1. Head(queue) \in Ops /\ Tail(queue) \in Seq(Ops) /\ Len(Tail(queue)) <= Capacity
    BY <1>1, TailOps, ChatCacheAssumption DEF Receive
  <2>2. <<Head(queue)>> \in Seq(Ops) /\ Len(<<Head(queue)>>) <= BatchSize
    BY <2>1, ChatCacheAssumption
  <2> QED
    BY <1>1, <2>1, <2>2 DEF Receive, callerVars, tableVars
<1>2. CASE TryReceive
  <2>1. Head(queue) \in Ops /\ Tail(queue) \in Seq(Ops) /\ Len(Tail(queue)) <= Capacity
    BY <1>2, TailOps, ChatCacheAssumption DEF TryReceive
  <2>2. Append(batch, Head(queue)) \in Seq(Ops) /\ Len(Append(batch, Head(queue))) <= BatchSize
    BY <1>2, <2>1, ChatCacheAssumption DEF TryReceive
  <2> QED
    BY <1>2, <2>1, <2>2 DEF TryReceive, callerVars, tableVars
<1>3. CASE BeginBatch
  BY <1>3 DEF BeginBatch, callerVars, tableVars
<1>4. CASE Apply
  <2>1. batch[next] \in Ops /\ next \in DOMAIN batch
    BY <1>4 DEF Apply
  <2>2. next + 1 \in 1..(Len(batch) + 1) /\ next + 1 \in Nat
    BY <2>1
  <2>3. txn' \subseteq Rows /\ lastId' \in Nat
    <3>1. CASE batch[next].kind = "save" /\ batch[next].user \in Users
      BY <1>4, <2>1, <3>1 DEF Apply, Rows, Ops
    <3>2. CASE batch[next].kind # "save"
      BY <1>4, <3>2 DEF Apply, Cleared
    <3> QED
      BY <1>4, <2>1, <3>1, <3>2 DEF Ops
  <2> QED
    BY <1>4, <2>2, <2>3 DEF Apply, callerVars
<1>5. CASE Commit
  <2>1. rows' \subseteq Rows
    BY <1>5 DEF Commit, Trimmed
  <2>2. \A u \in Users : Honoured(u) \subseteq Numbers
    BY DEF Honoured, Waiting, Numbers
  <2>3. promised' \in [Users -> SUBSET Numbers]
    BY <1>5, <2>2 DEF Commit
  <2>4. pc' \in [Callers -> ClientLabels \cup MainLabels]
    BY <1>5 DEF Commit, EndBatch, ClientLabels, MainLabels
  <2> QED
    BY <1>5, <2>1, <2>3, <2>4, ChatCacheAssumption DEF Commit, EndBatch
<1>6. CASE Fail
  <2>1. failedClears' \subseteq Numbers
    <3>1. \A i \in DOMAIN batch : batch[i].no \in Numbers
      BY DEF Ops
    <3> QED
      BY <1>6, <3>1 DEF Fail
  <2>2. pc' \in [Callers -> ClientLabels \cup MainLabels]
    BY <1>6 DEF Fail, EndBatch, ClientLabels, MainLabels
  <2> QED
    BY <1>6, <2>1, <2>2, ChatCacheAssumption DEF Fail, EndBatch
<1>7. CASE Exit
  <2>1. pc' \in [Callers -> ClientLabels \cup MainLabels]
    BY <1>7 DEF Exit, ClientLabels, MainLabels
  <2> QED
    BY <1>7, <2>1, ChatCacheAssumption DEF Exit, tableVars
<1> QED
  BY <1>1, <1>2, <1>3, <1>4, <1>5, <1>6, <1>7 DEF WriterStep

LEMMA RestartTyped ==
  ASSUME Typed, Restart
  PROVE  Typed'
  BY ChatCacheAssumption DEF Typed, TypeOK, Position, Restart, tableVars, ClientLabels, MainLabels

----------------------------------------------------------------------------
(* Steps of callers that send nothing.                                     *)

rest == <<queue, writerVars, tableVars, sent>>

LEMMA RestKeeps ==
  ASSUME Inv, UNCHANGED rest
  PROVE  /\ Fifo' /\ Settled' /\ Transaction' /\ Tables' /\ ClearErases' /\ HistoryBounded'
         /\ Undecided' = Undecided /\ Open' = Open
<1> USE DEF Inv, rest, writerVars, tableVars
<1>1. Undecided' = Undecided /\ Open' = Open
  BY DEF Undecided, Open
<1>2. Fifo' /\ Settled'
  BY <1>1 DEF Fifo, Settled
<1>3. Transaction'
  BY DEF Transaction, Applied
<1>4. Tables'
  BY DEF Tables, Tabular
<1>5. ClearErases' /\ HistoryBounded'
  BY DEF ClearErases, HistoryBounded
<1> QED
  BY <1>1, <1>2, <1>3, <1>4, <1>5

SameCaller(c) == /\ pc'[c] = pc[c] /\ target'[c] = target[c]
                 /\ clearNo'[c] = clearNo[c] /\ barrierNo'[c] = barrierNo[c]

\* c starts a call, gives one up, or is told that the writer has gone.
Starts(c) == /\ pc'[c] \in {"clear", "flush", "shutdown"}
             /\ clearNo'[c] = 0 /\ barrierNo'[c] = 0
Ends(c)   == /\ pc'[c] \in {"idle", "err", "done"} \/ (pc'[c] = "join" /\ Undecided = {})
             /\ clearNo'[c] = clearNo[c] /\ barrierNo'[c] = barrierNo[c]

LEMMA QuietKeeps ==
  ASSUME Inv, Typed', UNCHANGED rest,
         \A c \in Callers : SameCaller(c) \/ Starts(c) \/ Ends(c)
  PROVE  Inv'
<1>1. UNCHANGED <<queue, batch, rows, failedClears, sent>>
  BY DEF rest, writerVars, tableVars
<1>2. sent \in Nat
  BY DEF Inv, Typed, TypeOK
<1>3. Numbered'
  BY <1>1, <1>2 DEF Inv, Numbered, SameCaller, Starts, Ends
<1>4. BarrierHolds'
  BY RestKeeps DEF Inv, BarrierHolds, SameCaller, Starts, Ends
<1>5. ASSUME NEW c \in Callers, SameCaller(c), ClearIn(batch, c) \/ ClearIn(queue, c) \/ ClearDone(c)
      PROVE  ClearIn(batch, c)' \/ ClearIn(queue, c)' \/ ClearDone(c)'
  BY <1>1, <1>5, RestKeeps DEF SameCaller, ClearIn, ClearDone
<1>6. PendingClears'
  BY <1>1, <1>5, RestKeeps DEF Inv, PendingClears, SameCaller, Starts, Ends
<1> QED
  BY <1>3, <1>4, <1>6, RestKeeps DEF Inv

LEMMA StepQuiet ==
  ASSUME Inv, NEW c \in Callers,
         \/ \E u \in Users : CallClear(c, u)
         \/ CallFlush(c) \/ CallShutdown \/ SendClosed(c) \/ Return(c) \/ Abandon(c)
         \/ Send(c) /\ UNCHANGED <<pc, clearNo, barrierNo, queue, sent>>
  PROVE  Inv'
<1>0. Typed'
  BY CallersTyped DEF Inv, Progress
<1>1. UNCHANGED rest
  BY DEF CallClear, CallFlush, CallShutdown, Call, SendClosed, Return, Abandon, Send, rest,
     writerVars, tableVars
<1>2. pc \in [Callers -> ClientLabels \cup MainLabels] /\ target \in [Callers -> Users \cup {Nobody}]
      /\ clearNo \in [Callers -> Nat] /\ barrierNo \in [Callers -> Nat]
  BY DEF Inv, Typed, TypeOK
<1>3. ASSUME NEW d \in Callers PROVE SameCaller(d) \/ Starts(d) \/ Ends(d)
  <2>1. CASE (\E u \in Users : CallClear(c, u)) \/ CallFlush(c) \/ CallShutdown
    BY <1>2, <2>1 DEF CallClear, CallFlush, CallShutdown, Call, SameCaller, Starts, Callers
  <2>2. CASE SendClosed(c)
    <3>1. Undecided = {}
      BY <2>2 DEF SendClosed, Open, Inv, Typed, Position, Undecided
    <3> QED
      BY <1>2, <2>2, <3>1 DEF SendClosed, SameCaller, Ends
  <2>3. CASE Return(c) \/ Abandon(c)
    BY <1>2, <2>3 DEF Return, Abandon, SameCaller, Ends
  <2>4. CASE Send(c) /\ UNCHANGED <<pc, clearNo, barrierNo, queue, sent>>
    BY <2>4 DEF Send, SameCaller
  <2> QED
    BY <2>1, <2>2, <2>3, <2>4
<1> QED
  BY <1>0, <1>1, <1>3, QuietKeeps

----------------------------------------------------------------------------
(* Steps of callers that put an operation into the channel.                *)

LEMMA EnqueueKeeps ==
  ASSUME Inv, NEW op \in Ops, op.no = sent + 1, sent' = sent + 1,
         queue' = Append(queue, op), UNCHANGED <<writerVars, tableVars>>
  PROVE  /\ Fifo' /\ Settled' /\ Transaction' /\ Tables' /\ ClearErases' /\ HistoryBounded'
         /\ Undecided' = Undecided \cup {sent + 1} /\ Open' = Open
<1> USE DEF Inv, writerVars, tableVars
<1>0. /\ queue \in Seq(Ops) /\ sent \in Nat /\ batch \in Seq(Ops)
      /\ rows \subseteq Rows /\ promised \in [Users -> SUBSET Numbers]
  BY DEF Typed, TypeOK
<1>1. /\ \A i \in DOMAIN queue : i \in DOMAIN queue' /\ queue'[i] = queue[i] /\ i < Len(queue) + 1
      /\ Len(queue) + 1 \in DOMAIN queue' /\ queue'[Len(queue) + 1].no = sent + 1
      /\ \A i \in DOMAIN queue' : i = Len(queue) + 1 \/ (i \in DOMAIN queue /\ i < Len(queue) + 1)
  BY <1>0, AppendOps
<1>2. Undecided' = Undecided \cup {sent + 1} /\ Open' = Open
  <2>1. batch' = batch /\ Open' = Open
    BY DEF Open
  <2>2. {queue'[i].no : i \in DOMAIN queue'} = {queue[i].no : i \in DOMAIN queue} \cup {sent + 1}
    <3>1. ASSUME NEW i \in DOMAIN queue'
          PROVE  queue'[i].no \in {queue[j].no : j \in DOMAIN queue} \cup {sent + 1}
      BY <1>1
    <3>2. \A i \in DOMAIN queue : queue[i].no \in {queue'[j].no : j \in DOMAIN queue'}
      BY <1>1
    <3>3. sent + 1 \in {queue'[j].no : j \in DOMAIN queue'}
      BY <1>1
    <3> QED
      BY <3>1, <3>2, <3>3
  <2> QED
    BY <2>1, <2>2 DEF Undecided
<1>3. \A n \in Undecided : n \in Nat /\ n <= sent
  BY <1>0 DEF Fifo, Undecided, Ops, Numbers
<1>4. Fifo'
  <2>1. ASSUME NEW i \in DOMAIN queue', NEW j \in DOMAIN queue', i < j
        PROVE  queue'[i].no < queue'[j].no
    <3>1. i \in DOMAIN queue
      BY <1>0, <1>1, <2>1
    <3>2. queue[i].no \in Undecided
      BY <3>1 DEF Undecided
    <3> QED
      BY <1>0, <1>1, <1>3, <2>1, <3>1, <3>2 DEF Fifo
  <2>2. ASSUME NEW i \in DOMAIN batch, NEW j \in DOMAIN queue'
        PROVE  batch[i].no < queue'[j].no
    <3>1. batch[i].no \in Undecided
      BY DEF Undecided
    <3> QED
      BY <1>0, <1>1, <1>3, <3>1 DEF Fifo
  <2>3. \A n \in Undecided' : n <= sent'
    BY <1>0, <1>2, <1>3
  <2> QED
    BY <2>1, <2>2, <2>3 DEF Fifo
<1>5. Settled'
  <2>1. \A r \in rows : r.turn \in Nat
    BY <1>0 DEF Rows, Numbers
  <2>2. \A u \in Users : \A m \in promised[u] : m \in Nat
    BY <1>0 DEF Numbers
  <2>3. \A r \in rows : r.turn <= sent' /\ \A n \in Undecided' : r.turn < n
    BY <1>0, <1>2, <2>1 DEF Settled
  <2>4. \A u \in Users : \A m \in promised[u] : m <= sent' /\ \A n \in Undecided' : m < n
    BY <1>0, <1>2, <2>2 DEF Settled
  <2> QED
    BY <2>3, <2>4 DEF Settled
<1>6. Transaction' /\ Tables' /\ ClearErases' /\ HistoryBounded'
  BY DEF Transaction, Applied, Tables, Tabular, ClearErases, HistoryBounded
<1> QED
  BY <1>2, <1>4, <1>5, <1>6

\* c puts op into the channel.
Sends(c, op) ==
  /\ target'[c] = target[c]
  /\ \/ /\ pc[c] = "clear" /\ pc'[c] = "flush"
        /\ op.kind = "clear" /\ op.user = target[c]
        /\ clearNo'[c] = sent + 1 /\ barrierNo'[c] = barrierNo[c]
     \/ /\ pc[c] \in {"flush", "shutdown"} /\ pc'[c] = "await"
        /\ clearNo'[c] = clearNo[c] /\ barrierNo'[c] = sent + 1

LEMMA SendingKeeps ==
  ASSUME Inv, Typed', NEW op \in Ops, op.no = sent + 1, sent' = sent + 1,
         queue' = Append(queue, op), UNCHANGED <<writerVars, tableVars>>,
         \A c \in Callers : SameCaller(c) \/ Sends(c, op)
  PROVE  Inv'
<1>0. /\ queue \in Seq(Ops) /\ sent \in Nat /\ UNCHANGED <<batch, rows, failedClears>>
      /\ \A c \in Callers : clearNo[c] \in Nat /\ barrierNo[c] \in Nat
  BY DEF Inv, Typed, TypeOK, writerVars, tableVars
<1>1. Undecided' = Undecided \cup {sent + 1} /\ Open' = Open
  BY EnqueueKeeps
<1>2. /\ \A i \in DOMAIN queue : i \in DOMAIN queue' /\ queue'[i] = queue[i]
      /\ Len(queue) + 1 \in DOMAIN queue' /\ queue'[Len(queue) + 1] = op
  BY <1>0, AppendOps
<1>3. Numbered'
  BY <1>0 DEF Inv, Numbered, SameCaller, Sends
<1>4. BarrierHolds'
  BY <1>0, <1>1 DEF Inv, BarrierHolds, Numbered, SameCaller, Sends
<1>5. ASSUME NEW c \in Callers, target'[c] = target[c], clearNo'[c] = clearNo[c],
             ClearIn(batch, c) \/ ClearIn(queue, c) \/ ClearDone(c)
      PROVE  ClearIn(batch, c)' \/ ClearIn(queue, c)' \/ ClearDone(c)'
  <2>1. CASE ClearIn(batch, c)
    BY <1>0, <1>5, <2>1 DEF ClearIn
  <2>2. CASE ClearIn(queue, c)
    BY <1>2, <1>5, <2>2 DEF ClearIn
  <2>3. CASE ClearDone(c)
    BY <1>0, <1>1, <1>5, <2>3 DEF ClearDone, Inv, Numbered
  <2> QED
    BY <1>5, <2>1, <2>2, <2>3
<1>6. ASSUME NEW c \in Callers, pc[c] = "clear", Sends(c, op)
      PROVE  ClearIn(queue, c)'
  BY <1>2, <1>6 DEF Sends, ClearIn
<1>7. ASSUME NEW c \in Callers, Open', pc'[c] \in {"flush", "await"},
             clearNo'[c] \notin failedClears' \cup {0}
      PROVE  ClearIn(batch, c)' \/ ClearIn(queue, c)' \/ ClearDone(c)'
  <2>1. CASE pc[c] = "clear" /\ Sends(c, op)
    BY <1>6, <2>1
  <2>2. CASE pc[c] = "shutdown" /\ Sends(c, op)
    BY <1>7, <2>2 DEF Sends, Inv, Numbered
  <2>3. CASE SameCaller(c) \/ (pc[c] = "flush" /\ Sends(c, op))
    <3>1. /\ target'[c] = target[c] /\ clearNo'[c] = clearNo[c]
          /\ pc[c] \in {"flush", "await"} /\ Open /\ clearNo[c] \notin failedClears \cup {0}
      BY <1>0, <1>1, <1>7, <2>3 DEF SameCaller, Sends
    <3> QED
      BY <1>5, <3>1 DEF Inv, PendingClears
  <2> QED
    BY <2>1, <2>2, <2>3 DEF Sends
<1>8. PendingClears'
  BY <1>7 DEF PendingClears
<1> QED
  BY <1>3, <1>4, <1>8, EnqueueKeeps DEF Inv

LEMMA StepSave ==
  ASSUME Inv, NEW c \in Callers, NEW u \in Users, Save(c, u)
  PROVE  Inv'
<1>1. Typed'
  BY CallersTyped DEF Inv
<1>2. TypeOK /\ Len(queue) < Capacity
  BY SlotFree DEF Save, Inv, Typed
<1> DEFINE op == [kind |-> "save", user |-> u, no |-> sent + 1]
<1>3. op \in Ops /\ op.no = sent + 1 /\ sent' = sent + 1 /\ queue' = Append(queue, op)
  BY <1>2, EnqueueType DEF Save
<1>4. UNCHANGED <<writerVars, tableVars>> /\ \A d \in Callers : SameCaller(d)
  BY DEF Save, callerVars, SameCaller
<1> HIDE DEF op
<1> QED
  BY <1>1, <1>3, <1>4, SendingKeeps

LEMMA StepSent ==
  ASSUME Inv, NEW c \in Callers, Sending(c), Sent(c), Len(queue) < Capacity, Typed',
         UNCHANGED <<target, writerVars, tableVars>>
  PROVE  Inv'
<1>1. /\ TypeOK /\ target[c] \in Users \cup {Nobody} /\ (pc[c] = "clear" => target[c] \in Users)
      /\ pc \in [Callers -> ClientLabels \cup MainLabels]
      /\ clearNo \in [Callers -> Nat] /\ barrierNo \in [Callers -> Nat]
  BY DEF Inv, Typed, TypeOK, Position
<1> DEFINE op == [kind |-> pc[c], user |-> target[c], no |-> sent + 1]
<1>2. op \in Ops /\ op.no = sent + 1 /\ sent' = sent + 1 /\ queue' = Append(queue, op)
  BY <1>1, EnqueueType DEF Sent, Sending
<1>3. Sends(c, op)
  BY <1>1 DEF Sent, Sending, Sends
<1>4. \A d \in Callers \ {c} : SameCaller(d)
  BY <1>1 DEF Sent, SameCaller
<1> HIDE DEF op
<1> QED
  BY <1>2, <1>3, <1>4, SendingKeeps

LEMMA StepSend ==
  ASSUME Inv, NEW c \in Callers, Send(c) \/ SendBlocked(c)
  PROVE  Inv'
<1>1. Typed'
  BY CallersTyped DEF Inv, Progress
<1>2. CASE (SlotForNewcomer \/ \E i \in DOMAIN blocked : i <= FreeSlots) /\ Sending(c) /\ Sent(c)
           /\ UNCHANGED <<target, writerVars, tableVars>>
  BY <1>1, <1>2, SlotFree, StepSent DEF Inv, Typed
<1>3. CASE Send(c) /\ UNCHANGED <<pc, clearNo, barrierNo, queue, sent>>
  BY <1>3, StepQuiet
<1> QED
  BY <1>2, <1>3 DEF Send, SendBlocked

----------------------------------------------------------------------------
(* Steps of the writer.                                                    *)

\* What a writer step keeps when it commits nothing and answers nobody.
LEMMA NothingDecided ==
  ASSUME Inv, UNCHANGED <<callerVars, rows, failedClears, promised, sent>>,
         Undecided' = Undecided, lastId <= lastId', lastId' \in Nat
  PROVE  /\ Numbered' /\ Settled' /\ BarrierHolds' /\ ClearErases' /\ HistoryBounded'
         /\ Tabular(rows)' /\ \A c \in Callers : ClearDone(c) => ClearDone(c)'
<1> USE DEF Inv, callerVars
<1>1. Numbered' /\ Settled' /\ BarrierHolds'
  BY DEF Numbered, Settled, BarrierHolds
<1>2. ClearErases' /\ HistoryBounded'
  BY DEF ClearErases, HistoryBounded
<1>3. Tabular(rows)'
  <2>1. lastId \in Nat /\ \A r \in rows : r.id \in Nat
    BY DEF Typed, TypeOK, Rows
  <2> QED
    BY <2>1 DEF Tables, Tabular
<1>4. \A c \in Callers : ClearDone(c) => ClearDone(c)'
  BY DEF ClearDone
<1> QED
  BY <1>1, <1>2, <1>3, <1>4

LEMMA StepReceive ==
  ASSUME Inv, Receive \/ TryReceive
  PROVE  Inv'
<1>0. Typed'
  BY WriterTyped DEF Inv, WriterStep
<1>1. batch \in Seq(Ops) /\ queue \in Seq(Ops) /\ queue # <<>> /\ Head(queue) \in Ops
  BY DEF Inv, Typed, TypeOK, Receive, TryReceive
<1>2. /\ batch' = Append(batch, Head(queue)) /\ queue' = Tail(queue) /\ writer' = "drain"
      /\ UNCHANGED <<callerVars, tableVars, sent>> /\ Open
  <2>1. CASE Receive
    <3>1. batch = <<>>
      BY <2>1 DEF Receive, Inv, Typed, Position
    <3>2. Append(batch, Head(queue)) = <<Head(queue)>>
      BY <3>1
    <3> QED
      BY <2>1, <3>2 DEF Receive, Open
  <2>2. CASE TryReceive
    BY <2>2 DEF TryReceive, Open
  <2> QED
    BY <2>1, <2>2
<1>3. /\ 1 \in DOMAIN queue /\ Head(queue) = queue[1]
      /\ \A i \in DOMAIN queue' : i + 1 \in DOMAIN queue /\ queue'[i] = queue[i + 1] /\ i \in Nat /\ i >= 1
      /\ \A i \in DOMAIN queue : i # 1 => i - 1 \in DOMAIN queue' /\ queue'[i - 1] = queue[i]
  BY <1>1, <1>2, TailOps
<1>4. /\ Len(batch) + 1 \in DOMAIN batch' /\ batch'[Len(batch) + 1] = queue[1]
      /\ \A i \in DOMAIN batch : i \in DOMAIN batch' /\ batch'[i] = batch[i] /\ i < Len(batch) + 1
      /\ \A i \in DOMAIN batch' : i = Len(batch) + 1 \/ (i \in DOMAIN batch /\ i < Len(batch) + 1)
  BY <1>1, <1>2, <1>3, AppendOps
<1>5. Undecided' = Undecided
  <2>1. ASSUME NEW n \in Undecided PROVE n \in Undecided'
    BY <1>3, <1>4, <2>1 DEF Undecided
  <2>2. ASSUME NEW n \in Undecided' PROVE n \in Undecided
    BY <1>3, <1>4, <2>2 DEF Undecided
  <2> QED
    BY <2>1, <2>2
<1>6. Fifo'
  <2>1. ASSUME NEW i \in DOMAIN batch', NEW j \in DOMAIN batch', i < j
        PROVE  batch'[i].no < batch'[j].no
    <3>1. i \in DOMAIN batch
      BY <1>1, <1>4, <2>1
    <3> QED
      BY <1>3, <1>4, <2>1, <3>1 DEF Inv, Fifo
  <2>2. ASSUME NEW i \in DOMAIN queue', NEW j \in DOMAIN queue', i < j
        PROVE  queue'[i].no < queue'[j].no
    BY <1>3, <2>2 DEF Inv, Fifo
  <2>3. ASSUME NEW i \in DOMAIN batch', NEW j \in DOMAIN queue'
        PROVE  batch'[i].no < queue'[j].no
    BY <1>3, <1>4 DEF Inv, Fifo
  <2>4. \A n \in Undecided' : n <= sent'
    BY <1>2, <1>5 DEF Inv, Fifo
  <2> QED
    BY <2>1, <2>2, <2>3, <2>4 DEF Fifo
<1>7. /\ Numbered' /\ Settled' /\ BarrierHolds' /\ ClearErases' /\ HistoryBounded'
      /\ Tabular(rows)' /\ \A c \in Callers : ClearDone(c) => ClearDone(c)'
  <2>1. lastId <= lastId' /\ lastId' \in Nat
    BY <1>2 DEF tableVars, Inv, Typed, TypeOK
  <2> QED
    BY <1>2, <1>5, <2>1, NothingDecided DEF tableVars
<1>8. Transaction' /\ Tables'
  BY <1>2, <1>7 DEF Transaction, Tables
<1>9. PendingClears'
  <2>1. ASSUME NEW c \in Callers, ClearIn(batch, c) \/ ClearIn(queue, c) \/ ClearDone(c)
        PROVE  ClearIn(batch, c)' \/ ClearIn(queue, c)' \/ ClearDone(c)'
    <3>1. CASE ClearIn(batch, c)
      BY <1>2, <1>4, <3>1 DEF ClearIn, callerVars
    <3>2. CASE ClearIn(queue, c)
      <4>1. PICK i \in DOMAIN queue : /\ queue[i].kind = "clear" /\ queue[i].user = target[c]
                                     /\ queue[i].no = clearNo[c]
        BY <3>2 DEF ClearIn
      <4>2. target'[c] = target[c] /\ clearNo'[c] = clearNo[c]
        BY <1>2 DEF callerVars
      <4>3. CASE i = 1
        BY <1>4, <4>1, <4>2, <4>3 DEF ClearIn
      <4>4. CASE i # 1
        BY <1>3, <4>1, <4>2, <4>4 DEF ClearIn
      <4> QED
        BY <4>3, <4>4
    <3> QED
      BY <1>7, <2>1, <3>1, <3>2
  <2> QED
    BY <1>2, <2>1 DEF Inv, PendingClears, callerVars, tableVars
<1> QED
  BY <1>0, <1>6, <1>7, <1>8, <1>9 DEF Inv

LEMMA StepBegin ==
  ASSUME Inv, BeginBatch
  PROVE  Inv'
<1>0. Typed'
  BY WriterTyped DEF Inv, WriterStep
<1>1. /\ UNCHANGED <<callerVars, queue, batch, tableVars, sent>>
      /\ writer = "drain" /\ writer' = "write" /\ next' = 1 /\ txn' = rows
  BY DEF BeginBatch
<1>2. Undecided' = Undecided /\ Open
  BY <1>1 DEF Undecided, Open
<1>3. /\ Numbered' /\ Settled' /\ BarrierHolds' /\ ClearErases' /\ HistoryBounded'
      /\ Tabular(rows)' /\ \A c \in Callers : ClearDone(c) => ClearDone(c)'
  <2>1. lastId <= lastId' /\ lastId' \in Nat
    BY <1>1 DEF tableVars, Inv, Typed, TypeOK
  <2> QED
    BY <1>1, <1>2, <2>1, NothingDecided DEF tableVars
<1>4. Fifo'
  BY <1>1, <1>2 DEF Inv, Fifo
<1>5. Transaction'
  <2>1. \A i \in DOMAIN batch' : ~(i < next')
    BY <1>1 DEF Inv, Typed, TypeOK
  <2> QED
    BY <1>1, <2>1 DEF Transaction, tableVars
<1>6. Tables'
  BY <1>1, <1>3 DEF Tables, Tabular, tableVars
<1>7. PendingClears'
  BY <1>1, <1>2, <1>3 DEF Inv, PendingClears, ClearIn, callerVars, tableVars
<1> QED
  BY <1>0, <1>3, <1>4, <1>5, <1>6, <1>7 DEF Inv

\* What is in the open transaction is older than what is still queued.
LEMMA TransactionAge ==
  ASSUME Inv, writer = "write", NEW r \in txn
  PROVE  /\ r.turn \in Nat /\ r.turn <= sent
         /\ r \in rows \/ Applied(r)
         /\ \A j \in DOMAIN queue : r.turn < queue[j].no
         /\ \A j \in DOMAIN batch : j >= next => r.turn < batch[j].no
<1>1. r.turn \in Nat /\ (r \in rows \/ Applied(r))
  BY DEF Inv, Typed, TypeOK, Rows, Numbers, Transaction
<1>2. CASE r \in rows
  BY <1>1, <1>2 DEF Inv, Settled, Undecided
<1>3. CASE Applied(r)
  <2>1. PICK i \in DOMAIN batch : i < next /\ batch[i].no = r.turn
    BY <1>3 DEF Applied
  <2>2. next \in Nat /\ \A j \in DOMAIN batch : j \in Nat /\ (j >= next => i < j)
    BY <2>1 DEF Inv, Typed, TypeOK
  <2>3. batch[i].no \in Undecided
    BY DEF Undecided
  <2> QED
    BY <1>1, <2>1, <2>2, <2>3 DEF Inv, Fifo
<1> QED
  BY <1>1, <1>2, <1>3

LEMMA ApplySave ==
  ASSUME Inv, Apply, batch[next].kind = "save", Typed'
  PROVE  Transaction' /\ Tabular(txn)'
<1>a. /\ batch \in Seq(Ops) /\ lastId \in Nat /\ next \in Nat /\ next \in DOMAIN batch
      /\ \A i \in DOMAIN batch : i \in Nat /\ batch[i] \in Ops /\ batch[i].no \in Nat
  BY DEF Apply, Inv, Typed, TypeOK, Ops, Numbers
<1>b. PICK op \in Ops : op = batch[next]
  BY <1>a
<1>c. PICK new : new = [id |-> lastId + 1, user |-> op.user, turn |-> op.no]
  OBVIOUS
<1>1. /\ writer = "write" /\ next \in DOMAIN batch /\ lastId' = lastId + 1 /\ next' = next + 1
      /\ txn' = txn \cup {new} /\ UNCHANGED <<writer, batch, rows>>
      /\ op \in Ops /\ lastId \in Nat /\ next \in Nat /\ op.no \in Nat
      /\ op = batch[next] /\ op.kind = "save"
      /\ \A i \in DOMAIN batch : i \in Nat /\ batch[i].no \in Nat
  BY <1>a, <1>b, <1>c DEF Apply
<1>2. \A r \in txn : r.id \in Nat /\ r.id <= lastId /\ r.turn < op.no
  <2>1. \A r \in txn : r.id \in Nat /\ r.id <= lastId
    BY <1>1 DEF Inv, Typed, TypeOK, Rows, Tables, Tabular
  <2>2. \A r \in txn : r.turn < op.no
    BY <1>1, TransactionAge
  <2> QED
    BY <2>1, <2>2
<1>3. /\ new.id = lastId + 1 /\ new.turn = op.no /\ new.user = op.user
      /\ \A r \in txn' : r \in txn \/ r = new
  BY <1>1, <1>c
<1>4. Tabular(txn)'
  <2>1. IsFiniteSet(txn')
    BY <1>1, FS_AddElement DEF Inv, Tables, Tabular
  <2>2. \A r \in txn' : r.id <= lastId'
    BY <1>1, <1>2, <1>3
  <2>3. \A r, s \in txn' : (r.id = s.id => r = s) /\ (r.id < s.id => r.turn < s.turn)
    BY <1>1, <1>2, <1>3 DEF Inv, Tables, Tabular
  <2> QED
    BY <2>1, <2>2, <2>3 DEF Tabular
<1>5. \A r \in txn : Applied(r) => Applied(r)'
  BY <1>1 DEF Applied
<1>6. Applied(new)'
  <2>1. next < next' /\ batch'[next].kind = "save" /\ batch'[next].user = new.user
        /\ batch'[next].no = new.turn /\ next \in DOMAIN batch'
    BY <1>1, <1>3
  <2> QED
    BY <2>1 DEF Applied
<1>7. ASSUME NEW i \in DOMAIN batch, i < next', batch[i].kind = "clear", NEW r \in txn',
             r.user = batch[i].user
      PROVE  r.turn > batch[i].no
  <2>1. i < next
    BY <1>1, <1>7
  <2>2. CASE r \in txn
    BY <1>1, <1>7, <2>1, <2>2 DEF Inv, Transaction
  <2>3. CASE r = new
    BY <1>1, <1>3, <2>1, <2>3 DEF Inv, Fifo
  <2> QED
    BY <1>3, <2>2, <2>3
<1>8. \A r \in txn' : r \in rows' \/ Applied(r)'
  <2>1. \A r \in txn : r \in rows \/ Applied(r)
    BY <1>1 DEF Inv, Transaction
  <2> QED
    BY <1>1, <1>3, <1>5, <1>6, <2>1
<1> QED
  BY <1>1, <1>4, <1>7, <1>8 DEF Transaction

LEMMA ApplyOther ==
  ASSUME Inv, Apply, batch[next].kind # "save", Typed'
  PROVE  Transaction' /\ Tabular(txn)'
<1>1. /\ writer = "write" /\ next \in DOMAIN batch /\ lastId' = lastId /\ next' = next + 1
      /\ txn' \subseteq txn /\ UNCHANGED <<writer, batch, rows>>
      /\ batch[next].kind = "clear" => \A r \in txn' : r.user # batch[next].user
      /\ next \in Nat /\ \A i \in DOMAIN batch : i \in Nat
  BY DEF Apply, Cleared, Inv, Typed, TypeOK
<1>2. Tabular(txn)'
  <2>1. IsFiniteSet(txn')
    BY <1>1, FS_Subset DEF Inv, Tables, Tabular
  <2> QED
    BY <1>1, <2>1 DEF Inv, Tables, Tabular
<1>3. \A r \in txn' : r \in rows' \/ Applied(r)'
  <2>1. \A r \in txn : Applied(r) => Applied(r)'
    BY <1>1 DEF Applied
  <2> QED
    BY <1>1, <2>1 DEF Inv, Transaction
<1>4. ASSUME NEW i \in DOMAIN batch, i < next', batch[i].kind = "clear", NEW r \in txn',
             r.user = batch[i].user
      PROVE  r.turn > batch[i].no
  <2>1. i < next \/ i = next
    BY <1>1, <1>4
  <2> QED
    BY <1>1, <1>4, <2>1 DEF Inv, Transaction
<1> QED
  BY <1>1, <1>2, <1>3, <1>4 DEF Transaction

LEMMA StepApply ==
  ASSUME Inv, Apply
  PROVE  Inv'
<1>0. Typed'
  BY WriterTyped DEF Inv, WriterStep
<1>1. /\ UNCHANGED <<callerVars, queue, batch, writer, rows, failedClears, promised, sent>>
      /\ writer = "write"
  BY DEF Apply
<1>2. Undecided' = Undecided /\ Open
  BY <1>1 DEF Undecided, Open
<1>3. /\ Numbered' /\ Settled' /\ BarrierHolds' /\ ClearErases' /\ HistoryBounded'
      /\ Tabular(rows)' /\ \A c \in Callers : ClearDone(c) => ClearDone(c)'
  <2>1. lastId <= lastId' /\ lastId' \in Nat
    BY DEF Apply, Inv, Typed, TypeOK
  <2> QED
    BY <1>1, <1>2, <2>1, NothingDecided
<1>4. Fifo'
  BY <1>1, <1>2 DEF Inv, Fifo
<1>5. Transaction' /\ Tabular(txn)'
  BY <1>0, ApplySave, ApplyOther
<1>6. PendingClears'
  BY <1>1, <1>2, <1>3 DEF Inv, PendingClears, ClearIn, callerVars
<1> QED
  BY <1>0, <1>3, <1>4, <1>5, <1>6 DEF Inv, Tables

----------------------------------------------------------------------------
(* Trimming.                                                               *)

LEMMA SmallestId ==
  ASSUME NEW K, K # {}, \A r \in K : r.id \in Nat
  PROVE  \E r \in K : \A s \in K : r.id <= s.id
<1> DEFINE T == {r.id : r \in K}
<1>1. T \subseteq Nat /\ T # {}
  OBVIOUS
<1>2. \E n \in T : \A m \in T : <<m, n>> \notin OpToRel(<, Nat)
  BY <1>1, WFMin, NatLessThanWellFounded
<1>3. PICK n \in T : \A m \in T : ~(m < n)
  BY <1>1, <1>2 DEF OpToRel
<1>4. PICK r \in K : r.id = n
  OBVIOUS
<1>5. \A s \in K : r.id <= s.id
  BY <1>1, <1>3, <1>4
<1> QED
  BY <1>5

\* The newest MaxMessages rows of a touched user are what the trim leaves.
LEMMA TrimBound ==
  ASSUME Inv, writer = "write", NEW u \in Touched
  PROVE  Cardinality({r \in Trimmed : r.user = u}) <= MaxMessages
<1> DEFINE K == {r \in Trimmed : r.user = u}
<1>1. K \subseteq txn /\ IsFiniteSet(txn) /\ \A r \in K : r.id \in Nat
  BY DEF Trimmed, Inv, Tables, Tabular, Typed, TypeOK, Rows
<1>2. IsFiniteSet(K) /\ Cardinality(K) \in Nat /\ MaxMessages \in Nat
  BY <1>1, FS_Subset, FS_CardinalityType, ChatCacheAssumption
<1>3. CASE K = {}
  BY <1>2, <1>3, FS_EmptySet
<1>4. CASE K # {}
  <2>1. PICK r \in K : \A s \in K : r.id <= s.id
    BY <1>1, <1>4, SmallestId
  <2>2. Cardinality(Newer(r)) < MaxMessages
    BY <2>1 DEF Trimmed
  <2>3. K \ {r} \subseteq Newer(r)
    <3>1. ASSUME NEW s \in K \ {r} PROVE s.id > r.id
      <4>1. s.id # r.id
        BY <1>1, <2>1 DEF Inv, Tables, Tabular
      <4> QED
        BY <1>1, <2>1, <4>1
    <3> QED
      BY <1>1, <2>1, <3>1 DEF Newer
  <2>4. Newer(r) \subseteq txn
    BY DEF Newer
  <2>5. IsFiniteSet(Newer(r)) /\ Cardinality(Newer(r)) \in Nat
    BY <1>1, <2>4, FS_Subset, FS_CardinalityType
  <2>6. Cardinality(K \ {r}) <= Cardinality(Newer(r))
    BY <2>3, <2>5, FS_Subset
  <2>7. Cardinality(K \ {r}) = Cardinality(K) - 1
    BY <1>2, <2>1, FS_RemoveElement
  <2> HIDE DEF K
  <2>8. Cardinality(K) <= MaxMessages
    BY <1>2, <2>2, <2>5, <2>6, <2>7
  <2> QED
    BY <2>8 DEF K
<1> QED
  BY <1>3, <1>4

LEMMA CommitBound ==
  ASSUME Inv, writer = "write", rows' = Trimmed
  PROVE  HistoryBounded'
<1> SUFFICES ASSUME NEW u \in Users
             PROVE  Cardinality({r \in Trimmed : r.user = u}) <= MaxMessages
  BY DEF HistoryBounded
<1>1. CASE u \in Touched
  BY <1>1, TrimBound
<1>2. CASE u \notin Touched
  <2> DEFINE K == {r \in Trimmed : r.user = u}
             R == {r \in rows : r.user = u}
  <2>1. K \subseteq R
    <3>1. ASSUME NEW r \in txn, r.user = u PROVE r \in rows
      <4>1. ~Applied(r)
        BY <1>2, <3>1 DEF Applied, Touched
      <4> QED
        BY <3>1, <4>1 DEF Inv, Transaction
    <3> QED
      BY <3>1 DEF Trimmed
  <2>2. R \subseteq rows /\ IsFiniteSet(rows)
    BY DEF Inv, Tables, Tabular
  <2>3. IsFiniteSet(R) /\ Cardinality(R) \in Nat
    BY <2>2, FS_Subset, FS_CardinalityType
  <2>4. Cardinality(R) <= MaxMessages
    BY DEF Inv, HistoryBounded
  <2>5. MaxMessages \in Nat
    BY ChatCacheAssumption
  <2> HIDE DEF K, R
  <2>6. IsFiniteSet(K) /\ Cardinality(K) <= Cardinality(R)
    BY <2>1, <2>3, FS_Subset
  <2>7. Cardinality(K) \in Nat
    BY <2>6, FS_CardinalityType
  <2>8. Cardinality(K) <= MaxMessages
    BY <2>3, <2>6, <2>4, <2>5, <2>7
  <2> QED
    BY <2>8 DEF K
<1> QED
  BY <1>1, <1>2

----------------------------------------------------------------------------
(* The end of a batch.                                                     *)

LEMMA Decided ==
  ASSUME Inv, writer = "write", queue' = queue, batch' = <<>>
  PROVE  /\ Undecided' \subseteq Undecided
         /\ \A n \in Undecided' : \A i \in DOMAIN batch : batch[i].no < n
<1>1. Undecided' = {queue[j].no : j \in DOMAIN queue}
  BY DEF Undecided
<1> QED
  BY <1>1 DEF Undecided, Inv, Fifo

LEMMA EndOfBatch ==
  ASSUME Inv, writer = "write", NEW answer \in {"ok", "err"}, EndBatch(answer)
  PROVE  /\ Fifo' /\ Numbered' /\ BarrierHolds' /\ Transaction'
         /\ \A c \in Callers : pc'[c] \in {"flush", "await"} => pc'[c] = pc[c]
<1>1. /\ UNCHANGED <<target, clearNo, barrierNo, queue, sent>> /\ batch' = <<>> /\ writer' # "write"
      /\ \A c \in Callers : \/ pc'[c] = pc[c]
                            \/ pc'[c] \in {"join", answer} /\ c \in Waiting
  BY DEF EndBatch
<1>2. /\ Undecided' \subseteq Undecided
      /\ \A n \in Undecided' : \A i \in DOMAIN batch : batch[i].no < n
  BY <1>1, Decided
<1>3. Fifo'
  BY <1>1, <1>2 DEF Inv, Fifo
<1>4. Numbered'
  BY <1>1 DEF Inv, Numbered
<1>5. BarrierHolds'
  BY <1>1, <1>2 DEF Inv, BarrierHolds, Waiting
<1>6. Transaction'
  BY <1>1 DEF Transaction
<1> QED
  BY <1>1, <1>3, <1>4, <1>5, <1>6

\* A clear of the batch, or an earlier one, has removed what it should from
\* the transaction.
LEMMA ClearedByCommit ==
  ASSUME Inv, writer = "write", next = Len(batch) + 1, NEW c \in Callers,
         ClearIn(batch, c) \/ ClearDone(c)
  PROVE  /\ \A r \in txn : r.user = target[c] => r.turn > clearNo[c]
         /\ queue' = queue /\ batch' = <<>> => \A n \in Undecided' : n > clearNo[c]
<1>0. clearNo[c] \in Nat /\ \A n \in Undecided : n \in Nat
  BY DEF Inv, Typed, TypeOK, Undecided, Ops, Numbers
<1>1. CASE ClearIn(batch, c)
  <2>1. PICK i \in DOMAIN batch : batch[i].kind = "clear" /\ batch[i].user = target[c]
                                    /\ batch[i].no = clearNo[c]
    BY <1>1 DEF ClearIn
  <2>2. i < next
    BY DEF Inv, Typed, TypeOK
  <2>3. \A r \in txn : r.user = target[c] => r.turn > clearNo[c]
    BY <2>1, <2>2 DEF Inv, Transaction
  <2>4. queue' = queue /\ batch' = <<>> => \A n \in Undecided' : n > clearNo[c]
    BY <1>0, <2>1, Decided
  <2> QED
    BY <2>3, <2>4
<1>2. CASE ClearDone(c)
  <2>1. ASSUME NEW r \in txn, r.user = target[c] PROVE r.turn > clearNo[c]
    <3>1. CASE r \in rows
      BY <1>2, <2>1, <3>1 DEF ClearDone
    <3>2. CASE Applied(r)
      <4>1. r.turn \in Undecided
        BY <3>2 DEF Applied, Undecided
      <4> QED
        BY <1>2, <4>1 DEF ClearDone
    <3> QED
      BY <3>1, <3>2 DEF Inv, Transaction
  <2>2. queue' = queue /\ batch' = <<>> => \A n \in Undecided' : n > clearNo[c]
    BY <1>2, Decided DEF ClearDone
  <2> QED
    BY <2>1, <2>2
<1> QED
  BY <1>1, <1>2

LEMMA StepCommit ==
  ASSUME Inv, Commit
  PROVE  Inv'
<1>0. Typed'
  BY WriterTyped DEF Inv, WriterStep
<1>1. /\ writer = "write" /\ next = Len(batch) + 1 /\ rows' = Trimmed /\ EndBatch("ok")
      /\ UNCHANGED <<target, clearNo, barrierNo, queue, lastId, sent, failedClears>>
      /\ batch' = <<>> /\ writer' # "write" /\ Open
      /\ promised' = [u \in Users |-> promised[u] \cup Honoured(u)]
      /\ rows' \subseteq txn
  BY DEF Commit, EndBatch, Trimmed, Open
<1>2. /\ Fifo' /\ Numbered' /\ BarrierHolds' /\ Transaction'
      /\ \A c \in Callers : pc'[c] \in {"flush", "await"} => pc'[c] = pc[c]
  BY <1>1, EndOfBatch
<1>3. /\ Undecided' \subseteq Undecided
      /\ \A n \in Undecided' : \A i \in DOMAIN batch : batch[i].no < n
  BY <1>1, Decided
<1>4. Tables'
  <2>1. IsFiniteSet(rows')
    BY <1>1, FS_Subset DEF Inv, Tables, Tabular
  <2> QED
    BY <1>1, <2>1 DEF Inv, Tables, Tabular
<1>5. HistoryBounded'
  BY <1>1, CommitBound
\* A clear that returns Ok with this commit was in the batch or in an earlier one.
<1>6. ASSUME NEW c \in Waiting, clearNo[c] \notin failedClears \cup {0}
      PROVE  /\ clearNo[c] \in Nat /\ clearNo[c] <= sent
             /\ ClearIn(batch, c) \/ ClearDone(c)
  <2>1. PICK i \in DOMAIN batch : batch[i].no = barrierNo[c]
    BY DEF Waiting
  <2>2. c \in Callers /\ pc[c] = "await" /\ clearNo[c] \in Nat /\ clearNo[c] <= sent
        /\ clearNo[c] < batch[i].no
    BY <1>6, <2>1 DEF Waiting, Inv, Typed, TypeOK, Numbered
  <2>3. ~ClearIn(queue, c)
    <3>1. \A j \in DOMAIN queue : batch[i].no < queue[j].no /\ queue[j].no \in Nat /\ batch[i].no \in Nat
      BY DEF Inv, Fifo, Typed, TypeOK, Ops, Numbers
    <3> QED
      BY <2>2, <3>1 DEF ClearIn
  <2> QED
    BY <1>1, <1>6, <2>2, <2>3 DEF Inv, PendingClears
<1>7. Settled'
  <2>1. \A r \in rows' : r.turn <= sent' /\ \A n \in Undecided' : r.turn < n
    <3>1. ASSUME NEW r \in txn PROVE r.turn <= sent /\ \A j \in DOMAIN queue : r.turn < queue[j].no
      BY <1>1, TransactionAge
    <3>2. Undecided' = {queue[j].no : j \in DOMAIN queue}
      BY <1>1 DEF Undecided
    <3> QED
      BY <1>1, <3>1, <3>2
  <2>2. ASSUME NEW u \in Users, NEW m \in promised'[u]
        PROVE  m <= sent' /\ \A n \in Undecided' : m < n
    <3>1. CASE m \in promised[u]
      BY <1>1, <1>3, <3>1 DEF Inv, Settled
    <3>2. CASE m \in Honoured(u)
      <4>1. PICK c \in Waiting : m = clearNo[c] /\ clearNo[c] \notin failedClears \cup {0}
        BY <3>2 DEF Honoured
      <4> QED
        BY <1>1, <1>6, <4>1, ClearedByCommit DEF Waiting
    <3> QED
      BY <1>1, <2>2, <3>1, <3>2
  <2> QED
    BY <2>1, <2>2 DEF Settled
<1>8. ClearErases'
  <2>1. ASSUME NEW r \in rows', NEW n \in promised'[r.user] PROVE r.turn > n
    <3>0. r \in txn /\ r.user \in Users
      BY <1>1 DEF Inv, Typed, TypeOK, Rows
    <3>1. CASE n \in promised[r.user]
      <4>1. CASE r \in rows
        BY <3>1, <4>1 DEF Inv, ClearErases
      <4>2. CASE Applied(r)
        <5>1. r.turn \in Undecided
          BY <4>2 DEF Applied, Undecided
        <5>2. r.turn \in Nat /\ n \in Nat
          BY <3>0, <3>1 DEF Inv, Typed, TypeOK, Rows, Numbers
        <5> QED
          BY <3>0, <3>1, <5>1, <5>2 DEF Inv, Settled
      <4> QED
        BY <1>1, <3>0, <4>1, <4>2 DEF Inv, Transaction
    <3>2. CASE n \in Honoured(r.user)
      <4>1. PICK c \in Waiting : /\ n = clearNo[c] /\ target[c] = r.user
                                 /\ clearNo[c] \notin failedClears \cup {0}
        BY <3>2 DEF Honoured
      <4> QED
        BY <1>1, <1>6, <3>0, <4>1, ClearedByCommit DEF Waiting
    <3> QED
      BY <1>1, <2>1, <3>0, <3>1, <3>2
  <2> QED
    BY <2>1 DEF ClearErases
<1>9. PendingClears'
  <2>1. ASSUME NEW c \in Callers, ClearIn(batch, c) \/ ClearDone(c) PROVE ClearDone(c)'
    <3>1. /\ \A r \in txn : r.user = target[c] => r.turn > clearNo[c]
          /\ \A n \in Undecided' : n > clearNo[c]
      BY <1>1, <2>1, ClearedByCommit
    <3> QED
      BY <1>1, <3>1 DEF ClearDone
  <2>2. \A c \in Callers : ClearIn(queue, c) => ClearIn(queue, c)'
    BY <1>1 DEF ClearIn
  <2> QED
    BY <1>1, <1>2, <2>1, <2>2 DEF Inv, PendingClears
<1> QED
  BY <1>0, <1>2, <1>4, <1>5, <1>7, <1>8, <1>9 DEF Inv

LEMMA StepFail ==
  ASSUME Inv, Fail
  PROVE  Inv'
<1>0. Typed'
  BY WriterTyped DEF Inv, WriterStep
<1>1. /\ writer = "write" /\ EndBatch("err")
      /\ UNCHANGED <<target, clearNo, barrierNo, queue, lastId, sent, rows, promised>>
      /\ batch' = <<>> /\ writer' # "write" /\ Open
      /\ failedClears' = failedClears \cup {batch[i].no : i \in {j \in DOMAIN batch : batch[j].kind = "clear"}}
  BY DEF Fail, EndBatch, Open
<1>2. /\ Fifo' /\ Numbered' /\ BarrierHolds' /\ Transaction'
      /\ \A c \in Callers : pc'[c] \in {"flush", "await"} => pc'[c] = pc[c]
  BY <1>1, EndOfBatch
<1>3. Undecided' \subseteq Undecided
  BY <1>1, Decided
<1>4. Settled' /\ Tables' /\ ClearErases' /\ HistoryBounded'
  BY <1>1, <1>3 DEF Inv, Settled, Tables, Tabular, ClearErases, HistoryBounded
<1>5. PendingClears'
  <2>1. \A c \in Callers : ClearIn(batch, c) => clearNo'[c] \in failedClears'
    BY <1>1 DEF ClearIn
  <2>2. \A c \in Callers : ClearIn(queue, c) => ClearIn(queue, c)'
    BY <1>1 DEF ClearIn
  <2>3. \A c \in Callers : ClearDone(c) => ClearDone(c)'
    BY <1>1, <1>3 DEF ClearDone
  <2> QED
    BY <1>1, <1>2, <2>1, <2>2, <2>3 DEF Inv, PendingClears
<1> QED
  BY <1>0, <1>2, <1>4, <1>5 DEF Inv

\* The writer is gone, or everybody is: nothing is left to decide.
LEMMA NothingLeft ==
  ASSUME Inv, Typed', UNCHANGED <<tableVars, sent>>, queue' = <<>>, batch' = <<>>,
         writer' # "write", Numbered',
         ~Open' \/ \A c \in Callers : pc'[c] \notin {"flush", "await"}
  PROVE  Inv'
<1>1. Undecided' = {}
  BY DEF Undecided
<1>2. Fifo' /\ Settled'
  BY <1>1 DEF Inv, Fifo, Settled, tableVars
<1>3. Tables' /\ ClearErases' /\ HistoryBounded' /\ Transaction'
  BY DEF Inv, Tables, Tabular, ClearErases, HistoryBounded, Transaction, tableVars
<1>4. BarrierHolds' /\ PendingClears'
  BY <1>1 DEF BarrierHolds, PendingClears
<1> QED
  BY <1>2, <1>3, <1>4 DEF Inv

LEMMA StepExit ==
  ASSUME Inv, Exit
  PROVE  Inv'
<1>0. Typed'
  BY WriterTyped DEF Inv, WriterStep
<1>1. /\ UNCHANGED <<tableVars, sent, clearNo, barrierNo>> /\ queue' = <<>> /\ batch' = <<>>
      /\ writer' # "write" /\ ~Open'
  BY DEF Exit, Open, Inv, Typed, Position
<1>2. Numbered'
  BY <1>1 DEF Exit, Inv, Numbered
<1> QED
  BY <1>0, <1>1, <1>2, NothingLeft

LEMMA StepRestart ==
  ASSUME Inv, Restart
  PROVE  Inv'
<1>0. Typed'
  BY RestartTyped DEF Inv
<1>1. /\ UNCHANGED <<tableVars, sent>> /\ queue' = <<>> /\ batch' = <<>> /\ writer' # "write"
      /\ \A c \in Callers : pc'[c] \notin {"flush", "await"}
  BY DEF Restart
<1>2. Numbered'
  BY DEF Restart, Numbered, Inv, Typed, TypeOK
<1> QED
  BY <1>0, <1>1, <1>2, NothingLeft

----------------------------------------------------------------------------
(* The invariant.                                                          *)

LEMMA InitInv == Init => Inv
<1> SUFFICES ASSUME Init PROVE Inv
  OBVIOUS
<1>1. Typed
  BY InitTyped
<1>2. Undecided = {} /\ rows = {} /\ writer = "recv" /\ \A c \in Callers : pc[c] = "idle"
  BY DEF Init, Undecided
<1>3. Fifo /\ Settled /\ Transaction /\ BarrierHolds /\ PendingClears
  BY <1>2 DEF Init, Fifo, Settled, Transaction, BarrierHolds, PendingClears
<1>4. Numbered
  BY DEF Init, Numbered
<1>5. Tables /\ ClearErases
  BY <1>2, FS_EmptySet DEF Tables, Tabular, ClearErases
<1>6. HistoryBounded
  <2>1. MaxMessages \in Nat
    BY ChatCacheAssumption
  <2>2. \A u \in Users : {r \in rows : r.user = u} = {}
    BY <1>2
  <2> QED
    BY <2>1, <2>2, FS_EmptySet DEF HistoryBounded
<1> QED
  BY <1>1, <1>3, <1>4, <1>5, <1>6 DEF Inv

LEMMA NextInv == Inv /\ [Next]_vars => Inv'
<1> SUFFICES ASSUME Inv, [Next]_vars PROVE Inv'
  OBVIOUS
<1>1. ASSUME NEW c \in Callers, NEW u \in Users, Save(c, u) \/ CallClear(c, u) PROVE Inv'
  BY <1>1, StepSave, StepQuiet
<1>2. ASSUME NEW c \in Callers, CallFlush(c) \/ Progress(c) \/ Abandon(c) PROVE Inv'
  BY <1>2, StepSend, StepQuiet DEF Progress
<1>3. CASE CallShutdown
  BY <1>3, StepQuiet DEF Callers
<1>4. CASE WriterStep
  BY <1>4, StepReceive, StepBegin, StepApply, StepCommit, StepFail, StepExit DEF WriterStep
<1>5. CASE Restart
  BY <1>5, StepRestart
<1>6. CASE UNCHANGED vars
  <2>1. Typed' /\ UNCHANGED rest /\ \A c \in Callers : SameCaller(c)
    BY <1>6 DEF vars, callerVars, writerVars, tableVars, rest, SameCaller, Inv, Typed, TypeOK, Position
  <2> QED
    BY <2>1, QuietKeeps
<1> QED
  BY <1>1, <1>2, <1>3, <1>4, <1>5, <1>6 DEF Next

(* Inv is inductive: it holds in every reachable state.                    *)
THEOREM Invariance == Spec => []Inv
  BY InitInv, NextInv, PTL DEF Spec

(* Types and bounds of the channel and the batch (lines 23-24, 99-139).    *)
THEOREM TypeCorrect == Spec => []TypeOK
<1>1. Inv => TypeOK
  BY DEF Inv, Typed
<1> QED
  BY <1>1, Invariance, PTL

(* An acknowledged flush, clear or shutdown is a barrier: no operation     *)
(* accepted before it is still queued or in a batch (lines 57-72).         *)
THEOREM BarriersHold == Spec => []BarrierHolds
<1>1. Inv => BarrierHolds
  BY DEF Inv
<1> QED
  BY <1>1, Invariance, PTL

(* A clear that returned Ok and whose own batch committed stays effective, *)
(* whatever fails, races or restarts afterwards (lines 83-87, 172-207).    *)
THEOREM ClearsErase == Spec => []ClearErases
<1>1. Inv => ClearErases
  BY DEF Inv
<1> QED
  BY <1>1, Invariance, PTL

(* The order of the ids in the table is the order in which the channel     *)
(* accepted the turns.                                                     *)
THEOREM TurnsKeepOrder == Spec => []TurnsInOrder
<1>1. Inv => TurnsInOrder
  BY DEF Inv, Tables, Tabular, TurnsInOrder
<1> QED
  BY <1>1, Invariance, PTL

(* Nobody's history outgrows MaxMessages, although a batch trims only the  *)
(* users it touched (lines 198-200, 209-227).                              *)
THEOREM HistoryStaysBounded == Spec => []HistoryBounded
<1>1. Inv => HistoryBounded
  BY DEF Inv
<1> QED
  BY <1>1, Invariance, PTL

----------------------------------------------------------------------------
(* The log that the cache implements.                                      *)

Turns(S) == {Turn(r) : r \in S}

\* The operations of the batch that the transaction has applied.
Done(k) == {batch[i] : i \in {j \in DOMAIN batch : j < k}}

\* The transaction is what the log would have on record had it been settled
\* up to here.
Logged ==
  /\ writer \in {"drain", "write"} => batch # <<>>
  /\ writer = "write" => Turns(txn) = Log!After(Turns(rows), Done(next))

LogInv == Inv /\ Logged

\* A save of the operations D, as the turn that it is.
Saves(D) == {[user |-> p.user, turn |-> p.no] : p \in {q \in D : q.kind = "save"}}

LEMMA AfterNothing ==
  ASSUME NEW S
  PROVE  Log!After(S, {}) = S
  BY DEF Log!After

(* One more operation settled, younger than all before it.                 *)
LEMMA AfterSave ==
  ASSUME NEW S, NEW D, NEW op, op.kind = "save", op.no \in Nat,
         \A p \in D : p.no \in Nat /\ p.no < op.no
  PROVE  Log!After(S, D \cup {op}) = Log!After(S, D) \cup {[user |-> op.user, turn |-> op.no]}
<1> DEFINE new == [user |-> op.user, turn |-> op.no]
<1>1. \A p \in D \cup {op} : p.kind = "clear" => p \in D
  OBVIOUS
<1>2. \A t : (\A p \in D \cup {op} : p.kind = "clear" /\ p.user = t.user => t.turn > p.no)
               <=> (\A p \in D : p.kind = "clear" /\ p.user = t.user => t.turn > p.no)
  BY <1>1
<1>3. \A p \in D : p.kind = "clear" /\ p.user = new.user => new.turn > p.no
  OBVIOUS
<1>4. Saves(D \cup {op}) = Saves(D) \cup {new}
  BY DEF Saves
<1> HIDE DEF new
<1>5. /\ Log!After(S, D) = {t \in S \cup Saves(D) :
           \A p \in D : p.kind = "clear" /\ p.user = t.user => t.turn > p.no}
      /\ Log!After(S, D \cup {op}) = {t \in S \cup Saves(D \cup {op}) :
           \A p \in D \cup {op} : p.kind = "clear" /\ p.user = t.user => t.turn > p.no}
  BY DEF Log!After, Saves
<1>6. Log!After(S, D \cup {op}) = {t \in S \cup Saves(D) \cup {new} :
           \A p \in D : p.kind = "clear" /\ p.user = t.user => t.turn > p.no}
  BY <1>2, <1>4, <1>5
<1>7. Log!After(S, D \cup {op}) = Log!After(S, D) \cup {new}
  BY <1>3, <1>5, <1>6
<1> QED
  BY <1>7 DEF new

LEMMA AfterClear ==
  ASSUME NEW S, NEW D, NEW op, op.kind = "clear", op.no \in Nat,
         \A p \in D : p.no \in Nat /\ p.no < op.no,
         \A t \in S : t.turn \in Nat /\ t.turn < op.no
  PROVE  Log!After(S, D \cup {op}) = {t \in Log!After(S, D) : t.user # op.user}
<1>1. Saves(D \cup {op}) = Saves(D)
  BY DEF Saves
<1>2. \A t \in S \cup Saves(D) : t.turn \in Nat /\ t.turn < op.no
  BY DEF Saves
<1>3. \A t \in S \cup Saves(D) : ~(t.turn > op.no)
  BY <1>2
<1>4. /\ Log!After(S, D) = {t \in S \cup Saves(D) :
           \A p \in D : p.kind = "clear" /\ p.user = t.user => t.turn > p.no}
      /\ Log!After(S, D \cup {op}) = {t \in S \cup Saves(D \cup {op}) :
           \A p \in D \cup {op} : p.kind = "clear" /\ p.user = t.user => t.turn > p.no}
  BY DEF Log!After, Saves
<1> QED
  BY <1>1, <1>3, <1>4

LEMMA AfterBarrier ==
  ASSUME NEW S, NEW D, NEW op, op.kind \in {"flush", "shutdown"}
  PROVE  Log!After(S, D \cup {op}) = Log!After(S, D)
<1>1. Saves(D \cup {op}) = Saves(D)
  BY DEF Saves
<1>2. /\ Log!After(S, D) = {t \in S \cup Saves(D) :
           \A p \in D : p.kind = "clear" /\ p.user = t.user => t.turn > p.no}
      /\ Log!After(S, D \cup {op}) = {t \in S \cup Saves(D \cup {op}) :
           \A p \in D \cup {op} : p.kind = "clear" /\ p.user = t.user => t.turn > p.no}
  BY DEF Log!After, Saves
<1> QED
  BY <1>1, <1>2

(* A statement does to the transaction what settling its operation would.  *)
LEMMA ApplyLogged ==
  ASSUME LogInv, Apply
  PROVE  Turns(txn') = Log!After(Turns(rows'), Done(next)')
<1> DEFINE D == Done(next)
           S == Turns(rows)
           op == batch[next]
<1>1. /\ writer = "write" /\ next \in DOMAIN batch /\ next' = next + 1 /\ next \in Nat
      /\ rows' = rows /\ batch' = batch
      /\ \A i \in DOMAIN batch : i \in Nat /\ batch[i] \in Ops
      /\ Turns(txn) = Log!After(S, D)
  BY DEF Apply, LogInv, Logged, Inv, Typed, TypeOK
<1>2. Done(next)' = D \cup {op}
  BY <1>1 DEF Done
<1>3. op \in Ops /\ op.no \in Nat
  BY <1>1 DEF Ops, Numbers
<1>4. \A p \in D : p.no \in Nat /\ p.no < op.no
  <2>1. ASSUME NEW i \in DOMAIN batch, i < next PROVE batch[i].no \in Nat /\ batch[i].no < op.no
    BY <1>1, <2>1 DEF LogInv, Inv, Fifo, Ops, Numbers
  <2> QED
    BY <2>1 DEF Done
<1>5. \A t \in S : t.turn \in Nat /\ t.turn < op.no
  <2>1. op.no \in Undecided
    BY <1>1 DEF Undecided
  <2>2. \A r \in rows : r.turn \in Nat /\ r.turn < op.no
    BY <2>1 DEF LogInv, Inv, Settled, Typed, TypeOK, Rows, Numbers
  <2> QED
    BY <2>2 DEF Turns, Turn
<1>a. /\ op.kind = "save" =>
           txn' = txn \cup {[id |-> lastId + 1, user |-> op.user, turn |-> op.no]}
      /\ op.kind = "clear" => txn' = {r \in txn : r.user # op.user}
      /\ op.kind \in {"flush", "shutdown"} => txn' = txn
  BY DEF Apply, Cleared
<1> HIDE DEF D, S, op
<1>6. CASE op.kind = "save"
  <2> DEFINE new == [id |-> lastId + 1, user |-> op.user, turn |-> op.no]
  <2>1. txn' = txn \cup {new}
    BY <1>6, <1>a
  <2>a. Turn(new) = [user |-> op.user, turn |-> op.no]
    BY DEF Turn
  <2> HIDE DEF new
  <2>2. Turns(txn') = Turns(txn) \cup {[user |-> op.user, turn |-> op.no]}
    BY <2>1, <2>a DEF Turns
  <2>3. Log!After(S, D \cup {op}) = Log!After(S, D) \cup {[user |-> op.user, turn |-> op.no]}
    BY <1>3, <1>4, <1>6, AfterSave
  <2> QED
    BY <1>1, <1>2, <2>2, <2>3 DEF S
<1>7. CASE op.kind = "clear"
  <2>1. txn' = {r \in txn : r.user # op.user}
    BY <1>7, <1>a
  <2>2. Turns(txn') = {t \in Turns(txn) : t.user # op.user}
    BY <2>1 DEF Turns, Turn
  <2>3. Log!After(S, D \cup {op}) = {t \in Log!After(S, D) : t.user # op.user}
    BY <1>3, <1>4, <1>5, <1>7, AfterClear
  <2> QED
    BY <1>1, <1>2, <2>2, <2>3 DEF S
<1>8. CASE op.kind \in {"flush", "shutdown"}
  <2>1. txn' = txn
    BY <1>8, <1>a
  <2>2. Log!After(S, D \cup {op}) = Log!After(S, D)
    BY <1>8, AfterBarrier
  <2> QED
    BY <1>1, <1>2, <2>1, <2>2 DEF S
<1> QED
  BY <1>3, <1>6, <1>7, <1>8 DEF Ops

LEMMA NextLogged == LogInv /\ [Next]_vars => Logged'
<1> SUFFICES ASSUME LogInv, [Next]_vars PROVE Logged'
  OBVIOUS
<1>1. CASE UNCHANGED <<writerVars, rows>>
  BY <1>1 DEF writerVars, LogInv, Logged, Turns, Done
<1>2. CASE Receive
  <2>1. Head(queue) \in Ops
    BY <1>2, TailOps DEF Receive, LogInv, Inv, Typed, TypeOK
  <2> QED
    BY <1>2 DEF Receive, Logged
<1>3. CASE TryReceive
  <2>1. Append(batch, Head(queue)) # <<>>
    <3>1. batch \in Seq(Ops) /\ Head(queue) \in Ops
      BY <1>3, TailOps DEF TryReceive, LogInv, Inv, Typed, TypeOK
    <3>2. Len(Append(batch, Head(queue))) = Len(batch) + 1 /\ Len(batch) \in Nat
      BY <3>1, AppendOps
    <3> QED
      BY <3>2
  <2> QED
    BY <1>3, <2>1 DEF TryReceive, Logged
<1>4. CASE BeginBatch
  <2>1. /\ next' = 1 /\ txn' = rows /\ rows' = rows /\ batch' = batch /\ batch # <<>>
        /\ \A i \in DOMAIN batch : i \in Nat /\ ~(i < 1)
    BY <1>4 DEF BeginBatch, tableVars, LogInv, Logged, Inv, Typed, TypeOK
  <2>2. Done(next)' = {}
    BY <2>1 DEF Done
  <2>3. Turns(txn)' = Turns(rows) /\ Turns(rows)' = Turns(rows)
    BY <2>1 DEF Turns
  <2> QED
    BY <2>1, <2>2, <2>3, AfterNothing DEF Logged
<1>5. CASE Apply
  <2>1. writer' = "write" /\ batch' # <<>>
    BY <1>5 DEF Apply, LogInv, Logged
  <2> QED
    BY <1>5, <2>1, ApplyLogged DEF Logged, Turns
<1>6. CASE Commit \/ Fail
  BY <1>6 DEF Commit, Fail, EndBatch, Logged
<1>7. CASE Exit \/ Restart
  BY <1>7 DEF Exit, Restart, Logged
<1>8. ASSUME NEW c \in Callers, NEW u \in Users, Save(c, u) \/ CallClear(c, u)
      PROVE  UNCHANGED <<writerVars, rows>>
  BY <1>8 DEF Save, CallClear, Call, tableVars
<1>9. ASSUME NEW c \in Callers, CallFlush(c) \/ Progress(c) \/ Abandon(c)
      PROVE  UNCHANGED <<writerVars, rows>>
  BY <1>9 DEF CallFlush, Call, Progress, Send, SendBlocked, SendClosed, Return, Abandon, tableVars
<1>10. CASE CallShutdown \/ UNCHANGED vars
  BY <1>1, <1>10 DEF CallShutdown, Call, vars, writerVars, tableVars
<1> QED
  BY <1>1, <1>2, <1>3, <1>4, <1>5, <1>6, <1>7, <1>8, <1>9, <1>10 DEF Next, WriterStep

LEMMA InitLogInv == Init => LogInv
  BY InitInv DEF LogInv, Logged, Init

LEMMA NextLogInv == LogInv /\ [Next]_vars => LogInv'
  BY NextLogged, NextInv DEF LogInv

----------------------------------------------------------------------------
(* The steps of the log.                                                   *)

LogStep == [Log!Next]_(Log!vars)

(* The log counts with the FiniteSets that its own module extends.         *)
LEMMA SameCardinality == ASSUME NEW S PROVE Log!Cardinality(S) = Cardinality(S)
  BY DEF Log!Cardinality, Cardinality

(* Ids order rows as their numbers order turns, so both count alike.       *)
LEMMA SameNewer ==
  ASSUME NEW S, S \subseteq Rows, Tabular(S), NEW r \in S
  PROVE  /\ IsFiniteSet({s \in S : s.user = r.user /\ s.id > r.id})
         /\ Cardinality({t \in Turns(S) : t.user = Turn(r).user /\ t.turn > Turn(r).turn})
              = Cardinality({s \in S : s.user = r.user /\ s.id > r.id})
<1> DEFINE A == {s \in S : s.user = r.user /\ s.id > r.id}
           B == {t \in Turns(S) : t.user = Turn(r).user /\ t.turn > Turn(r).turn}
           f == [s \in A |-> Turn(s)]
<1>1. /\ \A s \in S : s.id \in Nat /\ s.turn \in Nat
      /\ \A s \in S : Turn(s).user = s.user /\ Turn(s).turn = s.turn
  BY DEF Rows, Numbers, Turn
<1>2. \A s, q \in S : (s.id > q.id <=> s.turn > q.turn) /\ (s.turn = q.turn => s = q)
  BY <1>1 DEF Tabular
<1>3. f \in [A -> B]
  BY <1>1, <1>2 DEF Turns
<1>4. \A s, q \in A : f[s] = f[q] => s = q
  BY <1>1, <1>2
<1>5. \A t \in B : \E s \in A : f[s] = t
  <2>1. ASSUME NEW t \in B PROVE \E s \in A : f[s] = t
    <3>1. PICK s \in S : t = Turn(s)
      BY DEF Turns
    <3>2. s \in A
      BY <1>1, <1>2, <3>1
    <3> QED
      BY <3>1, <3>2
  <2> QED
    BY <2>1
<1>6. A \subseteq S /\ IsFiniteSet(S)
  BY DEF Tabular
<1> HIDE DEF A, B, f
<1>7. IsFiniteSet(A)
  BY <1>6, FS_Subset
<1>8. f \in Bijection(A, B)
  BY <1>3, <1>4, <1>5, Fun_IsBij
<1>9. Cardinality(B) = Cardinality(A)
  BY <1>7, <1>8, FS_Bijection DEF ExistsBijection
<1> QED
  BY <1>7, <1>9 DEF A, B

(* A user whom the batch does not touch has nothing to trim.               *)
LEMMA UntouchedFits ==
  ASSUME Inv, writer = "write", NEW r \in txn, r.user \notin Touched
  PROVE  Cardinality(Newer(r)) < MaxMessages
<1> DEFINE R == {s \in rows : s.user = r.user}
<1>1. ASSUME NEW s \in txn, s.user = r.user PROVE s \in rows
  <2>1. ~Applied(s)
    BY <1>1 DEF Applied, Touched
  <2> QED
    BY <1>1, <2>1 DEF Inv, Transaction
<1>2. r \in R /\ Newer(r) \subseteq R \ {r}
  BY <1>1 DEF Newer, Inv, Typed, TypeOK, Rows
<1>3. R \subseteq rows /\ IsFiniteSet(rows) /\ r.user \in Users
  BY DEF Inv, Tables, Tabular, Typed, TypeOK, Rows
<1>4. IsFiniteSet(R) /\ Cardinality(R) \in Nat
  BY <1>3, FS_Subset, FS_CardinalityType
<1>5. Cardinality(R) <= MaxMessages /\ MaxMessages \in Nat
  BY <1>3, ChatCacheAssumption DEF Inv, HistoryBounded
<1> HIDE DEF R
<1>6. IsFiniteSet(R \ {r}) /\ Cardinality(R \ {r}) = Cardinality(R) - 1
  BY <1>2, <1>4, FS_RemoveElement
<1>7. Cardinality(Newer(r)) <= Cardinality(R \ {r}) /\ IsFiniteSet(Newer(r))
  BY <1>2, <1>6, FS_Subset
<1>8. Cardinality(Newer(r)) \in Nat
  BY <1>7, FS_CardinalityType
<1> QED
  BY <1>4, <1>5, <1>6, <1>7, <1>8

(* Trimming the touched users leaves the newest turns of everybody.        *)
LEMMA TrimmedIsNewest ==
  ASSUME Inv, writer = "write"
  PROVE  Turns(Trimmed) = Log!Newest(Turns(txn))
<1>1. txn \subseteq Rows /\ Tabular(txn)
  BY DEF Inv, Typed, TypeOK, Tables
<1>2. Trimmed = {r \in txn : Cardinality(Newer(r)) < MaxMessages}
  BY UntouchedFits DEF Trimmed
<1>3. ASSUME NEW r \in txn
      PROVE  Cardinality({t \in Turns(txn) : t.user = Turn(r).user /\ t.turn > Turn(r).turn})
               = Cardinality(Newer(r))
  BY <1>1, SameNewer DEF Newer
<1>4. Log!Newest(Turns(txn)) =
        {t \in Turns(txn) : Cardinality({s \in Turns(txn) : s.user = t.user /\ s.turn > t.turn})
                              < MaxMessages}
  BY SameCardinality DEF Log!Newest
<1> QED
  BY <1>2, <1>3, <1>4 DEF Turns

(* The operations up to the last one of the batch are the batch.           *)
LEMMA UpToBatch ==
  ASSUME Inv, batch # <<>>
  PROVE  /\ batch[Len(batch)] \in Operations
         /\ Log!UpTo(batch[Len(batch)]) = {batch[i] : i \in DOMAIN batch}
         /\ Done(Len(batch) + 1) = {batch[i] : i \in DOMAIN batch}
<1> DEFINE n == Len(batch)
<1>1. /\ batch \in Seq(Ops) /\ n \in Nat /\ n \in DOMAIN batch
      /\ \A i \in DOMAIN batch : i \in Nat /\ i <= n /\ batch[i].no \in Nat
      /\ \A j \in DOMAIN queue : queue[j].no \in Nat
  BY DEF Inv, Typed, TypeOK, Ops, Numbers
<1>2. /\ \A i \in DOMAIN batch : batch[i].no <= batch[n].no
      /\ \A j \in DOMAIN queue : ~(queue[j].no <= batch[n].no)
  <2>1. ASSUME NEW i \in DOMAIN batch PROVE batch[i].no <= batch[n].no
    <3>1. i = n \/ i < n
      BY <1>1
    <3> QED
      BY <1>1, <3>1 DEF Inv, Fifo
  <2>2. ASSUME NEW j \in DOMAIN queue PROVE ~(queue[j].no <= batch[n].no)
    BY <1>1 DEF Inv, Fifo
  <2> QED
    BY <2>1, <2>2
<1>3. Log!UpTo(batch[n]) = {p \in Operations : p.no <= batch[n].no}
  BY DEF Log!UpTo
<1>4. {p \in Operations : p.no <= batch[n].no} = {batch[i] : i \in DOMAIN batch}
  BY <1>2 DEF Operations
<1>5. Done(n + 1) = {batch[i] : i \in DOMAIN batch}
  <2>1. \A j \in DOMAIN batch : j < n + 1
    BY <1>1
  <2> QED
    BY <2>1 DEF Done
<1>6. batch[n] \in Operations
  BY <1>1 DEF Operations
<1> QED
  BY <1>3, <1>4, <1>5, <1>6

(* A settled batch leaves what is queued; the numbers stay unique.         *)
LEMMA BatchSettled ==
  ASSUME Inv, batch # <<>>, batch' = <<>>, queue' = queue
  PROVE  Operations' = Operations \ Log!UpTo(batch[Len(batch)])
<1>1. \A i \in DOMAIN batch, j \in DOMAIN queue : batch[i] # queue[j]
  <2>1. \A i \in DOMAIN batch : batch[i].no \in Nat
    BY DEF Inv, Typed, TypeOK, Ops, Numbers
  <2> QED
    BY <2>1 DEF Inv, Fifo
<1>2. Operations' = {queue[j] : j \in DOMAIN queue}
  BY DEF Operations
<1> QED
  BY <1>1, <1>2, UpToBatch DEF Operations

LEMMA CommitLogs ==
  ASSUME LogInv, Commit
  PROVE  LogStep
<1>1. /\ writer = "write" /\ batch # <<>> /\ next = Len(batch) + 1
      /\ rows' = Trimmed /\ batch' = <<>> /\ queue' = queue /\ sent' = sent
  BY DEF Commit, EndBatch, LogInv, Logged
<1> DEFINE op == batch[Len(batch)]
<1>2. op \in Operations /\ Log!UpTo(op) = Done(next)
  BY <1>1, UpToBatch DEF LogInv
<1>3. Operations' = Operations \ Log!UpTo(op)
  BY <1>1, BatchSettled DEF LogInv
<1>4. Turns(rows') = Log!Newest(Log!After(Turns(rows), Log!UpTo(op)))
  BY <1>1, <1>2, TrimmedIsNewest DEF LogInv, Logged
<1> HIDE DEF op
<1>5. Log!Store(op)
  BY <1>1, <1>3, <1>4 DEF Log!Store, Turns
<1> QED
  BY <1>2, <1>5 DEF LogStep, Log!Next

LEMMA FailLogs ==
  ASSUME LogInv, Fail
  PROVE  LogStep
<1>1. /\ batch # <<>> /\ rows' = rows /\ batch' = <<>> /\ queue' = queue /\ sent' = sent
  BY DEF Fail, EndBatch, LogInv, Logged
<1> DEFINE op == batch[Len(batch)]
<1>2. op \in Operations /\ Operations' = Operations \ Log!UpTo(op)
  BY <1>1, UpToBatch, BatchSettled DEF LogInv
<1> HIDE DEF op
<1>3. Log!Lose(op)
  BY <1>1, <1>2 DEF Log!Lose
<1> QED
  BY <1>2, <1>3 DEF LogStep, Log!Next

(* The end of the process, or of the task, loses whatever is undecided.    *)
LEMMA LossLogs ==
  ASSUME Inv, batch' = <<>>, queue' = <<>>, rows' = rows, sent' = sent
  PROVE  LogStep
<1>1. Operations' = {}
  BY DEF Operations
<1>2. CASE Operations = {}
  BY <1>1, <1>2 DEF LogStep, Log!vars
<1>3. CASE queue # <<>>
  <2> DEFINE n == Len(queue)
             op == queue[n]
  <2>1. /\ n \in DOMAIN queue
        /\ \A j \in DOMAIN queue : queue[j].no \in Nat /\ (j = n \/ j < n)
        /\ \A i \in DOMAIN batch : batch[i].no \in Nat
    BY <1>3 DEF Inv, Typed, TypeOK, Ops, Numbers
  <2>2. op \in Operations
    BY <2>1 DEF Operations
  <2>3. \A p \in Operations : p.no <= op.no
    BY <2>1 DEF Operations, Inv, Fifo
  <2> HIDE DEF n, op
  <2>4. Log!UpTo(op) = Operations
    BY <2>3 DEF Log!UpTo
  <2>5. Log!Lose(op)
    BY <1>1, <2>4 DEF Log!Lose
  <2> QED
    BY <2>2, <2>5 DEF LogStep, Log!Next
<1>4. CASE queue = <<>> /\ batch # <<>>
  <2> DEFINE op == batch[Len(batch)]
  <2>1. op \in Operations /\ Log!UpTo(op) = Operations
    BY <1>4, UpToBatch DEF Operations
  <2> HIDE DEF op
  <2>2. Log!Lose(op)
    BY <1>1, <2>1 DEF Log!Lose
  <2> QED
    BY <2>1, <2>2 DEF LogStep, Log!Next
<1>5. CASE queue = <<>> /\ batch = <<>>
  BY <1>2, <1>5 DEF Operations
<1> QED
  BY <1>3, <1>4, <1>5

(* What the channel accepts is one more pending operation ...              *)
LEMMA EnqueueOperations ==
  ASSUME Inv, NEW kind, NEW u, Enqueue(kind, u), UNCHANGED batch
  PROVE  /\ Operations' = Operations \cup {[kind |-> kind, user |-> u, no |-> sent + 1]}
         /\ sent' = sent + 1
<1> DEFINE op == [kind |-> kind, user |-> u, no |-> sent + 1]
<1>1. queue \in Seq(Ops) /\ queue' = Append(queue, op) /\ sent' = sent + 1
  BY DEF Inv, Typed, TypeOK, Enqueue
<1>2. {queue'[j] : j \in DOMAIN queue'} = {queue[j] : j \in DOMAIN queue} \cup {op}
  <2> HIDE DEF op
  <2>1. /\ Len(queue) + 1 \in DOMAIN queue' /\ queue'[Len(queue) + 1] = op
        /\ \A j \in DOMAIN queue : j \in DOMAIN queue' /\ queue'[j] = queue[j]
        /\ \A j \in DOMAIN queue' : j = Len(queue) + 1 \/ j \in DOMAIN queue
    BY <1>1
  <2> QED
    BY <2>1
<1> QED
  BY <1>1, <1>2 DEF Operations

(* ... and the next one of the log.                                        *)
LEMMA EnqueueLogs ==
  ASSUME Inv, NEW kind \in Log!Kinds, NEW u \in Users \cup {Nobody}, Enqueue(kind, u),
         UNCHANGED <<batch, rows>>
  PROVE  LogStep
<1>1. Log!Accept(kind, u)
  BY EnqueueOperations DEF Log!Accept
<1> QED
  BY <1>1 DEF LogStep, Log!Next

(* What the writer receives stays pending.                                 *)
LEMMA ReceiveOperations ==
  ASSUME Inv, Receive \/ TryReceive
  PROVE  Operations' = Operations
<1>1. queue \in Seq(Ops) /\ batch \in Seq(Ops) /\ queue # <<>>
  BY DEF Inv, Typed, TypeOK, Receive, TryReceive
<1>2. /\ rows' = rows /\ sent' = sent /\ queue' = Tail(queue)
      /\ batch' = Append(batch, Head(queue))
  <2>1. CASE Receive
    <3>1. batch = <<>>
      BY <2>1 DEF Receive, Inv, Typed, Position
    <3> QED
      BY <2>1, <3>1 DEF Receive, tableVars
  <2>2. CASE TryReceive
    BY <2>2 DEF TryReceive, tableVars
  <2> QED
    BY <2>1, <2>2
<1>3. {queue[j] : j \in DOMAIN queue} = {Head(queue)} \cup {queue'[j] : j \in DOMAIN queue'}
  <2>1. /\ \A j \in DOMAIN queue' : j + 1 \in DOMAIN queue /\ queue'[j] = queue[j + 1]
        /\ \A j \in DOMAIN queue : j # 1 => j - 1 \in DOMAIN queue' /\ queue'[j - 1] = queue[j]
        /\ 1 \in DOMAIN queue /\ Head(queue) = queue[1]
    BY <1>1, <1>2, TailOps
  <2>2. ASSUME NEW j \in DOMAIN queue
        PROVE  queue[j] = Head(queue) \/ \E k \in DOMAIN queue' : queue'[k] = queue[j]
    BY <2>1
  <2>3. ASSUME NEW k \in DOMAIN queue' PROVE \E j \in DOMAIN queue : queue[j] = queue'[k]
    BY <2>1
  <2> QED
    BY <2>1, <2>2, <2>3
<1>4. {batch'[i] : i \in DOMAIN batch'} = {batch[i] : i \in DOMAIN batch} \cup {Head(queue)}
  <2>1. Head(queue) \in Ops
    BY <1>1, TailOps
  <2> QED
    BY <1>1, <1>2, <2>1, AppendOps
<1> QED
  BY <1>3, <1>4 DEF Operations

LEMMA ReceiveLogs ==
  ASSUME Inv, Receive \/ TryReceive
  PROVE  LogStep
<1>1. rows' = rows /\ sent' = sent
  BY DEF Receive, TryReceive, tableVars
<1> QED
  BY <1>1, ReceiveOperations DEF LogStep, Log!vars

LEMMA QuietLogs ==
  ASSUME UNCHANGED <<queue, batch, rows, sent>>
  PROVE  LogStep
<1>1. Operations' = Operations
  BY DEF Operations
<1> QED
  BY <1>1 DEF LogStep, Log!vars

LEMMA NextLogs == LogInv /\ [Next]_vars => LogStep
<1> SUFFICES ASSUME LogInv, [Next]_vars PROVE LogStep
  OBVIOUS
<1>1. Inv
  BY DEF LogInv
<1>2. ASSUME NEW c \in Callers, NEW u \in Users, Save(c, u) PROVE LogStep
  BY <1>1, <1>2, EnqueueLogs DEF Save, writerVars, tableVars, Log!Kinds
<1>3. ASSUME NEW c \in Callers, Sent(c), Sending(c), UNCHANGED <<batch, rows>>
      PROVE  LogStep
  <2>1. target[c] \in Users \cup {Nobody} /\ pc[c] \in Log!Kinds
    BY <1>1, <1>3 DEF Inv, Typed, TypeOK, Sending, Log!Kinds
  <2> QED
    BY <1>1, <1>3, <2>1, EnqueueLogs DEF Sent
<1>4. ASSUME NEW c \in Callers, Progress(c) PROVE LogStep
  BY <1>3, <1>4, QuietLogs DEF Progress, Send, SendBlocked, SendClosed, Return, writerVars,
     tableVars
<1>5. ASSUME NEW c \in Callers,
             \/ \E u \in Users : CallClear(c, u)
             \/ CallFlush(c) \/ Abandon(c) \/ CallShutdown
      PROVE  LogStep
  BY <1>5, QuietLogs DEF CallClear, CallFlush, CallShutdown, Call, Abandon, writerVars, tableVars
<1>6. CASE Receive \/ TryReceive
  BY <1>1, <1>6, ReceiveLogs
<1>7. CASE BeginBatch \/ Apply
  BY <1>7, QuietLogs DEF BeginBatch, Apply, tableVars
<1>8. CASE Commit \/ Fail
  BY <1>8, CommitLogs, FailLogs
<1>9. CASE Exit
  <2>1. batch' = <<>> /\ queue' = <<>> /\ rows' = rows /\ sent' = sent
    BY <1>1, <1>9 DEF Exit, tableVars, Inv, Typed, Position
  <2> QED
    BY <1>1, <2>1, LossLogs
<1>10. CASE Restart
  BY <1>1, <1>10, LossLogs DEF Restart, tableVars
<1>11. CASE UNCHANGED vars
  BY <1>11, QuietLogs DEF vars, writerVars, tableVars
<1>12. ASSUME CallShutdown PROVE LogStep
  BY <1>5, <1>12 DEF Callers
<1> QED
  BY <1>2, <1>4, <1>5, <1>6, <1>7, <1>8, <1>9, <1>10, <1>11, <1>12 DEF Next, WriterStep

(* Accepted saves and clears take effect in the order in which they were   *)
(* accepted and in blocks that are committed or lost as a whole; every     *)
(* history is the newest turns of that log (lines 126-227), whatever is    *)
(* queued, batched, abandoned, rolled back or lost in a crash.             *)
THEOREM ImplementsLog == Spec => LogSpec
<1>1. Init => Log!Init
  BY DEF Init, Log!Init, Operations
<1>2. LogInv /\ [Next]_vars => [Log!Next]_(Log!vars)
  BY NextLogs DEF LogStep
<1> QED
  BY <1>1, <1>2, InitLogInv, NextLogInv, PTL DEF Spec, LogSpec, Log!Spec

----------------------------------------------------------------------------
(* Nobody waits in vain: the safety behind CallsReturn and ShutdownEnds.   *)

Roles == pc[Main] \in MainLabels /\ \A c \in Clients : pc[c] \in ClientLabels

\* A slot is never reserved for a caller that does not want it any more.
InLine == /\ \A i, j \in DOMAIN blocked : blocked[i] = blocked[j] => i = j
          /\ \A i \in DOMAIN blocked : Sending(blocked[i])

\* Who waits for a barrier has it in the queue or in the batch.
Awaited ==
  \A c \in Callers : pc[c] = "await" =>
    \E op \in Operations : /\ op.no = barrierNo[c]
                           /\ op.kind = IF c = Main THEN "shutdown" ELSE "flush"

\* The writer ends with the one shutdown, whose sender joins it.
ShutdownJoined ==
  /\ \A op \in Operations : op.kind = "shutdown" => pc[Main] = "await" /\ op.no = barrierNo[Main]
  /\ writer \in {"exit", "stopped"} <=> pc[Main] \in {"join", "done"}
  /\ pc[Main] = "done" => writer = "stopped"

NobodyForgotten == InLine /\ Awaited /\ ShutdownJoined

Waits == Roles /\ NobodyForgotten
WaitInv == Inv /\ Waits

(* Who leaves the line leaves it for good, and nobody else does.           *)
LEMMA UnblockLine ==
  ASSUME blocked \in Seq(Callers), InLine, NEW c \in Callers, Unblock(c)
  PROVE  /\ \A i, j \in DOMAIN blocked' : blocked'[i] = blocked'[j] => i = j
         /\ \A i \in DOMAIN blocked' : blocked'[i] # c /\ \E j \in DOMAIN blocked : blocked'[i] = blocked[j]
<1>1. CASE ~IsBlocked(c) /\ UNCHANGED blocked
  BY <1>1 DEF IsBlocked, InLine
<1>2. ASSUME NEW i \in DOMAIN blocked, blocked[i] = c,
             blocked' = SubSeq(blocked, 1, i - 1) \o SubSeq(blocked, i + 1, Len(blocked))
      PROVE  /\ \A k, l \in DOMAIN blocked' : blocked'[k] = blocked'[l] => k = l
             /\ \A k \in DOMAIN blocked' :
                  blocked'[k] # c /\ \E j \in DOMAIN blocked : blocked'[k] = blocked[j]
  <2> DEFINE n == Len(blocked)
             a == SubSeq(blocked, 1, i - 1)
             b == SubSeq(blocked, i + 1, n)
  <2>1. n \in Nat /\ i \in 1 .. n /\ DOMAIN blocked = 1 .. n
    OBVIOUS
  <2>2. /\ a \in Seq(Callers) /\ Len(a) = i - 1
        /\ \A k \in 1 .. (i - 1) : a[k] = blocked[k]
    <3>1. \A k \in 1 .. (i - 1) : blocked[k] \in Callers
      BY <2>1
    <3> QED
      BY <2>1, <3>1, SubSeqProperties
  <2>3. /\ b \in Seq(Callers) /\ Len(b) = n - i
        /\ \A k \in 1 .. (n - i) : b[k] = blocked[i + k]
    <3>1. \A k \in (i + 1) .. n : blocked[k] \in Callers
      BY <2>1
    <3> QED
      BY <2>1, <3>1, SubSeqProperties
  <2> HIDE DEF a, b, n
  <2>4. blocked' = a \o b
    BY <1>2 DEF a, b, n
  <2>5. /\ DOMAIN blocked' = 1 .. (n - 1)
        /\ \A k \in 1 .. (n - 1) : blocked'[k] = IF k < i THEN blocked[k] ELSE blocked[k + 1]
    <3>1. a \o b \in Seq(Callers) /\ Len(a \o b) = Len(a) + Len(b)
      BY <2>2, <2>3, ConcatProperties
    <3>2. Len(a \o b) = n - 1 /\ DOMAIN (a \o b) = 1 .. (n - 1)
      BY <2>1, <2>2, <2>3, <3>1
    <3>3. ASSUME NEW k \in 1 .. (n - 1) PROVE (a \o b)[k] = IF k < i THEN blocked[k] ELSE blocked[k + 1]
      <4>1. k \in 1 .. (Len(a) + Len(b)) /\ (k <= Len(a) <=> k < i)
        BY <2>1, <2>2, <2>3
      <4>2. (a \o b)[k] = IF k <= Len(a) THEN a[k] ELSE b[k - Len(a)]
        BY <2>2, <2>3, <4>1, ConcatProperties
      <4>3. CASE k < i
        <5>1. k \in 1 .. (i - 1)
          BY <2>1, <4>3
        <5> QED
          BY <2>2, <4>1, <4>2, <4>3, <5>1
      <4>4. CASE ~(k < i)
        <5>1. k - Len(a) \in 1 .. (n - i) /\ i + (k - Len(a)) = k + 1
          BY <2>1, <2>2, <4>4
        <5> QED
          BY <2>3, <4>1, <4>2, <4>4, <5>1
      <4> QED
        BY <4>3, <4>4
    <3> QED
      BY <2>4, <3>2, <3>3
  <2>6. \A k \in 1 .. n, l \in 1 .. n : blocked[k] = blocked[l] => k = l
    BY <2>1 DEF InLine
  <2>7. ASSUME NEW k \in DOMAIN blocked', NEW l \in DOMAIN blocked', blocked'[k] = blocked'[l]
        PROVE  k = l
    BY <2>1, <2>5, <2>6, <2>7
  <2>8. ASSUME NEW k \in DOMAIN blocked'
        PROVE  blocked'[k] # c /\ \E j \in DOMAIN blocked : blocked'[k] = blocked[j]
    <3>1. PICK j \in 1 .. n : j # i /\ blocked'[k] = blocked[j]
      BY <2>1, <2>5
    <3> QED
      BY <1>2, <2>1, <2>6, <3>1
  <2> QED
    BY <2>7, <2>8
<1> QED
  BY <1>1, <1>2 DEF Unblock

(* The line, when c leaves it and only c moves.                            *)
LEMMA LineKept ==
  ASSUME Inv, InLine, NEW c \in Callers,
         Unblock(c) \/ (UNCHANGED blocked /\ ~IsBlocked(c)),
         \A d \in Callers \ {c} : pc'[d] = pc[d]
  PROVE  InLine'
<1>1. blocked \in Seq(Callers)
  BY DEF Inv, Typed, TypeOK
<1>2. /\ \A i, j \in DOMAIN blocked' : blocked'[i] = blocked'[j] => i = j
      /\ \A i \in DOMAIN blocked' :
           blocked'[i] # c /\ \E j \in DOMAIN blocked : blocked'[i] = blocked[j]
  BY <1>1, UnblockLine DEF InLine, IsBlocked
<1>3. ASSUME NEW i \in DOMAIN blocked' PROVE pc'[blocked'[i]] \in {"clear", "flush", "shutdown"}
  <2>1. PICK j \in DOMAIN blocked : blocked'[i] = blocked[j]
    BY <1>2
  <2>2. blocked[j] \in Callers \ {c} /\ Sending(blocked[j])
    BY <1>1, <1>2, <2>1 DEF InLine
  <2> QED
    BY <2>1, <2>2 DEF Sending
<1> QED
  BY <1>2, <1>3 DEF InLine, Sending

(* A step of c that sends nothing and neither begins nor ends to wait.     *)
LEMMA QuietWaits ==
  ASSUME WaitInv, NEW c \in Callers, UNCHANGED <<queue, batch, writer>>,
         \A d \in Callers \ {c} : pc'[d] = pc[d] /\ barrierNo'[d] = barrierNo[d],
         pc[c] = "await" => c \in Clients, pc'[c] # "await",
         Roles', InLine',
         c = Main => (pc[c] \in {"join", "done"} <=> pc'[c] \in {"join", "done"}),
         c = Main /\ pc'[c] = "done" => writer = "stopped"
  PROVE  Waits'
<1>1. Operations' = Operations /\ Main \in Callers /\ (c \in Clients => c # Main)
  BY ChatCacheAssumption DEF Operations, Callers
<1>2. Awaited'
  BY <1>1 DEF WaitInv, Waits, NobodyForgotten, Awaited
<1>3. ShutdownJoined'
  BY <1>1 DEF WaitInv, Waits, NobodyForgotten, ShutdownJoined
<1> QED
  BY <1>2, <1>3 DEF Waits, NobodyForgotten

LEMMA CallWaits ==
  ASSUME WaitInv, NEW c \in Callers,
         \/ \E u \in Users : CallClear(c, u)
         \/ CallFlush(c)
         \/ CallShutdown /\ c = Main
  PROVE  Waits'
<1>1. PICK label \in {"clear", "flush", "shutdown"}, u \in Users \cup {Nobody} :
        /\ Call(c, label, u)
        /\ IF label = "shutdown" THEN c = Main ELSE c \in Clients
  BY DEF CallClear, CallFlush, CallShutdown
<1>2. pc \in [Callers -> ClientLabels \cup MainLabels] /\ barrierNo \in [Callers -> Nat]
  BY DEF WaitInv, Inv, Typed, TypeOK
<1>3. /\ pc[c] = "idle" /\ pc'[c] = label /\ UNCHANGED <<queue, batch, writer, blocked>>
      /\ \A d \in Callers \ {c} : pc'[d] = pc[d] /\ barrierNo'[d] = barrierNo[d]
  BY <1>1, <1>2 DEF Call, writerVars
<1>4. Roles'
  BY <1>1, <1>3, ChatCacheAssumption
  DEF WaitInv, Waits, Roles, ClientLabels, MainLabels, Callers
<1>5. ~IsBlocked(c)
  BY <1>3 DEF WaitInv, Waits, NobodyForgotten, InLine, IsBlocked, Sending
<1>6. InLine'
  BY <1>3, <1>5, LineKept DEF WaitInv, Waits, NobodyForgotten
<1> QED
  BY <1>1, <1>3, <1>4, <1>6, QuietWaits

LEMMA LeaveWaits ==
  ASSUME WaitInv, NEW c \in Callers, SendClosed(c) \/ Return(c) \/ Abandon(c)
  PROVE  Waits'
<1>1. pc \in [Callers -> ClientLabels \cup MainLabels] /\ barrierNo' = barrierNo
  BY DEF WaitInv, Inv, Typed, TypeOK, SendClosed, Return, Abandon
<1>2. c = Main \/ c \in Clients
  BY DEF Callers
<1>3. Roles /\ ShutdownJoined /\ InLine
  BY DEF WaitInv, Waits, NobodyForgotten
<1>4. /\ UNCHANGED <<queue, batch, writer>>
      /\ \A d \in Callers \ {c} : pc'[d] = pc[d] /\ barrierNo'[d] = barrierNo[d]
  BY <1>1 DEF SendClosed, Return, Abandon, writerVars
<1>5. CASE SendClosed(c)
  <2>1. c \in Clients /\ c # Main
    BY <1>2, <1>3, <1>5, ChatCacheAssumption DEF SendClosed, Sending, Open, ShutdownJoined
  <2>2. pc[c] # "await" /\ pc'[c] = "err"
    BY <1>1, <1>5, <2>1 DEF SendClosed, Sending
  <2>3. Roles'
    BY <1>3, <1>4, <2>1, <2>2 DEF Roles, ClientLabels, Callers
  <2>4. InLine'
    BY <1>3, <1>4, <1>5, LineKept DEF SendClosed, WaitInv
  <2> QED
    BY <1>4, <2>1, <2>2, <2>3, <2>4, QuietWaits
<1>6. CASE Return(c)
  <2>1. \/ c \in Clients /\ c # Main /\ pc[c] \in {"ok", "err"} /\ pc'[c] = "idle"
        \/ c = Main /\ pc[c] = "join" /\ pc'[c] = "done" /\ writer = "stopped"
    BY <1>1, <1>2, <1>3, <1>6, ChatCacheAssumption
    DEF Return, Roles, ClientLabels, MainLabels, Open
  <2>2. Roles'
    BY <1>3, <1>4, <2>1, ChatCacheAssumption DEF Roles, ClientLabels, MainLabels, Callers
  <2>3. ~IsBlocked(c)
    BY <1>3, <2>1 DEF InLine, IsBlocked, Sending
  <2>4. InLine'
    BY <1>3, <1>4, <1>6, <2>3, LineKept DEF Return, WaitInv
  <2> QED
    BY <1>4, <2>1, <2>2, <2>4, QuietWaits
<1>7. CASE Abandon(c)
  <2>1. c \in Clients /\ c # Main /\ pc'[c] = "idle"
    BY <1>1, <1>7, ChatCacheAssumption DEF Abandon
  <2>2. Roles'
    BY <1>3, <1>4, <2>1 DEF Roles, ClientLabels, Callers
  <2>3. InLine'
    BY <1>3, <1>4, <1>7, LineKept DEF Abandon, WaitInv
  <2> QED
    BY <1>4, <2>1, <2>2, <2>3, QuietWaits
<1> QED
  BY <1>5, <1>6, <1>7

LEMMA SaveWaits ==
  ASSUME WaitInv, NEW c \in Callers, NEW u \in Users, Save(c, u)
  PROVE  Waits'
<1>1. /\ UNCHANGED <<pc, barrierNo, blocked, writer, batch>>
      /\ Enqueue("save", u)
  BY DEF Save, callerVars, writerVars
<1> DEFINE op == [kind |-> "save", user |-> u, no |-> sent + 1]
<1>2. Operations' = Operations \cup {op} /\ op.kind = "save"
  BY <1>1, EnqueueOperations DEF WaitInv
<1> HIDE DEF op
<1>3. Roles' /\ InLine'
  BY <1>1 DEF WaitInv, Waits, NobodyForgotten, Roles, InLine, Sending
<1>4. Awaited' /\ ShutdownJoined'
  BY <1>1, <1>2 DEF WaitInv, Waits, NobodyForgotten, Awaited, ShutdownJoined
<1> QED
  BY <1>3, <1>4 DEF Waits, NobodyForgotten

LEMMA SentWaits ==
  ASSUME WaitInv, NEW c \in Callers, Sent(c), Sending(c), Open, UNCHANGED <<batch, writer>>, InLine'
  PROVE  Waits'
<1> DEFINE op == [kind |-> pc[c], user |-> target[c], no |-> sent + 1]
<1>1. pc \in [Callers -> ClientLabels \cup MainLabels] /\ barrierNo \in [Callers -> Nat]
  BY DEF WaitInv, Inv, Typed, TypeOK
<1>2. Operations' = Operations \cup {op} /\ op.kind = pc[c] /\ op.no = sent + 1
  BY EnqueueOperations DEF WaitInv, Sent
<1> HIDE DEF op
<1>3. Roles /\ ShutdownJoined /\ Awaited
  BY DEF WaitInv, Waits, NobodyForgotten
<1>4. Main \in Callers /\ Main \notin Clients /\ (c = Main \/ c \in Clients)
  BY ChatCacheAssumption DEF Callers
<1>5. \/ c # Main /\ pc[c] = "clear" /\ pc'[c] = "flush" /\ barrierNo' = barrierNo
      \/ /\ pc[c] = IF c = Main THEN "shutdown" ELSE "flush"
         /\ pc'[c] = "await" /\ barrierNo'[c] = sent + 1
  BY <1>1, <1>3, <1>4 DEF Sent, Sending, Roles, ClientLabels, MainLabels
<1>6. \A d \in Callers \ {c} : pc'[d] = pc[d] /\ barrierNo'[d] = barrierNo[d]
  BY <1>1 DEF Sent
<1>7. Roles'
  BY <1>3, <1>4, <1>5, <1>6 DEF Roles, ClientLabels, MainLabels, Callers
<1>8. Awaited'
  <2>1. ASSUME NEW d \in Callers, pc'[d] = "await"
        PROVE  \E o \in Operations' : /\ o.no = barrierNo'[d]
                                      /\ o.kind = IF d = Main THEN "shutdown" ELSE "flush"
    <3>1. CASE d = c
      BY <1>2, <1>5, <2>1, <3>1
    <3>2. CASE d # c
      BY <1>2, <1>3, <1>6, <2>1, <3>2 DEF Awaited
    <3> QED
      BY <3>1, <3>2
  <2> QED
    BY <2>1 DEF Awaited
<1>9. ShutdownJoined'
  <2>1. \A label \in {"join", "done"} : pc'[Main] = label <=> pc[Main] = label
    BY <1>3, <1>4, <1>5, <1>6
  <2>2. CASE c = Main
    <3>1. \A o \in Operations : o.kind # "shutdown"
      BY <1>3, <1>5, <2>2 DEF ShutdownJoined
    <3> QED
      BY <1>2, <1>3, <1>5, <2>1, <2>2, <3>1 DEF ShutdownJoined
  <2>3. CASE c # Main
    BY <1>2, <1>3, <1>4, <1>5, <1>6, <2>1, <2>3 DEF ShutdownJoined
  <2> QED
    BY <2>2, <2>3
<1> QED
  BY <1>7, <1>8, <1>9 DEF Waits, NobodyForgotten

LEMMA SendWaits ==
  ASSUME WaitInv, NEW c \in Callers, Send(c) \/ SendBlocked(c)
  PROVE  Waits'
<1>1. /\ Sending(c) /\ Open /\ UNCHANGED <<batch, writer>>
      /\ pc \in [Callers -> ClientLabels \cup MainLabels] /\ blocked \in Seq(Callers)
  BY DEF Send, SendBlocked, writerVars, WaitInv, Inv, Typed, TypeOK
<1>2. ASSUME Sent(c), Unblock(c) \/ (UNCHANGED blocked /\ ~IsBlocked(c)) PROVE Waits'
  <2>1. \A d \in Callers \ {c} : pc'[d] = pc[d]
    BY <1>1, <1>2 DEF Sent
  <2>2. InLine'
    BY <1>2, <2>1, LineKept DEF WaitInv, Waits, NobodyForgotten
  <2> QED
    BY <1>1, <1>2, <2>2, SentWaits
<1>3. CASE /\ ~IsBlocked(c) /\ blocked' = Append(blocked, c)
           /\ UNCHANGED <<pc, clearNo, barrierNo, queue, sent>>
  <2>1. Operations' = Operations
    BY <1>1, <1>3 DEF Operations
  <2>2. /\ \A i \in DOMAIN blocked : blocked[i] # c /\ Sending(blocked[i])
        /\ \A i, j \in DOMAIN blocked : blocked[i] = blocked[j] => i = j
    BY <1>3 DEF IsBlocked, WaitInv, Waits, NobodyForgotten, InLine
  <2>3. \A i \in DOMAIN blocked' : IF i = Len(blocked) + 1 THEN blocked'[i] = c
                                   ELSE i \in DOMAIN blocked /\ blocked'[i] = blocked[i]
    BY <1>1, <1>3
  <2>4. InLine'
    BY <1>1, <1>3, <2>2, <2>3 DEF InLine, Sending
  <2> QED
    BY <1>1, <1>3, <2>1, <2>4
    DEF WaitInv, Waits, NobodyForgotten, Roles, Awaited, ShutdownJoined
<1> QED
  BY <1>2, <1>3 DEF Send, SendBlocked

(* A batch that ends answers those whose barrier it holds, and no others.  *)
LEMMA EndWaits ==
  ASSUME WaitInv, writer = "write", NEW answer \in {"ok", "err"}, EndBatch(answer)
  PROVE  Waits'
<1>1. /\ pc' = [c \in Callers |-> IF c \notin Waiting THEN pc[c]
                                  ELSE IF c = Main THEN "join" ELSE answer]
      /\ writer' = IF Stopping THEN "exit" ELSE "recv"
      /\ batch' = <<>> /\ UNCHANGED <<queue, blocked, barrierNo>>
  BY DEF EndBatch
<1>2. Roles /\ InLine /\ Awaited /\ ShutdownJoined /\ Main \in Callers /\ Main \notin Clients
  BY ChatCacheAssumption DEF WaitInv, Waits, NobodyForgotten, Callers
<1>3. Operations' = {queue[j] : j \in DOMAIN queue}
  BY <1>1 DEF Operations
<1>4. \A i \in DOMAIN batch, j \in DOMAIN queue : batch[i].no # queue[j].no
  <2>1. \A i \in DOMAIN batch : batch[i].no \in Nat
    BY DEF WaitInv, Inv, Typed, TypeOK, Ops, Numbers
  <2>2. \A j \in DOMAIN queue : queue[j].no \in Nat
    BY DEF WaitInv, Inv, Typed, TypeOK, Ops, Numbers
  <2> QED
    BY <2>1, <2>2 DEF WaitInv, Inv, Fifo
<1>5. Roles'
  BY <1>1, <1>2 DEF Roles, ClientLabels, MainLabels, Callers
<1>6. InLine'
  <2>1. \A c \in Callers : Sending(c) => Sending(c)'
    BY <1>1 DEF Sending, Waiting
  <2>2. blocked \in Seq(Callers)
    BY DEF WaitInv, Inv, Typed, TypeOK
  <2> QED
    BY <1>1, <1>2, <2>1, <2>2 DEF InLine
<1>7. Awaited'
  <2>1. ASSUME NEW c \in Callers, pc'[c] = "await"
        PROVE  \E op \in Operations' : /\ op.no = barrierNo'[c]
                                       /\ op.kind = IF c = Main THEN "shutdown" ELSE "flush"
    <3>1. c \notin Waiting /\ pc[c] = "await"
      BY <1>1, <2>1
    <3>2. PICK op \in Operations : /\ op.no = barrierNo[c]
                                   /\ op.kind = IF c = Main THEN "shutdown" ELSE "flush"
      BY <1>2, <3>1 DEF Awaited
    <3>3. \A i \in DOMAIN batch : batch[i] # op
      BY <3>1, <3>2 DEF Waiting
    <3> QED
      BY <1>1, <1>3, <3>2, <3>3 DEF Operations
  <2> QED
    BY <2>1 DEF Awaited
<1>8. ShutdownJoined'
  <2>1. pc[Main] \notin {"join", "done"}
    BY <1>2 DEF ShutdownJoined
  <2>2. ASSUME NEW op \in Operations', op.kind = "shutdown"
        PROVE  pc'[Main] = "await" /\ op.no = barrierNo'[Main]
    <3>1. PICK j \in DOMAIN queue : op = queue[j]
      BY <1>3
    <3>2. pc[Main] = "await" /\ op.no = barrierNo[Main]
      BY <1>2, <2>2, <3>1 DEF ShutdownJoined, Operations
    <3>3. Main \notin Waiting
      BY <1>4, <3>1, <3>2 DEF Waiting
    <3> QED
      BY <1>1, <1>2, <3>2, <3>3
  <2>3. Stopping <=> Main \in Waiting
    <3>1. ASSUME NEW i \in DOMAIN batch, batch[i].kind = "shutdown" PROVE Main \in Waiting
      BY <1>2, <3>1 DEF ShutdownJoined, Operations, Waiting
    <3>2. ASSUME Main \in Waiting PROVE Stopping
      <4>1. PICK i \in DOMAIN batch : batch[i].no = barrierNo[Main]
        BY <3>2 DEF Waiting
      <4>2. PICK op \in Operations : op.no = barrierNo[Main] /\ op.kind = "shutdown"
        BY <1>2, <3>2 DEF Awaited, Waiting
      <4>3. \A j \in DOMAIN queue : queue[j] # op
        BY <1>4, <4>1, <4>2
      <4> QED
        BY <4>2, <4>3 DEF Operations, Stopping
    <3> QED
      BY <3>1, <3>2 DEF Stopping
  <2>4. writer' \in {"exit", "stopped"} <=> pc'[Main] \in {"join", "done"}
    BY <1>1, <1>2, <2>1, <2>3
  <2>5. pc'[Main] # "done"
    BY <1>1, <1>2, <2>1
  <2> QED
    BY <2>2, <2>4, <2>5 DEF ShutdownJoined
<1> QED
  BY <1>5, <1>6, <1>7, <1>8 DEF Waits, NobodyForgotten

(* The writer ends when nobody waits for it but who joins it: the others   *)
(* in the queue are told.                                                  *)
LEMMA ExitWaits ==
  ASSUME WaitInv, Exit
  PROVE  Waits'
<1>1. /\ writer = "exit" /\ writer' = "stopped" /\ batch = <<>> /\ batch' = <<>> /\ queue' = <<>>
      /\ UNCHANGED <<blocked, barrierNo>>
      /\ pc' = [c \in Callers |->
                  IF pc[c] = "await" /\ \E i \in DOMAIN queue : queue[i].no = barrierNo[c]
                  THEN "err" ELSE pc[c]]
  BY DEF Exit, WaitInv, Inv, Typed, Position
<1>2. Roles /\ InLine /\ Awaited /\ ShutdownJoined /\ Main \in Callers /\ Main \notin Clients
  BY ChatCacheAssumption DEF WaitInv, Waits, NobodyForgotten, Callers
<1>3. pc[Main] \in {"join", "done"} /\ pc'[Main] = pc[Main]
  BY <1>1, <1>2 DEF ShutdownJoined
<1>4. Roles'
  BY <1>1, <1>2, <1>3 DEF Roles, ClientLabels, Callers
<1>5. InLine'
  <2>1. \A c \in Callers : Sending(c) => Sending(c)'
    BY <1>1 DEF Sending
  <2>2. blocked \in Seq(Callers)
    BY DEF WaitInv, Inv, Typed, TypeOK
  <2> QED
    BY <1>1, <1>2, <2>1, <2>2 DEF InLine
<1>6. ASSUME NEW c \in Callers PROVE pc'[c] # "await"
  <2>1. CASE pc[c] = "await"
    <3>1. PICK op \in Operations : op.no = barrierNo[c]
      BY <1>2, <2>1 DEF Awaited
    <3>2. \E i \in DOMAIN queue : queue[i].no = barrierNo[c]
      BY <1>1, <3>1 DEF Operations
    <3> QED
      BY <1>1, <2>1, <3>2
  <2> QED
    BY <1>1, <2>1
<1>7. Operations' = {}
  BY <1>1 DEF Operations
<1>8. Awaited' /\ ShutdownJoined'
  BY <1>1, <1>3, <1>6, <1>7 DEF Awaited, ShutdownJoined
<1> QED
  BY <1>4, <1>5, <1>8 DEF Waits, NobodyForgotten

(* Steps of the writer within a batch.                                     *)
LEMMA BatchWaits ==
  ASSUME WaitInv, Receive \/ TryReceive \/ BeginBatch \/ Apply
  PROVE  Waits'
<1>1. /\ UNCHANGED <<pc, barrierNo, blocked>>
      /\ writer \notin {"exit", "stopped"} /\ writer' \notin {"exit", "stopped"}
  BY DEF Receive, TryReceive, BeginBatch, Apply, callerVars
<1>2. Operations' = Operations
  <2>1. CASE Receive \/ TryReceive
    BY <2>1, ReceiveOperations DEF WaitInv
  <2>2. CASE BeginBatch \/ Apply
    BY <2>2 DEF BeginBatch, Apply, Operations
  <2> QED
    BY <2>1, <2>2
<1> QED
  BY <1>1, <1>2
  DEF WaitInv, Waits, NobodyForgotten, Roles, InLine, Sending, Awaited, ShutdownJoined

LEMMA StartWaits == (Init => Waits) /\ (Restart => Waits')
<1>1. Main \in Callers /\ \A c \in Clients : c \in Callers
  BY DEF Callers
<1>2. Init => Waits
  BY <1>1 DEF Init, Waits, NobodyForgotten, Roles, InLine, Awaited, ShutdownJoined, Operations,
     MainLabels, ClientLabels
<1>3. Restart => Waits'
  BY <1>1 DEF Restart, Waits, NobodyForgotten, Roles, InLine, Awaited, ShutdownJoined, Operations,
     MainLabels, ClientLabels
<1> QED
  BY <1>2, <1>3

LEMMA NextWaits == WaitInv /\ [Next]_vars => Waits'
<1> SUFFICES ASSUME WaitInv, [Next]_vars PROVE Waits'
  OBVIOUS
<1>1. ASSUME NEW c \in Callers, NEW u \in Users, Save(c, u) \/ CallClear(c, u) PROVE Waits'
  BY <1>1, SaveWaits, CallWaits
<1>2. ASSUME NEW c \in Callers, CallFlush(c) \/ Progress(c) \/ Abandon(c) PROVE Waits'
  BY <1>2, CallWaits, SendWaits, LeaveWaits DEF Progress
<1>3. CASE CallShutdown
  <2>1. Main \in Callers
    BY DEF Callers
  <2> QED
    BY <1>3, <2>1, CallWaits
<1>4. CASE WriterStep
  BY <1>4, BatchWaits, EndWaits, ExitWaits DEF WriterStep, Commit, Fail
<1>5. CASE Restart
  BY <1>5, StartWaits
<1>6. CASE UNCHANGED vars
  BY <1>6 DEF vars, callerVars, writerVars, WaitInv, Waits, NobodyForgotten, Roles, InLine, Sending,
     Awaited, ShutdownJoined, Operations
<1> QED
  BY <1>1, <1>2, <1>3, <1>4, <1>5, <1>6 DEF Next

(* Nobody waits in vain (lines 56-96, 142-170): whoever waits for a        *)
(* barrier has it queued or in the batch, so the writer will come to it;   *)
(* the slots that become free are given to callers that still want them,   *)
(* one each, whoever was abandoned; and the writer ends exactly with the   *)
(* shutdown that somebody joins, never before it.                          *)
THEOREM NobodyIsForgotten == Spec => []NobodyForgotten
<1>1. Init => WaitInv
  BY InitInv, StartWaits DEF WaitInv
<1>2. WaitInv /\ [Next]_vars => WaitInv'
  BY NextInv, NextWaits DEF WaitInv
<1>3. WaitInv => NobodyForgotten
  BY DEF WaitInv, Waits
<1> QED
  BY <1>1, <1>2, <1>3, PTL DEF Spec
============================================================================
