----------------------------- MODULE ChatCache -----------------------------
(***************************************************************************)
(* The write-behind cache of chat turns (repos/chat_history_cache.rs): a   *)
(* bounded channel of operations, one writer task that commits them in     *)
(* small transactions, and the callers that save, clear and flush.         *)
(*                                                                         *)
(* Data abstraction.  Operations are numbered in the order in which the    *)
(* channel accepts them; the number of a Save stands for its turn, role    *)
(* and content included.  A row of chat_history is that turn under the id  *)
(* that generate_time_id (repos/mod.rs) gave it, larger than every earlier *)
(* one; across restarts this takes a wall clock that does not go back.     *)
(*                                                                         *)
(* A call that fails without a trace (save on a full or closed channel or  *)
(* over 64 KiB) is no step.                                                *)
(***************************************************************************)
EXTENDS Naturals, Sequences, FiniteSets

CONSTANTS
  Users,
  Nobody,        \* the user of an operation that concerns nobody
  Clients,       \* tasks that use the cache
  Main,          \* the task that shuts it down
  Capacity,      \* WRITE_QUEUE_CAPACITY
  BatchSize,     \* MAX_WRITE_BATCH_SIZE
  MaxMessages,   \* CHAT_CACHE_MAX_MESSAGES
  MaxOps         \* bound: operations accepted in a behaviour

ASSUME ChatCacheAssumption ==
  /\ Nobody \notin Users
  /\ Main \notin Clients
  /\ Capacity \in Nat \ {0}
  /\ BatchSize \in Nat \ {0}
  /\ MaxMessages \in Nat \ {0}
  /\ MaxOps \in Nat

VARIABLES
  pc, target,            \* each caller's position, and the user it clears
  clearNo, barrierNo,    \* the numbers of its Clear and of its Flush or Shutdown
  queue,                 \* the channel
  blocked,               \* callers in send().await, in order of arrival
  writer, batch, next,   \* the writer task; batch[next] is to be applied
  txn,                   \* the rows as the open transaction sees them
  rows,                  \* the committed rows of chat_history
  lastId,                \* generate_time_id's LAST_ID
  sent,                  \* history: operations accepted so far
  failedClears,          \* history: Clears whose batch was rolled back
  promised               \* history: promised[u] are the Clears of u that returned
                         \*   Ok and are not among failedClears

callerVars == <<pc, target, clearNo, barrierNo>>
writerVars == <<writer, batch, next, txn>>
tableVars  == <<rows, lastId, failedClears, promised>>
vars == <<callerVars, queue, blocked, writerVars, tableVars, sent>>

Callers == Clients \cup {Main}
Numbers == Nat \ {0}
Ops  == [kind : {"save", "clear"}, user : Users, no : Numbers]
          \cup [kind : {"flush", "shutdown"}, user : Users \cup {Nobody}, no : Numbers]
Rows == [id : Nat, user : Users, turn : Numbers]

ClientLabels == {"idle", "clear", "flush", "await", "ok", "err"}
MainLabels   == {"idle", "shutdown", "await", "join", "done"}

TypeOK == /\ pc \in [Callers -> ClientLabels \cup MainLabels]
          /\ target \in [Callers -> Users \cup {Nobody}]
          /\ clearNo \in [Callers -> Nat]
          /\ barrierNo \in [Callers -> Nat]
          /\ queue \in Seq(Ops) /\ Len(queue) <= Capacity
          /\ blocked \in Seq(Callers)
          /\ writer \in {"recv", "drain", "write", "exit", "stopped"}
          /\ batch \in Seq(Ops) /\ Len(batch) <= BatchSize
          /\ next \in Nat
          /\ txn \subseteq Rows
          /\ rows \subseteq Rows
          /\ lastId \in Nat
          /\ sent \in Nat
          /\ failedClears \subseteq Numbers
          /\ promised \in [Users -> SUBSET Numbers]

Init == /\ pc = [c \in Callers |-> "idle"]
        /\ target = [c \in Callers |-> Nobody]
        /\ clearNo = [c \in Callers |-> 0]
        /\ barrierNo = [c \in Callers |-> 0]
        /\ queue = <<>>
        /\ blocked = <<>>
        /\ writer = "recv"
        /\ batch = <<>>
        /\ next = 1
        /\ txn = {}
        /\ rows = {}
        /\ lastId = 0
        /\ sent = 0
        /\ failedClears = {}
        /\ promised = [u \in Users |-> {}]

----------------------------------------------------------------------------
(* The channel *)

Open == writer # "stopped"

FreeSlots == Capacity - Len(queue)

\* Freed permits go to blocked senders first, in order of arrival; only what
\* is left over serves try_send and new senders.
SlotForNewcomer == Len(blocked) < FreeSlots

Enqueue(kind, user) ==
  /\ sent' = sent + 1
  /\ queue' = Append(queue, [kind |-> kind, user |-> user, no |-> sent + 1])

IsBlocked(c) == \E i \in DOMAIN blocked : blocked[i] = c

Unblock(c) ==
  \/ \E i \in DOMAIN blocked :
       /\ blocked[i] = c
       /\ blocked' = SubSeq(blocked, 1, i - 1) \o SubSeq(blocked, i + 1, Len(blocked))
  \/ ~IsBlocked(c) /\ UNCHANGED blocked

\* Operations that running calls still have to send; a call starts only when
\* the bound leaves room for all of its operations.
Owed == 2 * Cardinality({c \in Callers : pc[c] = "clear"})
          + Cardinality({c \in Callers : pc[c] \in {"flush", "shutdown"}})
Budget(n) == sent + Owed + n <= MaxOps

----------------------------------------------------------------------------
(* Callers *)

\* save: enqueue with try_send.
Save(c, u) == /\ pc[c] = "idle" /\ c \in Clients
              /\ Open /\ SlotForNewcomer /\ Budget(1)
              /\ Enqueue("save", u)
              /\ UNCHANGED <<callerVars, blocked, writerVars, tableVars>>

Call(c, label, u) == /\ pc[c] = "idle"
                     /\ pc' = [pc EXCEPT ![c] = label]
                     /\ target' = [target EXCEPT ![c] = u]
                     /\ clearNo' = [clearNo EXCEPT ![c] = 0]
                     /\ barrierNo' = [barrierNo EXCEPT ![c] = 0]
                     /\ UNCHANGED <<queue, blocked, writerVars, tableVars, sent>>

CallClear(c, u) == c \in Clients /\ Budget(2) /\ Call(c, "clear", u)
CallFlush(c)    == c \in Clients /\ Budget(1) /\ Call(c, "flush", Nobody)
CallShutdown    == Budget(1) /\ Call(Main, "shutdown", Nobody)

\* send has been given a slot: the call goes on to its flush, or waits.
Sent(c) == /\ Enqueue(pc[c], target[c])
           /\ IF pc[c] = "clear"
              THEN /\ pc' = [pc EXCEPT ![c] = "flush"]
                   /\ clearNo' = [clearNo EXCEPT ![c] = sent + 1]
                   /\ UNCHANGED barrierNo
              ELSE /\ pc' = [pc EXCEPT ![c] = "await"]
                   /\ barrierNo' = [barrierNo EXCEPT ![c] = sent + 1]
                   /\ UNCHANGED clearNo

Sending(c) == pc[c] \in {"clear", "flush", "shutdown"}

Send(c) == /\ Sending(c) /\ ~IsBlocked(c) /\ Open
           /\ \/ /\ SlotForNewcomer
                 /\ Sent(c)
                 /\ UNCHANGED blocked
              \/ /\ ~SlotForNewcomer
                 /\ blocked' = Append(blocked, c)
                 /\ UNCHANGED <<pc, clearNo, barrierNo, queue, sent>>
           /\ UNCHANGED <<target, writerVars, tableVars>>

\* A blocked sender whose turn has come.
SendBlocked(c) == /\ \E i \in DOMAIN blocked : i <= FreeSlots /\ blocked[i] = c
                  /\ Sending(c) /\ Open
                  /\ Sent(c)
                  /\ Unblock(c)
                  /\ UNCHANGED <<target, writerVars, tableVars>>

\* The writer is gone: send fails, with the call or, in shutdown, ignored.
SendClosed(c) == /\ Sending(c) /\ ~Open
                 /\ pc' = [pc EXCEPT ![c] = IF c = Main THEN "join" ELSE "err"]
                 /\ Unblock(c)
                 /\ UNCHANGED <<target, clearNo, barrierNo, queue, writerVars, tableVars, sent>>

\* The call returns; shutdown does when it has joined the writer task.
Return(c) == /\ \/ pc[c] \in {"ok", "err"} /\ pc' = [pc EXCEPT ![c] = "idle"]
                \/ pc[c] = "join" /\ ~Open /\ pc' = [pc EXCEPT ![c] = "done"]
             /\ UNCHANGED <<target, clearNo, barrierNo, queue, blocked, writerVars, tableVars, sent>>

\* A request that is cancelled (deadline, disconnect, shutdown) drops its
\* call wherever it stands; what it has sent stays sent.
Abandon(c) == /\ c \in Clients /\ pc[c] \in {"clear", "flush", "await"}
              /\ pc' = [pc EXCEPT ![c] = "idle"]
              /\ Unblock(c)
              /\ UNCHANGED <<target, clearNo, barrierNo, queue, writerVars, tableVars, sent>>

----------------------------------------------------------------------------
(* The writer task *)

Receive == /\ writer = "recv" /\ queue # <<>>
           /\ batch' = <<Head(queue)>>
           /\ queue' = Tail(queue)
           /\ writer' = "drain"
           /\ UNCHANGED <<callerVars, blocked, next, txn, tableVars, sent>>

\* Mutant of TryReceive: the batch has no limit.
TryReceiveAll == /\ writer = "drain" /\ queue # <<>>
                 /\ batch' = Append(batch, Head(queue))
                 /\ queue' = Tail(queue)
                 /\ UNCHANGED <<callerVars, blocked, writer, next, txn, tableVars, sent>>

\* Mutant of TryReceive: the batch is a stack.
TryReceivePush == /\ writer = "drain" /\ Len(batch) < BatchSize /\ queue # <<>>
                  /\ batch' = <<Head(queue)>> \o batch
                  /\ queue' = Tail(queue)
                  /\ UNCHANGED <<callerVars, blocked, writer, next, txn, tableVars, sent>>

TryReceive == /\ writer = "drain" /\ Len(batch) < BatchSize /\ queue # <<>>
              /\ batch' = Append(batch, Head(queue))
              /\ queue' = Tail(queue)
              /\ UNCHANGED <<callerVars, blocked, writer, next, txn, tableVars, sent>>

\* try_recv found nothing, or the batch is full: begin the transaction.
BeginBatch == /\ writer = "drain" /\ (Len(batch) = BatchSize \/ queue = <<>>)
              /\ writer' = "write"
              /\ next' = 1
              /\ txn' = rows
              /\ UNCHANGED <<callerVars, queue, blocked, batch, tableVars, sent>>

\* Mutant of Cleared: the delete runs outside the transaction's view.
ClearedCommitted(u) == {r \in txn : r.user # u \/ r \notin rows}

\* DELETE for one user, within the transaction.
Cleared(u) == {r \in txn : r.user # u}

\* One statement of write_batch.  Flush only registers its barrier, and
\* Shutdown has been set aside before.
Apply == /\ writer = "write" /\ next \in DOMAIN batch
         /\ LET op == batch[next]
            IN \/ /\ op.kind = "save"
                  /\ lastId' = lastId + 1
                  /\ txn' = txn \cup {[id |-> lastId + 1, user |-> op.user, turn |-> op.no]}
               \/ /\ op.kind = "clear"
                  /\ txn' = Cleared(op.user)
                  /\ UNCHANGED lastId
               \/ /\ op.kind \in {"flush", "shutdown"}
                  /\ UNCHANGED <<txn, lastId>>
         /\ next' = next + 1
         /\ UNCHANGED <<callerVars, queue, blocked, writer, batch, rows, failedClears, promised, sent>>

Touched == {batch[i].user : i \in {j \in DOMAIN batch : batch[j].kind \in {"save", "clear"}}}

\* trim_chat_history for the touched users: the MaxMessages largest ids stay.
Newer(r) == {s \in txn : s.user = r.user /\ s.id > r.id}

\* Mutant of Trimmed: one turn too many stays.
TrimmedLate == {r \in txn : r.user \in Touched => Cardinality(Newer(r)) <= MaxMessages}

Trimmed == {r \in txn : r.user \in Touched => Cardinality(Newer(r)) < MaxMessages}

\* Mutant of Waiting: the batch answers every caller.
WaitingAll == {c \in Callers : pc[c] = "await"}

\* Mutant of Waiting: the sender of the Shutdown is forgotten.
WaitingFlushes == {c \in Callers \ {Main} : /\ pc[c] = "await"
                                             /\ \E i \in DOMAIN batch : batch[i].no = barrierNo[c]}

\* The calls whose barrier is in the batch.
Waiting == {c \in Callers : /\ pc[c] = "await"
                            /\ \E i \in DOMAIN batch : batch[i].no = barrierNo[c]}

\* Mutant of Stopping: only the last operation is looked at.
StoppingLast == batch[Len(batch)].kind = "shutdown"

Stopping == \E i \in DOMAIN batch : batch[i].kind = "shutdown"

\* Barriers get their answer, the Shutdown sender is released in any case,
\* and the writer leaves its loop if there was one.
EndBatch(answer) ==
  /\ pc' = [c \in Callers |-> IF c \notin Waiting THEN pc[c]
                              ELSE IF c = Main THEN "join" ELSE answer]
  /\ writer' = IF Stopping THEN "exit" ELSE "recv"
  /\ batch' = <<>>
  /\ next' = 1
  /\ txn' = {}
  /\ UNCHANGED <<target, clearNo, barrierNo, queue, blocked, lastId, sent>>

\* Clears of u that return Ok with this commit and were not rolled back.
Honoured(u) == {clearNo[c] : c \in {d \in Waiting : target[d] = u}} \ (failedClears \cup {0})

Commit == /\ writer = "write" /\ next = Len(batch) + 1
          /\ rows' = Trimmed
          /\ promised' = [u \in Users |-> promised[u] \cup Honoured(u)]
          /\ UNCHANGED failedClears
          /\ EndBatch("ok")

\* begin, any statement, trim or commit fails: the transaction is rolled back,
\* and the barriers are dropped unanswered.
Fail == /\ writer = "write"
        /\ failedClears' = failedClears \cup
             {batch[i].no : i \in {j \in DOMAIN batch : batch[j].kind = "clear"}}
        /\ UNCHANGED <<rows, promised>>
        /\ EndBatch("err")

\* The task ends and its receiver with it: what is still queued is dropped,
\* and the waiting barriers with it.
Exit == /\ writer = "exit"
        /\ writer' = "stopped"
        /\ queue' = <<>>
        /\ pc' = [c \in Callers |->
             IF pc[c] = "await" /\ \E i \in DOMAIN queue : queue[i].no = barrierNo[c]
             THEN "err" ELSE pc[c]]
        /\ UNCHANGED <<target, clearNo, barrierNo, blocked, batch, next, txn, tableVars, sent>>

----------------------------------------------------------------------------

\* The process ends, by a crash at any point or after shutdown, and starts
\* again.  The database keeps what was committed.
Restart == /\ pc' = [c \in Callers |-> "idle"]
           /\ target' = [c \in Callers |-> Nobody]
           /\ clearNo' = [c \in Callers |-> 0]
           /\ barrierNo' = [c \in Callers |-> 0]
           /\ queue' = <<>>
           /\ blocked' = <<>>
           /\ writer' = "recv"
           /\ batch' = <<>>
           /\ next' = 1
           /\ txn' = {}
           /\ UNCHANGED <<tableVars, sent>>

WriterStep == Receive \/ TryReceive \/ BeginBatch \/ Apply \/ Commit \/ Fail \/ Exit

Progress(c) == Send(c) \/ SendBlocked(c) \/ SendClosed(c) \/ Return(c)

Next == \/ \E c \in Callers, u \in Users : Save(c, u) \/ CallClear(c, u)
        \/ \E c \in Callers : CallFlush(c) \/ Progress(c) \/ Abandon(c)
        \/ CallShutdown
        \/ WriterStep
        \/ Restart

Spec == Init /\ [][Next]_vars

(* The runtime keeps polling the writer task and the callers.              *)
FairSpec == Spec /\ WF_vars(WriterStep) /\ \A c \in Callers : WF_vars(Progress(c))

----------------------------------------------------------------------------

Undecided == {batch[i].no : i \in DOMAIN batch} \cup {queue[i].no : i \in DOMAIN queue}

(* flush, clear and shutdown are barriers: when one has been acknowledged, *)
(* every operation accepted before it has been committed or rolled back,   *)
(* whatever else was queued, batched or abandoned meanwhile (lines 57-72). *)
BarrierHolds ==
  \A c \in Callers : pc[c] \in {"ok", "join"} => \A n \in Undecided : n > barrierNo[c]

(* A clear that returned Ok and was not rolled back stays effective: no    *)
(* turn accepted before it is ever read again, after restarts included.    *)
ClearErases == \A r \in rows : \A n \in promised[r.user] : r.turn > n

(* Rows read by id come back in the order in which their turns were        *)
(* accepted, across batches, rollbacks and restarts (lines 126-207).       *)
TurnsInOrder == \A r, s \in rows : r.id < s.id => r.turn < s.turn

(* Trimming only the users a batch touched is enough: nobody's history     *)
(* outgrows the limit (lines 198-200, 209-227).                            *)
HistoryBounded ==
  \A u \in Users : Cardinality({r \in rows : r.user = u}) <= MaxMessages

(* docs/websocket-integration.md:96, "History clear waits for flush        *)
(* barrier": when clear returns Ok, the turns accepted before it are gone. *)
ClearIsFlushed ==
  \A c \in Clients : pc[c] = "ok" /\ clearNo[c] # 0 =>
    \A r \in rows : r.user = target[c] => r.turn > clearNo[c]

(* Every call comes back, also when the writer stops under it.             *)
CallsReturn ==
  \A c \in Callers : pc[c] \in {"clear", "flush", "shutdown", "await"} ~>
                       pc[c] \in {"idle", "ok", "err", "join"}

(* shutdown comes to its end: the queue is drained and the writer joined.  *)
ShutdownEnds == pc[Main] = "shutdown" ~> pc[Main] \in {"done", "idle"}

Operations == {batch[i] : i \in DOMAIN batch} \cup {queue[i] : i \in DOMAIN queue}
Turn(r) == [user |-> r.user, turn |-> r.turn]

(* The cache implements a log of operations that are done in their order   *)
(* and in blocks, all or nothing (repos/chat_history_cache.rs:126-207).    *)
Log == INSTANCE ChatLog WITH
         accepted <- sent,
         pending <- Operations,
         stored <- {Turn(r) : r \in rows}

LogSpec == Log!Spec
============================================================================
