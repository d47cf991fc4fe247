--------------------------- MODULE Conversation ---------------------------
(***************************************************************************)
(* What one user's turns do to what is kept about the user: the profile    *)
(* row, the chat turns in memory (AppState.user_contexts) and the chat     *)
(* turns in the cache.  A turn creates a profile                           *)
(* (services/bazi_service.rs), answers a chat message                      *)
(* (services/conversation.rs), gives an interactive reading                *)
(* (services/almanac.rs) or a scheduled one (scheduler.rs).                *)
(*                                                                         *)
(* A turn has two halves that can part company.  The request runs under    *)
(* the user's lane (Admission.tla) and can be dropped at any of its        *)
(* awaits: deadline, disconnect, shutdown.  The job is the task that       *)
(* wrap_persisted_stream spawns; it reads the answer to its end and stores *)
(* it, whether or not anybody still waits for it.                          *)
(*                                                                         *)
(* Data abstraction.  Pillars are numbered in the order in which they are  *)
(* stored, 0 is none; everything derived from pillars (a chat turn, the    *)
(* analysis, the summary, the chart) carries their number.  The cache is   *)
(* ChatCache.tla cut down to one user and one queue: a Clear stands for    *)
(* the operation and the flush behind it, a transaction for its operations *)
(* one by one, and history stays below CHAT_CACHE_MAX_MESSAGES.            *)
(***************************************************************************)
EXTENDS Naturals, Sequences

CONSTANTS
  Turns,         \* places for turns; a place is free again when both halves end
  MaxContext,    \* MAX_CONTEXT_MESSAGES
  MaxPending,    \* WRITE_QUEUE_CAPACITY of the cache
  MaxPillars,    \* bound: profiles created in a behaviour
  MaxMessages    \* bound: messages exchanged in a behaviour

ASSUME ConversationAssumption ==
  /\ MaxContext \in Nat \ {0}
  /\ MaxPending \in Nat \ {0}
  /\ MaxPillars \in Nat
  /\ MaxMessages \in Nat

VARIABLES
  row,           \* the user's row: pillars, analysis, summary; and the stored chart
  ctx,           \* the user's UserContext: history_loaded and messages
  pending,       \* cache operations accepted and not yet committed
  rows,          \* committed rows of chat_history, by id
  pc, kind,      \* the request half of each turn, and what it is about
  basis,         \* the pillars the turn works from
  seen,          \* the rows hydrate_chat_context has read
  job,           \* the job half of each turn
  left,          \* the messages a job still has to hand to the cache
  phase,         \* of the process
  messages,      \* history: how many messages there have been
  interrupted,   \* history: work of some turn was cut off from its request
  clearLost,     \* history: some Clear was rolled back
  owed           \* history: messages accepted by the cache, or about to be

store == <<row, ctx, pending, rows>>
turn == <<pc, kind, basis, seen, job, left>>
history == <<messages, interrupted, clearLost, owed>>
vars == <<store, turn, phase, history>>

Kinds == {"profile", "chat", "reading", "scheduled"}
Labels == {"idle", "start", "wipe", "clear", "barrier", "chart",
           "hydrate", "fill", "push", "save", "call", "stream", "deliver"}
Stages == {"none", "collect", "analysis", "push", "save", "summary", "done"}

Pillars == 0 .. MaxPillars
Message == [id : Nat \ {0}, basis : Pillars]
Op == [kind : {"save"}, msg : Message] \cup [kind : {"clear"}, by : Turns]

Absent == [loaded |-> FALSE, msgs |-> <<>>]   \* no entry in user_contexts

TypeOK ==
  /\ row \in [pillars : Pillars, analysis : Pillars, summary : Pillars, chart : Pillars]
  /\ ctx \in [loaded : BOOLEAN, msgs : Seq(Message)] /\ Len(ctx.msgs) <= MaxContext
  /\ pending \in Seq(Op) /\ Len(pending) <= MaxPending
  /\ rows \in Seq(Message)
  /\ pc \in [Turns -> Labels]
  /\ kind \in [Turns -> Kinds]
  /\ basis \in [Turns -> Pillars]
  /\ seen \in [Turns -> Seq(Message)]
  /\ job \in [Turns -> Stages]
  /\ left \in [Turns -> Seq(Message)]
  /\ phase \in {"up", "drain", "flush", "down"}
  /\ messages \in Nat
  /\ interrupted \in BOOLEAN
  /\ clearLost \in BOOLEAN
  /\ owed \subseteq Nat \ {0}

Init ==
  /\ row = [pillars |-> 0, analysis |-> 0, summary |-> 0, chart |-> 0]
  /\ ctx = Absent
  /\ pending = <<>>
  /\ rows = <<>>
  /\ pc = [t \in Turns |-> "idle"]
  /\ kind = [t \in Turns |-> "chat"]
  /\ basis = [t \in Turns |-> 0]
  /\ seen = [t \in Turns |-> <<>>]
  /\ job = [t \in Turns |-> "none"]
  /\ left = [t \in Turns |-> <<>>]
  /\ phase = "up"
  /\ messages = 0
  /\ interrupted = FALSE
  /\ clearLost = FALSE
  /\ owed = {}

----------------------------------------------------------------------------
(* Parts the handlers share *)

Running == phase \in {"up", "drain"}

\* Mutant of LaneFree: nothing is exclusive.
LaneOpen == TRUE

\* Admission.tla: the user's lane admits one request at a time.
LaneFree == \A t \in Turns : pc[t] = "idle"

Goto(t, label) == pc' = [pc EXCEPT ![t] = label]
Stage(t, stage) == job' = [job EXCEPT ![t] = stage]

LastOf(s, n) == SubSeq(s, Len(s) - n + 1, Len(s))
Newest(s, n) == IF Len(s) <= n THEN s ELSE LastOf(s, n)

\* push_turn: the oldest message makes room.
PushTurn(msgs, new) == Newest(msgs \o new, MaxContext)

Ids(s) == {s[i].id : i \in DOMAIN s}

\* The next n messages, all from pillars b.
Fresh(n, b) == [i \in 1 .. n |-> [id |-> messages + i, basis |-> b]]

Room == Len(pending) < MaxPending

\* Mutant of Enqueue: nothing is refused.
EnqueueAlways(msg) ==
  \/ /\ Running
     /\ pending' = Append(pending, [kind |-> "save", msg |-> msg])
     /\ UNCHANGED owed
  \/ ~Running /\ UNCHANGED <<pending, owed>>

\* ChatHistoryCache::save: try_send.  The caller logs a refusal and goes on.
Enqueue(msg) ==
  \/ /\ Running /\ Room
     /\ pending' = Append(pending, [kind |-> "save", msg |-> msg])
     /\ UNCHANGED owed
  \/ /\ Running /\ ~Room
     /\ owed' = owed \ {msg.id}
     /\ UNCHANGED pending
  \/ ~Running /\ UNCHANGED <<pending, owed>>

----------------------------------------------------------------------------
(* The request *)

Start(t, k) ==
  /\ phase = "up" /\ LaneFree /\ job[t] = "none"
  /\ Goto(t, "start")
  /\ kind' = [kind EXCEPT ![t] = k]
  /\ UNCHANGED <<store, basis, seen, job, left, phase, history>>

\* The request ends without a job: an error of the database, of a provider
\* or of the LLM, or no profile to read from (ProfileNotFound).
GiveUp(t) ==
  /\ pc[t] \in {"start", "call"}
  /\ Goto(t, "idle")
  /\ UNCHANGED <<store, kind, basis, seen, job, left, phase, history>>

\* create_destiny_profile: the new pillars, the derived columns set to NULL.
UpsertBazi(t) ==
  /\ pc[t] = "start" /\ kind[t] = "profile" /\ row.pillars < MaxPillars
  /\ row' = [row EXCEPT !.pillars = @ + 1, !.analysis = 0, !.summary = 0]
  /\ basis' = [basis EXCEPT ![t] = row.pillars + 1]
  /\ Goto(t, "wipe")
  /\ UNCHANGED <<ctx, pending, rows, kind, seen, job, left, phase, history>>

\* get_user_profile of the other turns.
ReadProfile(t) ==
  /\ pc[t] = "start" /\ kind[t] # "profile" /\ row.pillars # 0
  /\ basis' = [basis EXCEPT ![t] = row.pillars]
  /\ Goto(t, CASE kind[t] = "chat" -> "hydrate"
               [] kind[t] = "reading" -> "wipe"
               [] kind[t] = "scheduled" -> "call")
  /\ UNCHANGED <<store, kind, seen, job, left, phase, history>>

\* clear_messages, in a profile's creation and in an interactive reading.
WipeContext(t) ==
  /\ pc[t] = "wipe"
  /\ ctx' = [loaded |-> TRUE, msgs |-> <<>>]
  /\ Goto(t, "clear")
  /\ UNCHANGED <<row, pending, rows, kind, basis, seen, job, left, phase, history>>

\* chat_cache.clear: the operation waits for room, the call for its barrier.
ClearCache(t) ==
  /\ pc[t] = "clear" /\ Room
  /\ pending' = Append(pending, [kind |-> "clear", by |-> t])
  /\ Goto(t, "barrier")
  /\ UNCHANGED <<row, ctx, rows, kind, basis, seen, job, left, phase, history>>

ClearReturns(t) ==
  /\ pc[t] = "barrier"
  /\ \A i \in DOMAIN pending : ~(pending[i].kind = "clear" /\ pending[i].by = t)
  /\ Goto(t, IF kind[t] = "profile" THEN "chart" ELSE "call")
  /\ UNCHANGED <<store, kind, basis, seen, job, left, phase, history>>

\* build_and_save_bazi_html: an upload that fails is logged.
PutChart(t) ==
  /\ pc[t] = "chart"
  /\ \/ row' = [row EXCEPT !.chart = basis[t]]
     \/ UNCHANGED row
  /\ Goto(t, "call")
  /\ UNCHANGED <<ctx, pending, rows, kind, basis, seen, job, left, phase, history>>

\* hydrate_chat_context: nothing to do, or recent_turns fails, or its rows
\* are in hand.
Hydrate(t) ==
  /\ pc[t] = "hydrate"
  /\ \/ Goto(t, "push") /\ UNCHANGED seen
     \/ /\ ~ctx.loaded
        /\ seen' = [seen EXCEPT ![t] = Newest(rows, MaxContext)]
        /\ Goto(t, "fill")
  /\ UNCHANGED <<store, kind, basis, job, left, phase, history>>

\* Mutant of FillContext: the context is not looked at again.
FillAnyway(t) ==
  /\ pc[t] = "fill"
  /\ ctx' = [loaded |-> TRUE, msgs |-> PushTurn(ctx.msgs, seen[t])]
  /\ seen' = [seen EXCEPT ![t] = <<>>]
  /\ Goto(t, "push")
  /\ UNCHANGED <<row, pending, rows, kind, basis, job, left, phase, history>>

FillContext(t) ==
  /\ pc[t] = "fill"
  /\ ctx' = IF ctx.loaded THEN ctx ELSE [loaded |-> TRUE, msgs |-> seen[t]]
  /\ seen' = [seen EXCEPT ![t] = <<>>]
  /\ Goto(t, "push")
  /\ UNCHANGED <<row, pending, rows, kind, basis, job, left, phase, history>>

\* The user's message, first into memory ...
PushMessage(t) ==
  /\ pc[t] = "push" /\ messages < MaxMessages
  /\ LET new == Fresh(1, basis[t])
     IN /\ ctx' = [ctx EXCEPT !.msgs = PushTurn(@, new)]
        /\ left' = [left EXCEPT ![t] = new]
        /\ owed' = owed \cup Ids(new)
  /\ messages' = messages + 1
  /\ Goto(t, "save")
  /\ UNCHANGED <<row, pending, rows, kind, basis, seen, job, phase, interrupted, clearLost>>

\* ... and then to the cache.
SaveMessage(t) ==
  /\ pc[t] = "save"
  /\ Enqueue(Head(left[t]))
  /\ left' = [left EXCEPT ![t] = <<>>]
  /\ Goto(t, "call")
  /\ UNCHANGED <<row, ctx, rows, kind, basis, seen, job, phase, messages, interrupted, clearLost>>

\* The LLM answers: a stream, which a job reads.  A full reply is stored by
\* the request itself without an await, as a job would that runs at once.
Answer(t) ==
  /\ pc[t] = "call" /\ kind[t] # "scheduled"
  /\ Goto(t, "stream")
  /\ Stage(t, "collect")
  /\ UNCHANGED <<store, kind, basis, seen, left, phase, history>>

\* A scheduled reading: its reply is sent, then saved to the cache only.
AnswerScheduled(t) ==
  /\ pc[t] = "call" /\ kind[t] = "scheduled"
  /\ Goto(t, "deliver")
  /\ UNCHANGED <<store, kind, basis, seen, job, left, phase, history>>

Deliver(t) ==
  /\ pc[t] = "deliver" /\ messages < MaxMessages
  /\ Running
  /\ IF Room
     THEN /\ pending' = Append(pending, [kind |-> "save", msg |-> Fresh(1, basis[t])[1]])
          /\ owed' = owed \cup {messages + 1}
     ELSE UNCHANGED <<pending, owed>>
  /\ messages' = messages + 1
  /\ Goto(t, "idle")
  /\ UNCHANGED <<row, ctx, rows, kind, basis, seen, job, left, phase, interrupted, clearLost>>

\* Mutant of Return: the stream counts as finished when it is closed.
ReturnEarly(t) ==
  /\ pc[t] = "stream"
  /\ Goto(t, "idle")
  /\ IF job[t] = "done" THEN Stage(t, "none") ELSE UNCHANGED job
  /\ UNCHANGED <<store, kind, basis, seen, left, phase, history>>

\* finish() answers when the job is over.
Return(t) ==
  /\ pc[t] = "stream" /\ job[t] = "done"
  /\ Goto(t, "idle")
  /\ Stage(t, "none")
  /\ UNCHANGED <<store, kind, basis, seen, left, phase, history>>

\* A request is dropped at an await; its job goes on without it.
Awaits == Labels \ {"idle", "push", "save"}

CutsOff(t) ==
  \/ pc[t] = "stream" /\ job[t] # "done"
  \/ kind[t] = "profile" /\ pc[t] \in {"wipe", "clear", "barrier"}

Abandon(t) ==
  /\ pc[t] \in Awaits
  /\ interrupted' = (interrupted \/ CutsOff(t))
  /\ Goto(t, "idle")
  /\ seen' = [seen EXCEPT ![t] = <<>>]
  /\ UNCHANGED <<store, kind, basis, job, left, phase, messages, clearLost, owed>>

----------------------------------------------------------------------------
(* The job *)

\* The whole answer is there: one message, or an almanac message before it.
Replies(t) == Fresh(IF kind[t] = "reading" THEN 2 ELSE 1, basis[t])

Collect(t) ==
  /\ job[t] = "collect"
  /\ messages + Len(Replies(t)) <= MaxMessages
  /\ left' = [left EXCEPT ![t] = Replies(t)]
  /\ owed' = owed \cup Ids(Replies(t))
  /\ messages' = messages + Len(Replies(t))
  /\ Stage(t, IF kind[t] = "profile" THEN "analysis" ELSE "push")
  /\ UNCHANGED <<store, pc, kind, basis, seen, phase, interrupted, clearLost>>

\* The stream broke, or the answer is blank: nothing is stored.
CollectFails(t) ==
  /\ job[t] = "collect"
  /\ Stage(t, "done")
  /\ UNCHANGED <<store, pc, kind, basis, seen, left, phase, history>>

\* save_user_bazi_analysis and save_user_bazi_summary log their errors.
SaveAnalysis(t) ==
  /\ job[t] = "analysis"
  /\ \/ row' = [row EXCEPT !.analysis = basis[t]]
     \/ UNCHANGED row
  /\ Stage(t, "push")
  /\ UNCHANGED <<ctx, pending, rows, pc, kind, basis, seen, left, phase, history>>

\* persist_turn_response: memory first (an expired context comes back, not
\* loaded), then the cache.
PushReply(t) ==
  /\ job[t] = "push"
  /\ ctx' = [ctx EXCEPT !.msgs = PushTurn(@, left[t])]
  /\ Stage(t, "save")
  /\ UNCHANGED <<row, pending, rows, pc, kind, basis, seen, left, phase, history>>

SaveReply(t) ==
  /\ job[t] = "save" /\ left[t] # <<>>
  /\ Enqueue(Head(left[t]))
  /\ left' = [left EXCEPT ![t] = Tail(@)]
  /\ UNCHANGED <<row, ctx, rows, pc, kind, basis, seen, job, phase, messages, interrupted, clearLost>>

ReplySaved(t) ==
  /\ job[t] = "save" /\ left[t] = <<>>
  /\ Stage(t, IF kind[t] = "profile" THEN "summary" ELSE "done")
  /\ UNCHANGED <<store, pc, kind, basis, seen, left, phase, history>>

SaveSummary(t) ==
  /\ job[t] = "summary"
  /\ \/ row' = [row EXCEPT !.summary = basis[t]]
     \/ UNCHANGED row
  /\ Stage(t, "done")
  /\ UNCHANGED <<ctx, pending, rows, pc, kind, basis, seen, left, phase, history>>

\* Nobody waits for it any more.
JobEnds(t) ==
  /\ job[t] = "done" /\ pc[t] # "stream"
  /\ Stage(t, "none")
  /\ UNCHANGED <<store, pc, kind, basis, seen, left, phase, history>>

----------------------------------------------------------------------------
(* The cache's writer, the cleanup job and the process *)

\* One operation of the queue is committed.
Commit ==
  /\ phase # "down" /\ pending # <<>>
  /\ pending' = Tail(pending)
  /\ IF Head(pending).kind = "save"
     THEN rows' = Append(rows, Head(pending).msg) /\ UNCHANGED owed
     ELSE rows' = <<>> /\ owed' = owed \ Ids(rows)
  /\ UNCHANGED <<row, ctx, turn, phase, messages, interrupted, clearLost>>

\* Or its transaction is rolled back.
Rollback ==
  /\ phase # "down" /\ pending # <<>>
  /\ pending' = Tail(pending)
  /\ IF Head(pending).kind = "save"
     THEN owed' = owed \ {Head(pending).msg.id} /\ UNCHANGED clearLost
     ELSE clearLost' = TRUE /\ UNCHANGED owed
  /\ UNCHANGED <<row, ctx, rows, turn, phase, messages, interrupted>>

\* Cleanup drops an idle context unless is_processing is set, which only
\* ProcessingGuard does: chats and profiles over HTTP run without it.
Expire ==
  /\ phase = "up" /\ ctx # Absent
  /\ \A t \in Turns : pc[t] = "idle" \/ kind[t] \in {"profile", "chat"}
  /\ ctx' = Absent
  /\ UNCHANGED <<row, pending, rows, turn, phase, history>>

\* main: the signal; then requests, the tracked tasks, the cache, in order.
Shutdown == /\ phase = "up"
            /\ phase' = "drain"
            /\ UNCHANGED <<store, turn, history>>

\* Mutant of FlushCache: the cache does not wait for the tracked tasks.
FlushCacheFirst == /\ phase = "drain" /\ LaneFree
                   /\ phase' = "flush"
                   /\ UNCHANGED <<store, turn, history>>

FlushCache == /\ phase = "drain" /\ LaneFree
              /\ \A t \in Turns : job[t] = "none"
              /\ phase' = "flush"
              /\ UNCHANGED <<store, turn, history>>

Stop == /\ phase = "flush" /\ pending = <<>>
        /\ phase' = "down"
        /\ ctx' = Absent
        /\ UNCHANGED <<row, pending, rows, turn, history>>

ClearDue ==
  \/ \E t \in Turns : pc[t] # "idle" /\ CutsOff(t) /\ kind[t] = "profile"
  \/ \E i \in DOMAIN pending : pending[i].kind = "clear"

\* The process dies, or the drain deadline passes and main leaves.
Crash == /\ phase # "down"
         /\ phase' = "down"
         /\ ctx' = Absent
         /\ pending' = <<>>
         /\ pc' = [t \in Turns |-> "idle"]
         /\ seen' = [t \in Turns |-> <<>>]
         /\ job' = [t \in Turns |-> "none"]
         /\ left' = [t \in Turns |-> <<>>]
         /\ interrupted' = (interrupted \/ ClearDue)
         /\ owed' = owed \cap Ids(rows)
         /\ UNCHANGED <<row, rows, kind, basis, messages, clearLost>>

Boot == /\ phase = "down"
        /\ phase' = "up"
        /\ UNCHANGED <<store, turn, history>>

----------------------------------------------------------------------------
Request(t) ==
  \/ \E k \in Kinds : Start(t, k)
  \/ GiveUp(t) \/ UpsertBazi(t) \/ ReadProfile(t)
  \/ WipeContext(t) \/ ClearCache(t) \/ ClearReturns(t) \/ PutChart(t)
  \/ Hydrate(t) \/ FillContext(t) \/ PushMessage(t) \/ SaveMessage(t)
  \/ Answer(t) \/ AnswerScheduled(t) \/ Deliver(t)
  \/ Return(t) \/ Abandon(t)

Job(t) ==
  \/ Collect(t) \/ CollectFails(t) \/ SaveAnalysis(t)
  \/ PushReply(t) \/ SaveReply(t) \/ ReplySaved(t)
  \/ SaveSummary(t) \/ JobEnds(t)

Process == Commit \/ Rollback \/ Expire \/ Shutdown \/ FlushCache \/ Stop \/ Crash \/ Boot

Next == (\E t \in Turns : Request(t) \/ Job(t)) \/ Process

Spec == Init /\ [][Next]_vars

----------------------------------------------------------------------------
(* A turn works from the pillars that are stored, from where it reads them *)
(* to where its request ends, whatever other turns do meanwhile:           *)
(* get_user_profile is read once and used after many awaits                *)
(* (conversation.rs:136-177, almanac.rs:38-107, bazi_service.rs:77-116).   *)
Grounded == \A t \in Turns : pc[t] \notin {"idle", "start"} => basis[t] = row.pillars

(* Memory never holds a message twice, though contexts expire between any  *)
(* two steps and are restored from a cache that lags behind                *)
(* (conversation.rs:12-31, 67-87).                                         *)
NoDuplicates == \A i, j \in DOMAIN ctx.msgs : ctx.msgs[i].id = ctx.msgs[j].id => i = j

\* The messages the cache will hold when its queue has been worked off.
Stored ==
  LET cleared == {i \in DOMAIN pending : pending[i].kind = "clear"}
      saved == {pending[i].msg : i \in {j \in DOMAIN pending :
                  pending[j].kind = "save" /\ \A k \in cleared : k < j}}
  IN saved \cup (IF cleared = {} THEN {rows[i] : i \in DOMAIN rows} ELSE {})

Current(b) == b = row.pillars

(* A new profile leaves nothing derived from the old one behind: not in    *)
(* the row, not in memory and, after the cache has been cleared, not in    *)
(* what the cache restores; provided no request was cut off from its work  *)
(* and no Clear was rolled back (bazi_service.rs:77-90, finish() in        *)
(* conversation.rs:100-116 holds the lane until the job is over).          *)
InvalidationHolds ==
  ~interrupted =>
    /\ row.analysis = 0 \/ Current(row.analysis)
    /\ row.summary = 0 \/ Current(row.summary)
    /\ (\E t \in Turns : kind[t] = "profile" /\ pc[t] = "wipe")
         \/ clearLost
         \/ \A i \in DOMAIN ctx.msgs : Current(ctx.msgs[i].basis)
    /\ (\E t \in Turns : kind[t] = "profile" /\ pc[t] \in {"wipe", "clear"})
         \/ clearLost
         \/ \A m \in Stored : Current(m.basis)

(* A message the application took in is on its way to the cache or in it,  *)
(* unless the cache refused, cleared or rolled it back or the process      *)
(* died: an orderly shutdown waits for the jobs and then flushes           *)
(* (main.rs:120-124), and a job outlives its request                       *)
(* (conversation.rs:100-116).                                              *)
RepliesKept ==
  \A id \in owed :
    \/ id \in Ids(rows)
    \/ \E i \in DOMAIN pending : pending[i].kind = "save" /\ pending[i].msg.id = id
    \/ \E t \in Turns : id \in Ids(left[t])

(* bazi_service.rs:79, "Invalidate old chat turns derived from the         *)
(* previous profile.": from there on, while the creation still holds the   *)
(* lane, no turn in memory comes from earlier pillars.                     *)
OldTurnsInvalidated ==
  \A t \in Turns :
    kind[t] = "profile" /\ pc[t] \in {"clear", "barrier", "chart", "call", "stream"} =>
      \A i \in DOMAIN ctx.msgs : Current(ctx.msgs[i].basis)
============================================================================
