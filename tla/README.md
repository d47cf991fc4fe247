# BaziFlowAgent in TLA+

BaziFlowAgent is one Rust process that serves Bazi readings over HTTP, server-sent
events, WebSocket and Telegram, and on a schedule. It keeps profiles in SQLite (or
Cloudflare D1), recent chat turns in a second, write-behind SQLite database and
conversation contexts in memory; readings come from an LLM as a stream.

This directory holds TLA+ models of its concurrent core, the TLC configurations that
check them on small instances, and TLAPS proofs of the properties that matter most for
every value of the constants. `PROJECT.json` lists the components, the runs, what each
definition stands for in the source (`map`), the hazards, and the theorems.
Paths below are relative to `src/` of the repository unless they start with `docs/`.

## 1. The system

| Component | State | Operations | Hard behaviour |
| --- | --- | --- | --- |
| Admission (`models/runtime.rs`, `models/processing_guard.rs`, `api/admission.rs`, `api/charts.rs`) | semaphores `requests`, `work`; `active_users`; rate table; `shutdown` | `try_admit`, `allow_at`, `try_work`, `ProcessingGuard::try_acquire`, drops | four transports interleave on shared maps without a common lock; rejection after partial acquisition; release order |
| Chat cache (`repos/chat_history_cache.rs`) | bounded channel, writer task, SQLite table | `save`, `clear`, `flush`, `shutdown`, reads | write-behind batches, barriers, failed transactions, blocked senders, restarts |
| Streamed readings (`services/llm.rs`, `services/conversation.rs`, `models/common.rs`, `bot/helpers.rs`, `api/handlers.rs`) | two bounded channels, two completions, the draft clock of `models/runtime.rs` | producer, wrapper where turns are kept, five kinds of readers, `allow_draft`, `pause_drafts` | backpressure, client that leaves, error half-way, persist before "done", lock-free clock shared by all chats |
| Event hub and gateway (`models/events.rs`, `api/gateway.rs`, `services/integration.rs`) | connection registry, per-connection queue | connect, publish, dispatch, drop | slow consumers, events racing with reads, lost updates |
| Conversation and profile (`services/conversation.rs`, `services/bazi_service.rs`, `models/state.rs`) | `user_contexts`, profile row | hydrate, push, persist, create profile | memory, cache and database diverge; work outlives its request |
| Scheduler (`scheduler.rs`) | cron jobs of the library, `user_jobs`, the row's schedule | start, add or update, remove, fire | replaced jobs still under way, row, registry and library diverge |
| Bot dialogues (`bot/*.rs`) | wizard maps | commands, callbacks, messages | interleaved messages of one chat, expiry |
| Database (`repos/mod.rs`, `repos/d1.rs`) | SQLite or D1 tables | single statements | time ids, migrations |
| Lifecycle (`main.rs`) | tasks, cancellation token | start, signal, drain | order of the drain, deadline |
| Chart calculation (`services/paipan`, `services/bazi_service.rs`, `crates/baziflow-core`) | one chart in the making | birth time, requests, masking, mapping | requests that fail one by one, unknown birth times, tables beside index arithmetic |
| Support (`config`, `logger`, `utils`, `models/error.rs`) | none | parsing, splitting, decoding | - |

Interaction: every transport passes through admission, then calls the services; services
call the LLM through the streamed pipeline, whose persisting task writes the database, the
context and the chat cache; changes of an owner's settings and charts are published to the
event hub; the scheduler's jobs come in through the same guard as Telegram's updates;
shutdown cancels one token that admission, streams, sockets and jobs all watch.

What makes each component correct:

- *Admission*: permits are conserved, a user has one exclusive turn, lanes always come
  back (event streams that nobody reads excepted), the processing flag belongs to a live turn, the rate of a user is bounded, the
  identity table is bounded, exclusive work drains after shutdown.
- *Chat cache*: an acknowledged barrier has seen everything before it decided, what a
  clear erased stays erased, turns come back in order, history is bounded, no call hangs.
- *Streamed readings*: never a partial reply in the history, "done" means read and, where
  turns are kept, persisted, a departed client loses nothing of a kept turn, the pipeline
  ends unless the client of an event stream stops reading it.
- *Event hub*: registration is bounded and released, a client that follows the protocol
  ends up with the newest state, a slow consumer is closed and not served stale data.
- *Conversation*: context and cache agree after hydration, nothing derived from an old
  profile survives a new one, an accepted message is kept.
- *Dialogues*: the answers a chart is made from belong together, and an abandoned dialogue goes away.
- *Charts*: what a chart says of its pillars is consistent, the current luck cycle covers
  the year, an unknown hour masks its pillar everywhere and dates the rest to noon, new
  relations are new and of their kind.
- *Scheduler*: the registry names live jobs, a user has at most one job and it is that of
  the stored cron, a disabled schedule falls silent.

## 2. Plan

Ordered by importance; each step is a module with its MC module, runs, and, where named, a
proof module.

1. `RateTable`, `RateLimiter`, `Admission`, `AdmissionPolicy`, and `TimedAdmission`, which composes
   limiter and admission, with proofs (done)
2. `ChatCache`, the abstract `ChatLog`, with proofs (done)
3. `StreamPipeline`, the abstract pipeline; `DraftClock`; `Reading`, which composes both with
   the readers and implements the pipeline, with proofs (done)
4. `EventGateway`: hub, sockets and publishers, with proofs (done)
5. `Conversation`: contexts, chat cache as an abstract log, profile row, tracked tasks that
   outlive their request, the drain of `main.rs`, with proofs (done)
6. `Scheduler`: the registry `user_jobs` and the jobs of the cron library against the stored
   cron, over changes, readings and restarts, with proofs (done)
7. `Dialogue`: the wizard maps, callbacks, messages and commands of the bot; expiry by the
   cleanup job; buttons that outlive what they were shown for, with proofs (done)
8. `Pillars` and `Chart`: the chart arithmetic and the making of one chart, with proofs (done)
9. proofs that reach further: an abstract gateway (register, change, learn) that `EventGateway`
   implements, the cache inside `Conversation` as a `ChatLog`, action properties of `Scheduler`;
   the safety behind the liveness of `Admission` and `Scheduler`;
   `Bot`, which composes 7 with the lane of `Admission` and the steps of `Conversation`
10. `generate_time_id`, D1 migrations, key rotation, the cached limits of `Runtime`
11. pure algorithms against reference definitions: UTF-8 chunk decoding, message splitting,
    trimming of a context by bytes

## 3. Modules

### RateTable, RateLimiter

`RateTable` is the state and the steps of `AdmissionController::allow_at`
(`models/runtime.rs:65-83`); `RateLimiter` lets any number of threads run it. The code
takes two steps, the size check of lines 66-71 and the entry of lines 72-82, and holds no
lock in between; so does the model (`Scan`, `Charge`). Times are replaced by ages that one
clock action, `Older`, increments; an age stops at `Window`, where all ages are alike. A call reads the clock once
before both steps, a few instructions earlier; the model reads it in each step, which is the
same at the scale of a five hour window. The limit is an argument of the call, as in the code: HTTP and the gateway pass the user's
stored limit, guards the configured default, on the same counter.

`recent` is a history variable: for each user the ages of the latest 2 * limit + 1 grants,
newest first, `Window` for an old one or none. One more than twice the limit is what a burst
that is too large would take.

### Admission, AdmissionPolicy, TimedAdmission

The whole path from arrival to release for the four kinds of work (GET, POST/PUT, chart
pages, guarded work), one action per read or write of a shared structure. A rejection
unwinds as Rust drops the locals (`UnwindRequest`, `ReturnWork`); a normal end drops the
fields in their declaration order (`Unmark`, `ReturnWork`, `DropRequest`, `DropLane`).
A call to the rate table is two actions, `ScanRates` and `ChargeRate`, built from
`RateTable`. `Finish` stands for every way work ends, by completion, deadline,
cancellation or disconnect. The deadline and the shutdown of an event stream are branches of its
body (`api/admission.rs:52-64`), which run only while the connection polls it; so `Finish` of a
`streaming` response may happen at any time and need never happen. `ExpireContext` is the cleanup job, `TouchContext` the
services' `entry().or_default()` on behalf of a POST.

`AdmissionPolicy` is what docs/adr/0003 promises, with slots and lanes only. `Admission`
implements it under the mapping that reads slots and lane owners off the program counters.

`TimedAdmission` adds the two variables of `RateLimiter` that `Admission` does not have: `pending`,
the calls between the two steps of `allow_at` (`UnderWay`), and `recent`, the ages of the latest
grants. Both only follow the steps of `Admission`. What it specifies implements `RateLimiter`,
so that the bound on bursts holds for the sum of all work that admission lets through: HTTP
requests, the date-fortune socket, Telegram, scheduled readings. The commands on an open
integration socket call `allow` directly (`Runtime::allow`); they are callers of `RateLimiter`
and not of `Admission`.

Left out: authentication's own database access (an outcome of `Authenticate`), the cache of user
limits in `Runtime`, contexts created by tracked tasks after their request has gone.

### ChatCache, ChatLog

The channel is a bounded sequence with the fairness of tokio's semaphore: a freed slot
belongs to the first blocked sender, and `try_send` succeeds only when slots are left over.
The writer has one action per `recv`, `try_recv`, statement, commit, failure and exit; a
transaction works on its own copy `txn` of the rows, and readers see `rows`. `Fail` may
happen at any point of a batch. Callers can be abandoned at any await (`Abandon`), and the
process can end and start again at any point (`Restart`): the channel is lost, the
committed rows stay. Time ids are an increasing counter across restarts: this assumes that
the wall clock does not step back by more than the downtime; `generate_time_id` itself
guarantees it only within one process.

`sent` numbers the operations in the order of acceptance; `promised` and `failedClears`
are history variables that say which clears must be effective.

`ChatLog` is what the cache promises to those who write: accepted operations are a log that is settled from
its old end, a block at a time; a block takes effect as if its operations were done one by one, or is
lost as a whole; of each history the newest `MaxMessages` turns stay. It knows no channel,
batch, transaction, row id, caller or process. `ChatCache` implements it (`LogSpec`) under the mapping that
reads the pending operations off batch and queue and forgets the ids of rows: reading by id is
reading by log position. A commit is a `Store`, a rollback, the exit of the writer and the end of the
process are each a `Lose`, all else is an `Accept` or nothing.

### StreamPipeline, DraftClock, Reading

`StreamPipeline` is one response from the first delta to the last reader, with a sequence per
channel and a client that reads as it likes. Chunks are their positions. Whether there is a wrapper
is chosen once: a profile (`bazi_service.rs:107`), a chat turn (`conversation.rs:178`), a calendar day and
a date selection of Telegram (`almanac.rs:70-106, 583-630`) are wrapped; the date-fortune socket and
pick-date over HTTP are not, and their client reads the producer's channel itself (`Feed`,
`Answer`). Nothing of these is kept, and they are broken off when the client has gone
(`ReceiverLeft`, `SendFails`), while the wrapper drains its channel whoever leaves.
`ReadFails` merges upstream error, upstream timeout, the byte limit and cancellation,
which the code treats alike from then on; `ReadEnd` is every other end, a token limit included,
because the code does not look at the finish reason. The wrapper drops its sender before it
persists and confirms afterwards, in the model as in the code. `Ended` is the stuttering of a
finished pipeline. Texts that are sent without a model (`LlmStream::completed`) are left out.

`DraftClock` is `allow_draft` and `pause_drafts` (`models/runtime.rs:177-206`) and `flush_draft`,
for any number of chats: one action per access of the word `draft_next_ms`. Both loops read the
clock first and keep the reading; relaxed loads may be old, which the model has as a load long
before the exchange, and the exchange corrects either. A spurious failure of
`compare_exchange_weak` is a stutter.

`Reading` composes the two: it EXTENDS both and replaces the client by the reader there really
is, `kind`. While a reader waits for a frame to be sent, a credential to be looked up or a draft
to be posted it takes no chunk, as in the code, where that is awaited inside the loop that receives. The event streams of a profile or a chat turn (`sse`) and of pick-date (`picks`) run only when
the connection polls the response's body: they wait for a first poll (`Begin`) and for room after each
frame (`SendFrame`), without a timeout. `Leave` is every way a reader is dropped, at the awaits only. Other chats draft and time passes
only beside a Telegram reading, since other readers share nothing with them. A reading implements
`StreamPipeline` (its variables are those of `StreamPipeline`, so the mapping is the identity). Deltas
are Rust strings and chunks whole deltas, so `Utf8ChunkDecoder` has nothing to carry over
here and is left out, as is how a final text is split into messages.

### EventGateway

`EventHub` with the sockets of `api/gateway.rs`, publishers and a client that follows
docs/websocket-integration.md (subscribe, then fetch; reload on every event). A row is
a version number, a notification queue is a number, because events are alike. The
`biased` select is three actions in its order, `Poll` (tokens), `PollEvent`, `PollFrame`;
`publish` walks the connections under the read lock of the owner's shard, so `Connect` and
`Drop` wait for it (`Walked`). The two connections per owner are the constant `PerOwner`. `Leave` merges heartbeat, credential, budget and protocol
errors and a peer that is gone. `set_model` over a socket is a writer like any other. The
event is offered before or after a flag change, never in between: the flag is a relaxed
atomic that one task writes, and the reader's check in `PollEvent` covers the rest.

### Conversation

What one user's turns do to the profile row, the context in `user_contexts`, the chat cache
and the chart. A turn has two halves with a program counter each: the request (`pc`), which
runs in the user's lane and can be dropped at any await (`Abandon`), and the job (`job`),
the task of `wrap_persisted_stream`, which goes on without it. The four kinds of turn share
their steps: a profile's creation goes start, wipe, clear, barrier, chart, call, stream; a chat
start, hydrate, fill, push, save, call, stream; an interactive reading start, wipe, clear,
barrier, call, stream; a scheduled one start, call, deliver. Readings over HTTP that are not
interactive change nothing here and are a `Start` with a `GiveUp`.

The lane is the one `Admission` proves exclusive (`SingleFlight`), one guard here (`LaneFree`).
The cache is `ChatCache` reduced to one queue of one user: a clear and the flush behind it are one
operation, a transaction is committed or rolled back operation by operation, and trimming is
left out. The stream is `StreamPipeline` reduced to its outcome: a whole answer (`Collect`) or
none (`CollectFails`). Data is a number: pillars are numbered in the order they are
stored, everything derived carries the number. Two places for turns are one request and
one job that has lost its own; a place is reused when both halves are over.

`Expire` may drop any context that no guarded turn holds, whatever its age: this is more
than the code allows when the expiration is longer than a turn, and what it allows when it
is shorter. `owed`, `interrupted` and `clearLost` are history variables of the properties.
Left out: roles, the byte limits of `push_turn` and of `save` (a message is never too
large), `max_context_messages = 0`, and the failure of `upsert_user_bazi` after it took effect.

### Scheduler

A change of the schedule is the statement of `update_user_schedule` and then
`add_or_update_user_schedule` or `remove_user_daily_job`, one action per await: `Store`
(the statement returns and, before the next await, the entry of `user_jobs` is taken),
`Remove`, `Add`, `Record`, each with its failure. The callbacks and `PUT /schedule` run the same
calls, so they are one sequence here, in the user's lane (`pc`), dropped at any await by
`CutOff` or `StoreFails`. The library is a map from ids to jobs: `Fire` spawns a task that
then asks for the guard (`Acquire`, `Skip`) and produces a reading (`Generate`, `Finish`)
in the same lane. Tasks of one user and cron that wait at the same time do the same and are
kept as one. `Boot` is `start_scheduler`, whose additions no transport sees half done;
`Down` is any end of the process.

Job ids are UUIDs in the code. Here an id may come back once the library has forgotten it: a
stale id in the registry would then name somebody else's job, and `RegistryLive` excludes it.
`amiss` is a history variable: it says why a user's job may differ from the row, and the code
offers three reasons: a step that failed or was cut off; no row; no profile at start-up
(`get_all_scheduled_users` passes over users without pillars, and a profile made later does
not install the job). A later change does not forgive the first reason, because a job whose
id was lost stays in the library until the process ends.

Left out: the time of day and the cron syntax, texts and chunks, the log cleanup job, a process
without bot or scheduler, users that are deleted (no code deletes one).

### Dialogue

The dialogues of /new and /pick (`bot/callbacks.rs`, `bot/commands.rs`, `bot/messages.rs`,
`bot/command_actions.rs`, `bot/keyboards.rs`). The state is the two wizard maps, the age of the
user's context, what holds the lane, and the messages in the chat, each of which is its set of
buttons; a press is possible exactly when its button is on a message. One action per callback,
command and text. A handler writes its wizard and edits the message with the lane in hand, and
no other step reads or writes either in between, so each is one action, in which the edit may
fail (`Show`): its result is ignored in the code. The handlers that end a dialogue are two, the
press (`SelectLocation`, `SelectActivity`, `TypeActivity`) and the task it spawns (`Analyze`,
`TakePick`), between which time passes, the cleanup job runs and the process may end. The cleanup job's
two halves are two actions. An hour and a city carry the date that was in the wizard
when they were entered, a minute the hour of its button; this is history, the code stores them
bare. The texts of messages are left out, and with them the date that a heading names
("Select birth hour for ..."): no handler compares it with the wizard, so an hour pressed on an
old message counts for the date entered last. What holds is `AnswersTogether`: nothing entered
before the date is kept, and no minute under another hour.

A wizard is taken out before the chart is calculated (`command_actions.rs:11`), so that a
failure of the calculation loses the inputs; docs/project-flow-sequence.md:95 says that
"Telegram pending birth inputs survive chart preparation/publication failure". The model
follows the code (`Analyze`).

Left out: presses without a message, button data the bot never made, dates that are out of
the calendar's range, the schedule and model pickers (`Scheduler`, `EventGateway`), and what
the calculation does (`Conversation`).

### Pillars, Chart

`Pillars` is the arithmetic and the tables of `bazi_utils.rs` and `models/common.rs` on indices:
ten gods, hidden stems, empty branches, na yin, stages of life, strength of the elements, traits,
beside the definitions they should agree with. `Chart` makes one chart: `ResolveBirth` (true solar
time, with noon for an unknown time), `FetchBase` (the base chart, masked, both reads of the clock,
the moment and the pillars of the other requests) or its failure, and `Supplement` (the joined
requests, each with an answer or none, the filter of the relations and `map_bazi_data`). The services
are external: they may answer with any chart and any lists of relations.

An unknown hour is masked in the fields that have one entry per pillar, and nowhere else
(`models.rs:224-260`). The solar date, the palaces, the yongshi, which is requested for the solar time
(`client.rs:69`), the lunar date and the begin of the luck cycles are copied as computed for noon
(`bazi_utils.rs:93-109`). `UnknownHourMasked` says both: the pillar shows nowhere, and what does show is that of the
reference noon, never of another time; the text of a chart calls its date a reference
(`formatter.rs:13`) and says nothing of the palaces.

Relations are lists of lists of texts. `NewRelations` compares whole texts with every natal list
(`client.rs:82`), `Extracted` takes the first two lists that are left and cuts their texts to labels
(`bazi_utils.rs:137-144`): a text that has the label of a natal relation and another ending is shown again,
and a third list is not shown at all. `RelationsAreNew` is stated accordingly.

A day has a number, a year `DaysPerYear` of them; the eight fields per pillar that are copied
unchanged are one, known or masked; the correction by place and day is a shift below twelve hours
(`ChartAssumption`): `solar_time.rs` corrects by four minutes per degree from 120 degrees east and
some seventeen minutes of the equation of time, and knows only the cities of `COMMON_CITIES`. The text and HTML of `formatter.rs` are layout.

## 4. Runs

| Run | Instance | Shows |
| --- | --- | --- |
| `rate_limiter` | 3 users, 2 threads, window of 3 ticks, table of 1, limits 1 and 2 mixed | at most two limits per window length; bounded overrun |
| `admission` | 2 callers, 2 users, all kinds, 1 permit each, ceiling, table and limit 1, fair | conservation, single flight, contexts in use; lanes return and shutdown quiesces unless an unread event stream holds out, the policy is implemented |
| `chat_cache` | 1 user, 2 clients and the shutdown, queue 1, batch 2, history 2, 4 operations, fair | barriers, clears, order; calls return, shutdown ends, the log is implemented |
| `chat_clear` | 1 user, 2 clients, 4 operations | violated: clear returns Ok though its batch was rolled back |
| `reading` | channels of 1, up to 2 chunks, three wrapped and two raw readers, 2 chats, pauses of 0 and 1, clock to 1, fair | no partial reply, users are told the truth, nothing that is kept is lost, drafts are paced; the producer always ends, wrapper and reader unless an event stream is not read |
| `event_gateway` | 2 sockets of one owner for 1 place, 1 publisher, 2 changes, queue and wire of 1, fair | no missed update, silence after unsubscribe, exact registry; slow consumers leave, shutdown closes, updates arrive |
| `conversation` | 2 places for turns, 2 profiles, 2 messages, context 2, queue 1 | turns work from the stored pillars, memory has no duplicates, nothing of an old profile stays unless work was cut off, accepted messages are kept |
| `conversation_turns` | the same | violated: the job of an abandoned creation writes the old reading after the next creation's wipe |
| `scheduler` | 1 user, 2 times, 3 job ids, fair | registry and library agree with the row between changes, also after restarts; a disabled schedule falls silent |
| `dialogue` | 1 user with 2 messages, 2 birth dates, 2 hours, 1 minute, city and activity, 3 days, ranges of 1, expiry after 1 tick | time and place were entered after the birth date and the minute under its hour, ranges are bounded, no wizard without a context |
| `charts` | 10 charts, one per day stem, whose luck cycles go through the cycle of sixty; 2 birth days and times, known or not, 2 places, 4 days, 5 answers of relations or none | tables and arithmetic agree, the current luck cycle covers the year, an unknown hour is masked, noon keeps the day, relations are new |
| `charts_kind` | the same, answers of one list per kind | violated: a list of stem relations that became empty is dropped, and branch relations are stored as stem relations |

Why the bounds are enough: all limits (permits, table, queue, batch, history, channels) are
smaller than the demand on them, so every limit is met and every rejection happens (`admission` has two callers for one
permit); two users and
two callers are what a conflict over a lane, a slot or a table entry takes; four operations are
a clear and its flush with a save before and after, spread over up to four batches. Ages
saturate and counters are bounded by limits, so only `MaxOps`, `MaxTime` and `MaxVersions` and, in `Conversation`, `MaxPillars` and `MaxMessages`
cut behaviours short: two profiles are an old one and a new one, two messages a question
with its answer, or an almanac message with its reading. Two messages do not overflow a
context of two, so TLC does not see an eviction there; that the context stays within its limit
is proved for all values (`TypesCorrect`). The run identifies states by a `VIEW` that leaves
out the stored chart, which no step and none of its invariants reads, and the variables
of turns that are over.
In `reading` two chunks are one that is under way and one that waits for it; the second chat is the one that
exchanges the clock under the first; a tick is both the interval of edits and that of drafts.
The bound of the clock, `MaxTime`, stops time, not the reading.
In `charts` the four days lie before the first luck cycle, at the start of one, inside one and after the last,
three of them before spring; ten day stems and sixty pillars are all there are. The answers have two texts of
one label, an emptied and an empty list, an empty text and a list too many.
In `scheduler` three ids are the registered job, its replacement and one that was lost to a cut-off change.
In `dialogue` one message holds the buttons of the past and the other those of the present; an hour
and a city need two dates to be out of step, a minute two hours, a range three days to be too long or backwards; a
tick is a minute, so contexts and wizards expire together.
One user is enough for TLC because users share nothing but ids; the theorems hold for any
number of users.
Symmetry of turns and messages is used in safety runs only.

Fairness: `Admission` assumes that a caller that has work keeps being polled (all
acquisitions are `try_`, work has deadlines); arrivals are not fair. It assumes nothing of a `streaming`
response: its deadline, its shutdown and its end are in the body, which the connection polls only
while the client reads. `LaneReturns` and `ShutdownQuiesces` name the exception that
follows (`StreamHolds`). `ChatCache` assumes
that the writer and waiting callers are polled; failures and restarts are never required
to stop. `Reading` assumes that both tasks and the reader are polled, that upstream requests, frames
of the socket and posts end by their timeouts, and that a `select!` does not pass over a chunk for ever (strong
fairness of `TakeChunk` and `EndOfChunks`, because tokio picks among ready branches at random). It does not assume
that an event stream is polled (`Unpolled`): its frames have no timeout, and neither has the send of the
wrapper behind it (`conversation.rs:105`), so `PipelineEnds` promises the end of the producer, which
gives up after five seconds, and of the rest only while somebody reads;
nobody has to leave. `EventGateway` assumes
that socket tasks and publishers are polled; `UpdatesArrive` needs in addition a client
that reads and reloads, and a database that does not fail for ever (strong fairness of
`Answer`). `Scheduler` assumes that a spawned task is polled and that its work ends by its
deadline; that a cron fires, that a user changes anything or that the process runs is not assumed. All
are what the tokio runtime gives spawned tasks; apart from `UpdatesArrive` no fairness is assumed on
clients.

## 5. Proofs

`AdmissionProofs` proves type correctness, `PermitsConserved`, `LanesTracked`,
`SingleFlight`, `ContextInUse` and the refinement of the policy, all from one inductive invariant. Beside these it
says that a user is somebody exactly when a lane or a context is at stake. `TypeOK` is not
inductive alone: that a permit count stays below its semaphore takes conservation. The
policy step is proved with the invariant, action by action.

It also proves the bounds of `RateLimiter`. `OverrunBounded` is not
inductive: the users on their way from check to charge have to be counted. `KnownBounded` counts
table and pending users together; the invariant `LInv` says moreover that there is a pending user
only if there was room when it was checked. For `BurstBounded` the grants of a user are three groups
(`Fits`): those of the current window, as many as its count; those of the window before, at most a
limit of them and older than the window has lasted; and those out of sight.

The two meet in `AdmissionIsLimited`: if the callers and limits are the same (`Composed`),
`TimedSpec` implies `LimiterSpec`. Every step of admission is a scan, a charge, a tick or
nothing to the limiter; the invariant of `Admission` supplies the user that a caller at the
table has. `NextIsSplit` says that `TimedNext` allows every step of `Admission`, so the history
variables take no behaviour away. `AdmittedBurstIsBounded` and `AdmissionOverrunIsBounded`
follow.

`ChatCacheProofs` proves the five safety properties of the cache. The strengthening relates
the three places where an operation can be: numbers in the batch precede those in the queue,
rows are older than anything undecided, the open transaction is what has been applied of
the batch on top of the rows, and a promised clear is older than the barrier that promised
it. `HistoryBounded` needs that only touched users gain rows.

`ImplementsLog` is the refinement of `ChatLog`. The invariant `Logged` adds what the log knows of an
open transaction: its turns are the committed ones after the operations applied so far (`Done`),
one operation at a time (`AfterSave`, `AfterClear`, `AfterBarrier`). A commit then
has to show three things: the batch is exactly the log up to its last operation, which is `Fifo`
(`UpToBatch`); what is left is the queue (`BatchSettled`); and trimming the users of the batch by row id leaves
the newest turns of *every* user by log position (`TrimmedIsNewest`), because ids order rows as numbers order
turns (`SameNewer`, by a bijection) and users outside the batch had no more than the limit (`UntouchedFits`, by
`HistoryBounded`).

`NobodyIsForgotten` proves the safety on which `CallsReturn` and `ShutdownEnds` rest, for any number of
callers. Whoever waits for a barrier has it in the queue or in the batch (`Awaited`), so the writer has
something to do and comes to it. The line of blocked senders holds only callers that still
want their slot, each once (`InLine`), although abandoned calls leave it from the middle: a slot is never
reserved for nobody. The writer leaves its loop exactly when the one shutdown has been taken out of a
batch, and its sender then joins it (`ShutdownJoined`); in particular no caller finds the channel
closed before. What is left to TLC is that fair tasks make these steps.

`ConversationProofs` proves `TypeOK`, `Grounded`, `InvalidationHolds`, `NoDuplicates` and `RepliesKept` for any number of turns,
profiles and messages. `Shape` has the types, that a message is in hand where a step takes
one (`InHand`), and that the lane is exclusive (`Exclusive`), from which `Grounded` follows.
`Traces` says where the number of the old pillars can still be: without interruption a job runs under its
request (`Attached`), so it holds only messages of the stored pillars (`Mine`, `Grounded`); what the
context, a hydration in progress, the rows and the queue hold is of the stored pillars
unless a creation is at its wipe or clear (`MemoryClean`, `SeenClean`, `CacheClean`); and a
creation that waits for its barrier has its clear at the end of the queue (`ClearWaits`),
because nobody else has the lane. Without `Attached` a job could carry old pillars past the
next creation, which is what `conversation_turns` shows of interrupted turns.
`NoDuplicates` and `RepliesKept` follow one message: in hand it is in one hand only, not in the cache nor
on its way there and, before it is pushed, not in memory (`Apart`); no place holds it twice
(`CachedOnce`, `Singles`); an accepted one is in a hand, in the queue or in the rows (`Kept`); after the
drain no hand holds any (`Quiet`).

`SchedulerProofs` proves `TypeOK`, `RegistryLive` and `InStep` for any number of users, times
and ids. The invariant follows a change through its awaits: `InHand` says what `id` and `cron` mean at
each, `Accounted` that every job of a user is registered or in hand unless a step failed,
`Agrees` that row and change, or row and jobs, agree. `InStep` alone is not inductive, since it is
silent in the middle of a change. `DownClean` gives `Boot` an empty library to start from.

`EventGatewayProofs` proves the four safety properties of the gateway for any number of sockets,
publishers, owners and versions, and any limits. `NoMissedUpdate` is not inductive: it speaks of changes
already published, and says nothing of a walk that has passed a socket and not yet ended. `AllServed`
adds these. A client that is owed a reload may have it in a reply that is in hand or on the wire, so
the invariant follows the one open command of each client (`OneCommand`) and says that a
reply answers it and is no older than what the client knows (`Fitting`). `QuietAfterUnsubscribe`
follows from the order of the wire: `EventsPrecede` says that events of a disabled socket lie before
the answer to the unsubscription, `FlagAgrees` relates the socket's flag to the client's idea of it.

`KnowledgeAdvances` is an action property: while a socket is registered no step takes its client
back to an older state. `Fitting` is what it takes, since an answer can wait behind
events on the wire while the row changes.

`DialogueProofs` proves `TypeOK`, `AnswersTogether`, `RangeBounded` and `WizardsWithinContexts` for any
number of users and messages, any dates, answers and ages. The first three are inductive together. The last is
not: a wizard must be as old as its context at least (`InContext`), so that the sweep, which takes contexts
first and wizards after, takes the wizard of every context it has taken; only between its two halves
(`sweeping`) may a wizard that is at the end of its age stand alone. That every handler renews the
context before it touches a wizard keeps it so; minutes and ticks differ, and
a lemma compares ages that are cut to minutes.

`ReadingProofs` proves the four safety properties and that a reading implements the pipeline, for channels and
responses of any size, wrapped or raw, any reader and any number of chats. The pipeline's invariant splits the
response into what has been taken from the first channel, by the wrapper or, without one, by the client (`Fed`),
what the channel holds and what the producer is sending (`Raw`), the same for the second channel (`Out`), and says
what the end of each stage has settled, and that without a wrapper nothing is kept (`Stages`). The refinement carries it over to `Reading`; `Reader` relates what was sent to what was read, which gives
`ToldTheTruth`. `DraftsPaced` rests on `Budget`: `draft_next_ms` is past every permission and every pause
agreed on so far, so that an exchange that succeeds on the value it compared was right to.

`ChartProofs` proves the five properties of charts for every chart, answer and day. The tables are
finite, so the first half proves one fact per table and puts them together for any pillar and day
stem (`ColumnOfPillar`); the second half is an invariant of the three steps (`Inv`) and arithmetic on
luck cycles. Relations are proved for lists of any number and length: `FirstTwo` says what counting
the lists that are left passes over, which is nothing when there were two.

Assumptions: only the named ASSUMEs of the modules, which say that constants are sets or
numbers of the obvious kind; sets that are counted are finite. Nothing is assumed of bounds.

The type invariants are proved and not run: they hold for every value of the
constants, and TLC needs its time for the other properties.

Only model-checked: liveness (`LaneReturns`, `ShutdownQuiesces`, `CallsReturn`, `ShutdownEnds`,
`PipelineEnds`, `SlowLeaves`, `ShutdownCloses`, `UpdatesArrive`, `LeftAlone`), which is out of the
prover's reach here. Every safety property that a run checks and that holds is also proved, as are both
refinements that runs check (`PolicySpec`, `LogSpec`). Only proved: the type invariants, `LanesTracked`,
`KnownBounded`, `HistoryBounded`, `KnowledgeAdvances`, `NobodyForgotten` and that `Reading`
implements `StreamPipeline`, which other runs' properties or limits already exercise.

## 6. Where code and documents disagree

Three runs end in a violation, each of a promise the repository makes: `chat_clear`,
`conversation_turns` and `charts_kind` (`PROJECT.json`, `findings`). The models follow the code in the
following places, too, where `docs/project-flow-sequence.md` describes something else:

- line 95, "Telegram pending birth inputs survive chart preparation/publication failure": the wizard is taken
  out before the chart is made (`command_actions.rs:11`; `Dialogue`, `Analyze`).
- line 147, "Only an explicit `stop` finish reason with nonempty text is complete": the finish reason is not
  read, so a response cut at the token limit is persisted as complete (`llm.rs:218-263`;
  `StreamPipeline`, `ReadEnd`). `NoPartialReply` says only that nothing the provider sent is missing.
- line 149, "Telegram drafts use an independent coalescing worker ...; drafts cannot block token draining" and
  "Delivery errors propagate": a draft is awaited inside the loop that reads (`bot/helpers.rs:42-73`), where up to
  thirty seconds of it can make the producer give up after five; results of sending are dropped
  (`bot/helpers.rs:83-97`; `Reading`, `Draft`, `Drafted`). What holds all the same is `ToldTheTruth`.
- line 178, "The job re-reads its persisted cron before generation, so a disabled or replaced queued job does not
  deliver stale work": it does not (`scheduler.rs:85-128`; `Scheduler`, `Acquire`, `Generate`). What holds is
  `LeftAlone`: such readings come to an end.
- line 180, "Schedule updates upsert preferences for new users, construct/add a replacement before removing the
  previous job, and propagate runtime installation/removal errors": the statement is an UPDATE that finds no row
  (`repos/mod.rs:346`; `Updated`), the old job is removed first and errors are dropped or logged
  (`scheduler.rs:73-145`; `Remove`, `RemoveFails`, `AddFails`). `InStep` names what is left of the promise.
- line 213, "the persistent gateway uses retryable close code 1013 with `storage_unavailable` for storage errors": a
  failed lookup is a credential that is not current (`api/auth.rs:72-76`), and the gateway closes with 1008 and
  `credential_revoked` (`api/gateway.rs:110, 135`). `EventGateway` does not tell the codes apart (`Leave`).
- line 238, "HTTP SSE uses a tracked, bounded response producer that owns admission guards", which "releases resources
  even if the response body is never polled", with an error event at the deadline and keepalives: there is no such
  producer. The permit, the deadline and the shutdown are in the body itself (`api/admission.rs:52-64`), so a client that
  stops reading keeps its lane and its slot, past the deadline and the cancellation, until the connection goes
  (`Admission`, `StreamHolds`; `Reading`, `Unpolled`).
- line 240, "LLM producers stop on receiver cancellation": the receiver of a wrapped stream is the wrapper, which goes on
  without its client, so only raw readers cancel (`StreamPipeline`, `ReceiverLeft`).

## 7. Not modelled

Planned: the composition of dialogues, lane and turns (9); D1 migrations (`repos/d1.rs:115-143`: versions are
compared with a table, each missing one is one atomic batch), key rotation (one atomic statement), the cached
limits of `Runtime` and `generate_time_id` (10); UTF-8 decoding, message splitting and trimming by bytes (11).

Not to be modelled: prompts, text and HTML of charts and messages, the trigonometry of the equation of
time, which are data and layout; blob storage and capability tokens, which are I/O and cryptography;
configuration, logs and the routing of requests.
