----------------------------- MODULE Scheduler -----------------------------
(***************************************************************************)
(* Daily readings: the schedule stored in a user's row, the registry       *)
(* AppState.user_jobs, the jobs of the cron library                        *)
(* (tokio_cron_scheduler, external) and the readings the jobs start        *)
(* (scheduler.rs).  A change of the schedule, from Telegram                *)
(* (bot/callbacks.rs) or HTTP (api/handlers.rs), runs in the user's lane   *)
(* (Admission.tla) and can be dropped at each of its awaits; what a        *)
(* dropped call has done to the database or to the library stays done.     *)
(*                                                                         *)
(* A cron expression is a member of Crons, NoCron is NULL.  Job ids are    *)
(* fresh UUIDs in the code; here an id that the library has forgotten may  *)
(* be given out again, which is harmless as long as RegistryLive holds.    *)
(***************************************************************************)
EXTENDS FiniteSets

CONSTANTS
  Users,
  Crons,
  Jobs,          \* bound: ids, so many jobs at the same time
  NoCron, NoJob

ASSUME SchedulerAssumption == NoCron \notin Crons /\ NoJob \notin Jobs

VARIABLES
  row,           \* the user's row: is there one, does it have pillars, schedule
  user_jobs,     \* user -> id
  job,           \* the library's jobs: whose they are and when they fire
  pc,            \* what holds the user's lane
  cron,          \* the cron of that change or reading
  id,            \* the job a change has in hand
  fired,         \* readings started by the library that have not been polled yet
  up,            \* the process runs
  amiss          \* history: what went wrong with a user's job since it was last
                 \* brought in line with the row
vars == <<row, user_jobs, job, pc, cron, id, fired, up, amiss>>

\* A change was cut off or the library failed; a change found no row to
\* store it in; start-up passed over a user without a profile.
Reasons == {"failure", "no row", "no profile"}

Schedule == Crons \cup {NoCron}
Daily == [user : Users, cron : Crons]
NoDaily == [user |-> NoJob, cron |-> NoCron]   \* no job of that id

TypeOK ==
  /\ row \in [Users -> [exists : BOOLEAN, profile : BOOLEAN, schedule : Schedule]]
  /\ \A u \in Users : ~row[u].exists => ~row[u].profile /\ row[u].schedule = NoCron
  /\ user_jobs \in [Users -> Jobs \cup {NoJob}]
  /\ job \in [Jobs -> Daily \cup {NoDaily}]
  /\ pc \in [Users -> {"free", "store", "remove", "add", "record", "reading", "send"}]
  /\ cron \in [Users -> Schedule]
  /\ id \in [Users -> Jobs \cup {NoJob}]
  /\ fired \subseteq Daily
  /\ up \in BOOLEAN
  /\ amiss \in [Users -> SUBSET Reasons]

Init ==
  /\ row = [u \in Users |-> [exists |-> FALSE, profile |-> FALSE, schedule |-> NoCron]]
  /\ user_jobs = [u \in Users |-> NoJob]
  /\ job = [j \in Jobs |-> NoDaily]
  /\ pc = [u \in Users |-> "free"]
  /\ cron = [u \in Users |-> NoCron]
  /\ id = [u \in Users |-> NoJob]
  /\ fired = {}
  /\ up = FALSE
  /\ amiss = [u \in Users |-> {}]

Goto(u, label) == pc' = [pc EXCEPT ![u] = label]
Release(u) == /\ Goto(u, "free")
              /\ cron' = [cron EXCEPT ![u] = NoCron]
              /\ id' = [id EXCEPT ![u] = NoJob]

Fails(u) == amiss' = [amiss EXCEPT ![u] = @ \cup {"failure"}]

JobsOf(u) == {j \in Jobs : job[j] # NoDaily /\ job[j].user = u}

----------------------------------------------------------------------------
(* A change of the schedule *)

\* A minute is picked, the schedule disabled, or PUT /schedule.
Change(u, c) ==
  /\ up /\ pc[u] = "free"
  /\ Goto(u, "store")
  /\ cron' = [cron EXCEPT ![u] = c]
  /\ UNCHANGED <<row, user_jobs, job, id, fired, up, amiss>>

\* Mutant of Updated: the row springs up half made.
UpdatedAnyway(u) == [row EXCEPT ![u].schedule = cron[u]]

\* UPDATE ... WHERE user_id: without a row it changes nothing and is no error.
Updated(u) == IF row[u].exists THEN [row EXCEPT ![u].schedule = cron[u]] ELSE row

\* What the statement, having returned, leaves to be said of the user.
Noted(u) == [amiss EXCEPT ![u] = IF row[u].exists THEN @ \cap {"failure"} ELSE @ \cup {"no row"}]

\* With the old job gone, the new one is added, if there is to be one.
ThenAdd(u) ==
  IF cron[u] = NoCron THEN Release(u)
  ELSE Goto(u, "add") /\ id' = [id EXCEPT ![u] = NoJob] /\ UNCHANGED cron

\* Mutant of Store: the entry is read, not taken.
StoreKeepsEntry(u) ==
  /\ pc[u] = "store"
  /\ row' = Updated(u)
  /\ IF user_jobs[u] # NoJob
     THEN Goto(u, "remove") /\ id' = [id EXCEPT ![u] = user_jobs[u]] /\ UNCHANGED cron
     ELSE ThenAdd(u)
  /\ amiss' = Noted(u)
  /\ UNCHANGED <<user_jobs, job, fired, up>>

\* Mutant of Store: a replaced job is not removed.
StoreForgetsOld(u) ==
  /\ pc[u] = "store"
  /\ row' = Updated(u)
  /\ user_jobs' = [user_jobs EXCEPT ![u] = NoJob]
  /\ IF user_jobs[u] # NoJob /\ cron[u] = NoCron
     THEN Goto(u, "remove") /\ id' = [id EXCEPT ![u] = user_jobs[u]] /\ UNCHANGED cron
     ELSE ThenAdd(u)
  /\ amiss' = Noted(u)
  /\ UNCHANGED <<job, fired, up>>

\* The statement returns; without another await the entry is taken out.
Store(u) ==
  /\ pc[u] = "store"
  /\ row' = Updated(u)
  /\ user_jobs' = [user_jobs EXCEPT ![u] = NoJob]
  /\ IF user_jobs[u] # NoJob
     THEN Goto(u, "remove") /\ id' = [id EXCEPT ![u] = user_jobs[u]] /\ UNCHANGED cron
     ELSE ThenAdd(u)
  /\ amiss' = Noted(u)
  /\ UNCHANGED <<job, fired, up>>

\* The statement fails, or the call is dropped at it; it may have taken effect.
StoreFails(u) ==
  /\ pc[u] = "store"
  /\ \/ UNCHANGED <<row, amiss>>
     \/ row' = Updated(u) /\ Fails(u)
  /\ Release(u)
  /\ UNCHANGED <<user_jobs, job, fired, up>>

\* Mutant of Remove: the library is not asked.
RemoveNothing(u) ==
  /\ pc[u] = "remove"
  /\ ThenAdd(u)
  /\ UNCHANGED <<row, user_jobs, job, fired, up, amiss>>

\* JobScheduler::remove.
Remove(u) ==
  /\ pc[u] = "remove"
  /\ job' = [job EXCEPT ![id[u]] = NoDaily]
  /\ ThenAdd(u)
  /\ UNCHANGED <<row, user_jobs, fired, up, amiss>>

\* It fails: ignored when the job is replaced, logged when it is disabled.
RemoveFails(u) ==
  /\ pc[u] = "remove"
  /\ Fails(u)
  /\ ThenAdd(u)
  /\ UNCHANGED <<row, user_jobs, job, fired, up>>

\* JobScheduler::add.
Add(u) ==
  /\ pc[u] = "add"
  /\ \E j \in Jobs :
       /\ job[j] = NoDaily
       /\ job' = [job EXCEPT ![j] = [user |-> u, cron |-> cron[u]]]
       /\ id' = [id EXCEPT ![u] = j]
  /\ Goto(u, "record")
  /\ UNCHANGED <<row, user_jobs, cron, fired, up, amiss>>

\* The job cannot be built or added: logged, and the answer is a success.
AddFails(u) ==
  /\ pc[u] = "add"
  /\ Fails(u)
  /\ Release(u)
  /\ UNCHANGED <<row, user_jobs, job, fired, up>>

Record(u) ==
  /\ pc[u] = "record"
  /\ user_jobs' = [user_jobs EXCEPT ![u] = id[u]]
  /\ Release(u)
  /\ UNCHANGED <<row, job, fired, up, amiss>>

\* Deadline, disconnect or shutdown, at the await of remove or add.
CutOff(u) ==
  /\ pc[u] \in {"remove", "add", "record"}
  /\ Fails(u)
  /\ Release(u)
  /\ UNCHANGED <<row, user_jobs, job, fired, up>>

\* Other handlers make the row (a model, an API key) or store pillars.
SaveRow(u, withProfile) ==
  /\ up /\ pc[u] = "free"
  /\ row' = [row EXCEPT ![u].exists = TRUE, ![u].profile = @ \/ withProfile]
  /\ UNCHANGED <<user_jobs, job, pc, cron, id, fired, up, amiss>>

----------------------------------------------------------------------------
(* A scheduled reading *)

\* The library spawns the job's task.  Tasks of the same user and cron that
\* wait at the same time are alike and kept as one.
Fire(j) ==
  /\ up /\ job[j] # NoDaily
  /\ fired' = fired \cup {job[j]}
  /\ UNCHANGED <<row, user_jobs, job, pc, cron, id, up, amiss>>

\* No permit, over the rate, or the lane is taken: "service busy".
Skip(r) ==
  /\ r \in fired
  /\ fired' = fired \ {r}
  /\ UNCHANGED <<row, user_jobs, job, pc, cron, id, up, amiss>>

\* ProcessingGuard::acquire.
Acquire(r) ==
  /\ r \in fired /\ pc[r.user] = "free"
  /\ fired' = fired \ {r}
  /\ Goto(r.user, "reading")
  /\ cron' = [cron EXCEPT ![r.user] = r.cron]
  /\ UNCHANGED <<row, user_jobs, job, id, up, amiss>>

\* get_daily_fortune, with a profile.
Generate(u) ==
  /\ pc[u] = "reading" /\ row[u].profile
  /\ Goto(u, "send")
  /\ UNCHANGED <<row, user_jobs, job, cron, id, fired, up, amiss>>

\* Sent; or no profile, an error, the deadline, shutdown.
Finish(u) ==
  /\ pc[u] \in {"reading", "send"}
  /\ Release(u)
  /\ UNCHANGED <<row, user_jobs, job, fired, up, amiss>>

----------------------------------------------------------------------------
(* The process *)

\* It stops, orderly or not, and with it the library.
Down ==
  /\ up
  /\ up' = FALSE
  /\ user_jobs' = [u \in Users |-> NoJob]
  /\ job' = [j \in Jobs |-> NoDaily]
  /\ pc' = [u \in Users |-> "free"]
  /\ cron' = [u \in Users |-> NoCron]
  /\ id' = [u \in Users |-> NoJob]
  /\ fired' = {}
  /\ amiss' = [u \in Users |-> {}]
  /\ UNCHANGED row

\* get_all_scheduled_users.
Scheduled == {u \in Users : row[u].schedule # NoCron /\ row[u].profile}

Injective(f) == \A u, v \in DOMAIN f : f[u] = f[v] => u = v

\* The jobs f adds, one to each user of its domain.
Install(f) ==
  /\ job' = [j \in Jobs |->
       IF \E u \in DOMAIN f : f[u] = j
       THEN LET u == CHOOSE v \in DOMAIN f : f[v] = j
            IN [user |-> u, cron |-> row[u].schedule]
       ELSE NoDaily]
  /\ user_jobs' = [u \in Users |-> IF u \in DOMAIN f THEN f[u] ELSE NoJob]

\* start_scheduler, before any transport is served and before the library
\* starts to fire.  A job that cannot be added is logged.
Boot ==
  /\ ~up
  /\ \E failed \in SUBSET Scheduled :
       /\ \E f \in [Scheduled \ failed -> Jobs] : Injective(f) /\ Install(f)
       /\ amiss' = [u \in Users |->
            IF u \in failed THEN {"failure"}
            ELSE IF u \in Scheduled \/ row[u].schedule = NoCron THEN {}
            ELSE {"no profile"}]
  /\ up' = TRUE
  /\ UNCHANGED <<row, pc, cron, id, fired>>

----------------------------------------------------------------------------
ChangeStep(u) ==
  \/ \E c \in Schedule : Change(u, c)
  \/ Store(u) \/ StoreFails(u)
  \/ Remove(u) \/ RemoveFails(u)
  \/ Add(u) \/ AddFails(u) \/ Record(u) \/ CutOff(u)
  \/ \E p \in BOOLEAN : SaveRow(u, p)

ReadingStep ==
  \/ \E j \in Jobs : Fire(j)
  \/ \E r \in Daily : Skip(r) \/ Acquire(r)
  \/ \E u \in Users : Generate(u) \/ Finish(u)

Next == (\E u \in Users : ChangeStep(u)) \/ ReadingStep \/ Down \/ Boot

Spec == Init /\ [][Next]_vars

\* A spawned task is polled, and its work has a deadline.
FairSpec ==
  /\ Spec
  /\ \A r \in Daily : WF_vars(Skip(r) \/ Acquire(r))
  /\ \A u \in Users : WF_vars(Finish(u))

----------------------------------------------------------------------------
(* An entry of the registry is a live job of its own user, also in the     *)
(* middle of changes and after failed ones: remove is never called for a   *)
(* job that is gone or somebody else's (scheduler.rs:73-76, 132-135,       *)
(* 149-155).                                                               *)
RegistryLive == \A u \in Users : user_jobs[u] # NoJob => user_jobs[u] \in JobsOf(u)

Changing(u) == pc[u] \in {"store", "remove", "add", "record"}

(* Between changes the library has exactly one job of a user with a       *)
(* stored schedule, the registered one with the stored cron, and no job of *)
(* anybody else - after any sequence of changes, and after a restart,      *)
(* which finds only the rows.  Excepted are users a change of whom was cut *)
(* off, failed in the library or had no row to be stored in, and those     *)
(* that start-up found without a profile (scheduler.rs:27-31, 63-162;      *)
(* handlers.rs:458-472).                                                   *)
InStep ==
  \A u \in Users : up /\ ~Changing(u) /\ amiss[u] = {} =>
    /\ JobsOf(u) = {user_jobs[u]} \ {NoJob}
    /\ {job[j].cron : j \in JobsOf(u)} = {row[u].schedule} \ {NoCron}

(* A user whose schedule is disabled for good is left alone in the end:    *)
(* nothing the library still holds or has started keeps producing          *)
(* readings, unless something went wrong (scheduler.rs:92-128, 149-162).   *)
Disabled(u) == row[u].schedule = NoCron /\ ~Changing(u) /\ amiss[u] = {}
Quiet(u) == pc[u] \notin {"reading", "send"} /\ \A r \in fired : r.user # u
LeftAlone == \A u \in Users : <>[]Disabled(u) => <>[]Quiet(u)
=============================================================================
