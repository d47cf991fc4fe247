-------------------------- MODULE SchedulerProofs --------------------------
(***************************************************************************)
(* Type correctness, RegistryLive and InStep of Scheduler, for any number  *)
(* of users, times and job ids.                                            *)
(***************************************************************************)
EXTENDS Scheduler, TLAPS

\* What a change has in hand at each of its awaits.
InHand(u) ==
  /\ pc[u] = "remove" => user_jobs[u] = NoJob /\ id[u] \in JobsOf(u)
  /\ pc[u] = "add" => user_jobs[u] = NoJob /\ cron[u] \in Crons
  /\ pc[u] = "record" => /\ user_jobs[u] = NoJob
                         /\ id[u] \in JobsOf(u) /\ job[id[u]].cron = cron[u]
  /\ pc[u] \notin {"remove", "record"} => id[u] = NoJob

\* Every job of a user is registered or in hand.
Accounted(u) == "failure" \notin amiss[u] => JobsOf(u) = {user_jobs[u], id[u]} \ {NoJob}

\* The row agrees with the change under way from its statement on, and with
\* the jobs before and after.
Agrees(u) ==
  up /\ amiss[u] = {} =>
    IF pc[u] \in {"remove", "add", "record"}
    THEN row[u].schedule = cron[u]
    ELSE /\ \A j \in JobsOf(u) : job[j].cron = row[u].schedule
         /\ JobsOf(u) = {} => row[u].schedule = NoCron

Registered(u) == user_jobs[u] # NoJob => user_jobs[u] \in JobsOf(u)

UserInv(u) == InHand(u) /\ Accounted(u) /\ Agrees(u) /\ Registered(u)

DownClean ==
  ~up => /\ pc = [u \in Users |-> "free"]
         /\ id = [u \in Users |-> NoJob]
         /\ job = [j \in Jobs |-> NoDaily]
         /\ fired = {}

IInv == TypeOK /\ DownClean /\ \A u \in Users : UserInv(u)

----------------------------------------------------------------------------
(* The empty place is no job.                                              *)
LEMMA NoDailyIsNone == NoDaily \notin Daily
BY SchedulerAssumption DEF NoDaily, Daily

(* A user of whom a step touches nothing keeps the invariant.              *)
LEMMA Untouched ==
  ASSUME NEW u \in Users, UserInv(u),
         pc'[u] = pc[u], user_jobs'[u] = user_jobs[u], id'[u] = id[u], cron'[u] = cron[u],
         amiss'[u] = amiss[u], row'[u].schedule = row[u].schedule, up' => up,
         \A j \in Jobs : j \in JobsOf(u)' <=> j \in JobsOf(u),
         \A j \in JobsOf(u) : job'[j] = job[j]
  PROVE  UserInv(u)'
<1>1. JobsOf(u)' = JobsOf(u)
  BY DEF JobsOf
<1>2. InHand(u)'
  BY <1>1 DEF InHand, UserInv
<1>3. Accounted(u)'
  BY <1>1 DEF Accounted, UserInv
<1>4. Agrees(u)'
  BY <1>1 DEF Agrees, UserInv
<1>5. Registered(u)'
  BY <1>1 DEF Registered, UserInv
<1> QED BY <1>2, <1>3, <1>4, <1>5 DEF UserInv

LEMMA InitHolds == Init => IInv
<1> SUFFICES ASSUME Init PROVE IInv
  OBVIOUS
<1>1. TypeOK
  BY DEF Init, TypeOK, Schedule
<1>2. DownClean
  BY DEF Init, DownClean
<1>3. ASSUME NEW u \in Users PROVE UserInv(u)
  <2>1. JobsOf(u) = {}
    BY DEF Init, JobsOf
  <2> QED BY <2>1 DEF Init, UserInv, InHand, Accounted, Agrees, Registered
<1> QED BY <1>1, <1>2, <1>3 DEF IInv

----------------------------------------------------------------------------
LEMMA ThenAddTypes ==
  ASSUME NEW u \in Users, TypeOK, ThenAdd(u)
  PROVE  /\ pc' \in [Users -> {"free", "store", "remove", "add", "record", "reading", "send"}]
         /\ cron' \in [Users -> Schedule]
         /\ id' \in [Users -> Jobs \cup {NoJob}]
         /\ pc' = [pc EXCEPT ![u] = IF cron[u] = NoCron THEN "free" ELSE "add"]
         /\ id' = [id EXCEPT ![u] = NoJob]
         /\ cron[u] # NoCron => cron' = cron
         /\ \A v \in Users \ {u} : cron'[v] = cron[v]
BY DEF ThenAdd, Release, Goto, TypeOK, Schedule

LEMMA ReleaseTypes ==
  ASSUME NEW u \in Users, TypeOK, Release(u)
  PROVE  /\ pc' \in [Users -> {"free", "store", "remove", "add", "record", "reading", "send"}]
         /\ cron' \in [Users -> Schedule]
         /\ id' \in [Users -> Jobs \cup {NoJob}]
         /\ pc' = [pc EXCEPT ![u] = "free"]
         /\ id' = [id EXCEPT ![u] = NoJob]
         /\ \A v \in Users \ {u} : cron'[v] = cron[v]
BY DEF Release, Goto, TypeOK, Schedule

LEMMA ChangeHolds == ASSUME IInv, NEW u \in Users, NEW c \in Schedule, Change(u, c) PROVE IInv'
<1> USE DEF IInv
<1>1. TypeOK'
  BY DEF TypeOK, Change, Goto
<1>2. DownClean'
  BY DEF DownClean, Change
<1>3. ASSUME NEW v \in Users PROVE UserInv(v)'
  <2>1. JobsOf(v)' = JobsOf(v)
    BY DEF Change, JobsOf
  <2>2. CASE v # u
    BY <2>1, <2>2, Untouched DEF Change, Goto, TypeOK
  <2>3. CASE v = u
    BY <2>1, <2>3 DEF Change, Goto, TypeOK, UserInv, InHand, Accounted, Agrees, Registered
  <2> QED BY <2>2, <2>3
<1> QED BY <1>1, <1>2, <1>3

LEMMA UpdatedRow ==
  ASSUME TypeOK, NEW u \in Users
  PROVE  /\ Updated(u) \in [Users -> [exists : BOOLEAN, profile : BOOLEAN, schedule : Schedule]]
         /\ \A v \in Users : ~Updated(u)[v].exists => ~Updated(u)[v].profile /\ Updated(u)[v].schedule = NoCron
         /\ \A v \in Users \ {u} : Updated(u)[v] = row[v]
         /\ row[u].exists => Updated(u)[u].schedule = cron[u]
<1>1. CASE ~row[u].exists
  BY <1>1 DEF TypeOK, Updated
<1>2. CASE row[u].exists
  <2> DEFINE new == [row[u] EXCEPT !.schedule = cron[u]]
  <2>1. row[u] \in [exists : BOOLEAN, profile : BOOLEAN, schedule : Schedule] /\ cron[u] \in Schedule
    BY DEF TypeOK
  <2>2. /\ new \in [exists : BOOLEAN, profile : BOOLEAN, schedule : Schedule]
        /\ new.exists /\ new.schedule = cron[u]
    BY <2>1, <1>2
  <2>3. Updated(u) = [row EXCEPT ![u] = new]
    BY <1>2 DEF Updated
  <2> HIDE DEF new
  <2> QED BY <2>2, <2>3 DEF TypeOK
<1> QED BY <1>1, <1>2

LEMMA StoreHolds == ASSUME IInv, NEW u \in Users, Store(u) PROVE IInv'
<1> USE DEF IInv
<1>0. pc[u] = "store" /\ id[u] = NoJob /\ UserInv(u) /\ cron[u] \in Schedule /\ user_jobs[u] \in Jobs \cup {NoJob}
  BY DEF Store, UserInv, InHand, TypeOK
<1>r. row' = Updated(u) /\ user_jobs' = [user_jobs EXCEPT ![u] = NoJob] /\ amiss' = Noted(u)
      /\ job' = job /\ up' = up /\ fired' = fired
  BY DEF Store
<1>a. amiss' \in [Users -> SUBSET Reasons] /\ (\A v \in Users \ {u} : amiss'[v] = amiss[v])
      /\ (~row[u].exists => amiss'[u] # {}) /\ ("failure" \notin amiss'[u] => "failure" \notin amiss[u])
  BY <1>r DEF Noted, TypeOK, Reasons
<1>p. /\ pc' \in [Users -> {"free", "store", "remove", "add", "record", "reading", "send"}]
      /\ cron' \in [Users -> Schedule]
      /\ id' \in [Users -> Jobs \cup {NoJob}]
      /\ pc' = [pc EXCEPT ![u] = IF user_jobs[u] # NoJob THEN "remove" ELSE IF cron[u] = NoCron THEN "free" ELSE "add"]
      /\ id' = [id EXCEPT ![u] = user_jobs[u]]
      /\ user_jobs[u] # NoJob \/ cron[u] # NoCron => cron' = cron
      /\ \A v \in Users \ {u} : cron'[v] = cron[v]
  <2>1. CASE user_jobs[u] # NoJob
    BY <2>1, <1>0 DEF Store, Goto, TypeOK, Schedule
  <2>2. CASE user_jobs[u] = NoJob
    BY <2>2, ThenAddTypes DEF Store
  <2> QED BY <2>1, <2>2
<1>1. TypeOK'
  BY <1>r, <1>a, <1>p, UpdatedRow DEF TypeOK
<1>2. DownClean'
  BY <1>0, <1>r DEF DownClean
<1>3. ASSUME NEW v \in Users PROVE UserInv(v)'
  <2>1. JobsOf(v)' = JobsOf(v)
    BY <1>r DEF JobsOf
  <2>2. CASE v # u
    <3>1. row'[v] = row[v]
      BY <2>2, <1>r, UpdatedRow
    <3>2. user_jobs'[v] = user_jobs[v] /\ pc'[v] = pc[v] /\ id'[v] = id[v] /\ cron'[v] = cron[v]
      BY <2>2, <1>r, <1>p DEF TypeOK
    <3> QED BY <2>1, <2>2, <3>1, <3>2, <1>r, <1>a, Untouched
  <2>3. CASE v = u
    <3>1. /\ user_jobs'[u] = NoJob
          /\ id'[u] = user_jobs[u]
          /\ pc'[u] = IF user_jobs[u] # NoJob THEN "remove" ELSE IF cron[u] = NoCron THEN "free" ELSE "add"
      BY <1>r, <1>p DEF TypeOK
    <3>2. InHand(u)'
      BY <3>1, <2>1, <2>3, <1>0, <1>p DEF InHand, UserInv, Registered, Schedule
    <3>3. Accounted(u)'
      BY <3>1, <2>1, <2>3, <1>0, <1>a DEF Accounted, UserInv
    <3>4. Agrees(u)'
      <4> SUFFICES ASSUME up', amiss'[u] = {} PROVE Agrees(u)'
        BY DEF Agrees
      <4>1. row'[u].schedule = cron[u] /\ "failure" \notin amiss[u]
        BY <1>a, <1>r, UpdatedRow
      <4>2. CASE pc'[u] \in {"remove", "add"}
        BY <4>1, <4>2, <3>1, <1>p DEF Agrees
      <4>3. CASE pc'[u] \notin {"remove", "add"}
        <5>1. user_jobs[u] = NoJob /\ cron[u] = NoCron /\ pc'[u] = "free"
          BY <4>3, <3>1
        <5>2. JobsOf(u)' = {}
          BY <5>1, <4>1, <1>0, <2>1, <2>3 DEF UserInv, Accounted
        <5> QED BY <5>1, <5>2, <4>1 DEF Agrees
      <4> QED BY <4>2, <4>3
    <3>5. Registered(u)'
      BY <3>1 DEF Registered
    <3> QED BY <3>2, <3>3, <3>4, <3>5, <2>3 DEF UserInv
  <2> QED BY <2>2, <2>3
<1> QED BY <1>1, <1>2, <1>3

LEMMA FailsTypes ==
  ASSUME TypeOK, NEW u \in Users
  PROVE  LET new == [amiss EXCEPT ![u] = @ \cup {"failure"}]
         IN /\ new \in [Users -> SUBSET Reasons]
            /\ "failure" \in new[u]
            /\ \A v \in Users \ {u} : new[v] = amiss[v]
BY DEF TypeOK, Reasons

LEMMA StoreFailsHolds == ASSUME IInv, NEW u \in Users, StoreFails(u) PROVE IInv'
<1> USE DEF IInv
<1>0. pc[u] = "store" /\ id[u] = NoJob /\ UserInv(u)
  BY DEF StoreFails, UserInv, InHand
<1>r. /\ \/ row' = row /\ amiss' = amiss
         \/ row' = Updated(u) /\ amiss' = [amiss EXCEPT ![u] = @ \cup {"failure"}]
      /\ user_jobs' = user_jobs /\ job' = job /\ fired' = fired /\ up' = up
  BY DEF StoreFails, Fails
<1>a. /\ amiss' \in [Users -> SUBSET Reasons] /\ (\A v \in Users \ {u} : amiss'[v] = amiss[v] /\ row'[v] = row[v])
      /\ \/ row' = row /\ amiss'[u] = amiss[u]
         \/ "failure" \in amiss'[u]
  <2>1. CASE row' = row /\ amiss' = amiss
    BY <2>1 DEF TypeOK
  <2>2. CASE row' = Updated(u) /\ amiss' = [amiss EXCEPT ![u] = @ \cup {"failure"}]
    BY <2>2, FailsTypes, UpdatedRow
  <2> QED BY <1>r, <2>1, <2>2
<1>p. /\ pc' \in [Users -> {"free", "store", "remove", "add", "record", "reading", "send"}]
      /\ cron' \in [Users -> Schedule]
      /\ id' \in [Users -> Jobs \cup {NoJob}]
      /\ pc' = [pc EXCEPT ![u] = "free"]
      /\ id' = [id EXCEPT ![u] = NoJob]
      /\ \A v \in Users \ {u} : cron'[v] = cron[v]
  BY ReleaseTypes DEF StoreFails
<1>1. TypeOK'
  BY <1>r, <1>a, <1>p, UpdatedRow DEF TypeOK
<1>2. DownClean'
  BY <1>0, <1>r DEF DownClean
<1>3. ASSUME NEW v \in Users PROVE UserInv(v)'
  <2>1. JobsOf(v)' = JobsOf(v)
    BY <1>r DEF JobsOf
  <2>2. CASE v # u
    <3>1. pc'[v] = pc[v] /\ id'[v] = id[v] /\ cron'[v] = cron[v]
      BY <2>2, <1>p DEF TypeOK
    <3> QED BY <2>1, <2>2, <3>1, <1>r, <1>a, Untouched
  <2>3. CASE v = u
    <3>1. pc'[u] = "free" /\ id'[u] = NoJob
      BY <1>p DEF TypeOK
    <3> QED BY <3>1, <2>1, <2>3, <1>0, <1>r, <1>a DEF UserInv, InHand, Accounted, Agrees, Registered
  <2> QED BY <2>2, <2>3
<1> QED BY <1>1, <1>2, <1>3

(* A step from "remove", with the old job gone or left behind.             *)
LEMMA RemoveHolds == ASSUME IInv, NEW u \in Users, Remove(u) \/ RemoveFails(u) PROVE IInv'
<1> USE DEF IInv
<1>0. /\ pc[u] = "remove" /\ UserInv(u) /\ user_jobs[u] = NoJob
      /\ id[u] \in Jobs /\ job[id[u]] # NoDaily /\ job[id[u]].user = u
      /\ cron[u] \in Schedule
  BY DEF Remove, RemoveFails, UserInv, InHand, JobsOf, TypeOK
<1>r. /\ row' = row /\ user_jobs' = user_jobs /\ fired' = fired /\ up' = up
      /\ \/ job' = [job EXCEPT ![id[u]] = NoDaily] /\ amiss' = amiss
         \/ job' = job /\ amiss' = [amiss EXCEPT ![u] = @ \cup {"failure"}]
  BY DEF Remove, RemoveFails, Fails
<1>a. /\ amiss' \in [Users -> SUBSET Reasons] /\ (\A v \in Users \ {u} : amiss'[v] = amiss[v])
      /\ \/ amiss'[u] = amiss[u] /\ job' = [job EXCEPT ![id[u]] = NoDaily]
         \/ "failure" \in amiss'[u]
  <2>1. CASE job' = [job EXCEPT ![id[u]] = NoDaily] /\ amiss' = amiss
    BY <2>1 DEF TypeOK
  <2>2. CASE job' = job /\ amiss' = [amiss EXCEPT ![u] = @ \cup {"failure"}]
    BY <2>2, FailsTypes
  <2> QED BY <1>r, <2>1, <2>2
<1>p. /\ pc' \in [Users -> {"free", "store", "remove", "add", "record", "reading", "send"}]
      /\ cron' \in [Users -> Schedule]
      /\ id' \in [Users -> Jobs \cup {NoJob}]
      /\ pc' = [pc EXCEPT ![u] = IF cron[u] = NoCron THEN "free" ELSE "add"]
      /\ id' = [id EXCEPT ![u] = NoJob]
      /\ cron[u] # NoCron => cron' = cron
      /\ \A v \in Users \ {u} : cron'[v] = cron[v]
  BY ThenAddTypes DEF Remove, RemoveFails
<1>j. job' \in [Jobs -> Daily \cup {NoDaily}] /\ \A j \in Jobs \ {id[u]} : job'[j] = job[j]
  BY <1>r, <1>0 DEF TypeOK
<1>1. TypeOK'
  BY <1>r, <1>a, <1>p, <1>j DEF TypeOK
<1>2. DownClean'
  BY <1>0, <1>r DEF DownClean
<1>3. ASSUME NEW v \in Users PROVE UserInv(v)'
  <2>2. CASE v # u
    <3>1. pc'[v] = pc[v] /\ id'[v] = id[v] /\ cron'[v] = cron[v]
      BY <2>2, <1>p DEF TypeOK
    <3>2. \A j \in JobsOf(v) : j # id[u]
      BY <2>2, <1>0 DEF JobsOf
    <3>3. id[u] \notin JobsOf(v)'
      BY <2>2, <1>0, <1>r DEF JobsOf, TypeOK
    <3>4. \A j \in Jobs : j \in JobsOf(v)' <=> j \in JobsOf(v)
      BY <3>2, <3>3, <1>j DEF JobsOf
    <3>5. \A j \in JobsOf(v) : job'[j] = job[j]
      BY <3>2, <1>j DEF JobsOf
    <3>6. UserInv(v) /\ amiss'[v] = amiss[v] /\ user_jobs'[v] = user_jobs[v] /\ row'[v].schedule = row[v].schedule /\ (up' => up)
      BY <2>2, <1>a, <1>r
    <3> QED BY <2>2, <3>1, <3>4, <3>5, <3>6, Untouched
  <2>3. CASE v = u
    <3>1. /\ pc'[u] = IF cron[u] = NoCron THEN "free" ELSE "add"
          /\ id'[u] = NoJob /\ user_jobs'[u] = NoJob
      BY <1>p, <1>0, <1>r DEF TypeOK
    <3>2. ASSUME "failure" \notin amiss'[u] PROVE JobsOf(u)' = {}
      <4>1. "failure" \notin amiss[u] /\ job' = [job EXCEPT ![id[u]] = NoDaily]
        BY <3>2, <1>a
      <4>2. JobsOf(u) = {id[u]}
        BY <4>1, <1>0, SchedulerAssumption DEF UserInv, Accounted
      <4> QED BY <4>1, <4>2, <1>0 DEF JobsOf, TypeOK
    <3>3. InHand(u)'
      BY <3>1, <1>0, <1>p DEF InHand, Schedule
    <3>4. Accounted(u)'
      BY <3>1, <3>2 DEF Accounted
    <3>5. Agrees(u)'
      <4> SUFFICES ASSUME up', amiss'[u] = {} PROVE Agrees(u)'
        BY DEF Agrees
      <4>1. row'[u].schedule = cron[u] /\ JobsOf(u)' = {}
        BY <3>2, <1>0, <1>a, <1>r DEF UserInv, Agrees
      <4> QED BY <4>1, <3>1, <1>p DEF Agrees
    <3>6. Registered(u)'
      BY <3>1 DEF Registered
    <3> QED BY <3>3, <3>4, <3>5, <3>6, <2>3 DEF UserInv
  <2> QED BY <2>2, <2>3
<1> QED BY <1>1, <1>2, <1>3

LEMMA AddHolds == ASSUME IInv, NEW u \in Users, Add(u) PROVE IInv'
<1> USE DEF IInv
<1> PICK k \in Jobs : /\ job[k] = NoDaily
                      /\ job' = [job EXCEPT ![k] = [user |-> u, cron |-> cron[u]]]
                      /\ id' = [id EXCEPT ![u] = k]
  BY DEF Add
<1>0. /\ pc[u] = "add" /\ UserInv(u) /\ user_jobs[u] = NoJob /\ id[u] = NoJob
      /\ cron[u] \in Crons
  BY DEF Add, UserInv, InHand
<1>r. /\ row' = row /\ user_jobs' = user_jobs /\ cron' = cron
      /\ fired' = fired /\ up' = up /\ amiss' = amiss
      /\ pc' = [pc EXCEPT ![u] = "record"]
  BY DEF Add, Goto
<1>j. /\ job' \in [Jobs -> Daily \cup {NoDaily}]
      /\ job'[k] = [user |-> u, cron |-> cron[u]] /\ job'[k] \in Daily /\ job'[k] # NoDaily
      /\ \A j \in Jobs \ {k} : job'[j] = job[j]
  BY <1>0, NoDailyIsNone DEF TypeOK, Daily
<1>1. TypeOK'
  BY <1>r, <1>j DEF TypeOK
<1>2. DownClean'
  BY <1>0, <1>r DEF DownClean
<1>3. ASSUME NEW v \in Users PROVE UserInv(v)'
  <2>0. k \notin JobsOf(v)
    BY DEF JobsOf
  <2>2. CASE v # u
    <3>1. pc'[v] = pc[v] /\ id'[v] = id[v] /\ UserInv(v)
      BY <2>2, <1>r DEF TypeOK
    <3>2. \A j \in Jobs : j \in JobsOf(v)' <=> j \in JobsOf(v)
      BY <2>2, <1>j DEF JobsOf
    <3>3. \A j \in JobsOf(v) : job'[j] = job[j]
      BY <2>0, <1>j DEF JobsOf
    <3> QED BY <2>2, <3>1, <3>2, <3>3, <1>r, Untouched
  <2>3. CASE v = u
    <3>1. JobsOf(u)' = JobsOf(u) \cup {k}
      BY <1>j, <2>0 DEF JobsOf
    <3>2. pc'[u] = "record" /\ id'[u] = k
      BY <1>r DEF TypeOK
    <3>3. InHand(u)'
      BY <3>1, <3>2, <1>0, <1>r, <1>j DEF InHand
    <3>4. Accounted(u)'
      BY <3>1, <3>2, <1>0, <1>r, SchedulerAssumption DEF Accounted, UserInv
    <3>5. Agrees(u)'
      BY <3>2, <1>0, <1>r DEF Agrees, UserInv
    <3>6. Registered(u)'
      BY <1>0, <1>r DEF Registered
    <3> QED BY <3>3, <3>4, <3>5, <3>6, <2>3 DEF UserInv
  <2> QED BY <2>2, <2>3
<1> QED BY <1>1, <1>2, <1>3

(* The steps that end a change in failure.                                 *)
LEMMA FailureHolds == ASSUME IInv, NEW u \in Users, AddFails(u) \/ CutOff(u) PROVE IInv'
<1> USE DEF IInv
<1>0. pc[u] \in {"remove", "add", "record"} /\ UserInv(u) /\ user_jobs[u] = NoJob
  BY DEF AddFails, CutOff, UserInv, InHand
<1>r. /\ row' = row /\ user_jobs' = user_jobs /\ job' = job /\ fired' = fired /\ up' = up
      /\ amiss' = [amiss EXCEPT ![u] = @ \cup {"failure"}]
  BY DEF AddFails, CutOff, Fails
<1>a. /\ amiss' \in [Users -> SUBSET Reasons] /\ (\A v \in Users \ {u} : amiss'[v] = amiss[v])
      /\ "failure" \in amiss'[u]
  BY <1>r, FailsTypes
<1>p. /\ pc' \in [Users -> {"free", "store", "remove", "add", "record", "reading", "send"}]
      /\ cron' \in [Users -> Schedule]
      /\ id' \in [Users -> Jobs \cup {NoJob}]
      /\ pc' = [pc EXCEPT ![u] = "free"]
      /\ id' = [id EXCEPT ![u] = NoJob]
      /\ \A v \in Users \ {u} : cron'[v] = cron[v]
  BY ReleaseTypes DEF AddFails, CutOff
<1>1. TypeOK'
  BY <1>r, <1>a, <1>p DEF TypeOK
<1>2. DownClean'
  BY <1>0, <1>r DEF DownClean
<1>3. ASSUME NEW v \in Users PROVE UserInv(v)'
  <2>1. JobsOf(v)' = JobsOf(v)
    BY <1>r DEF JobsOf
  <2>2. CASE v # u
    <3>1. pc'[v] = pc[v] /\ id'[v] = id[v] /\ cron'[v] = cron[v]
      BY <2>2, <1>p DEF TypeOK
    <3> QED BY <2>1, <2>2, <3>1, <1>r, <1>a, Untouched
  <2>3. CASE v = u
    <3>1. pc'[u] = "free" /\ id'[u] = NoJob
      BY <1>p DEF TypeOK
    <3> QED BY <3>1, <2>1, <2>3, <1>0, <1>r, <1>a DEF UserInv, InHand, Accounted, Agrees, Registered
  <2> QED BY <2>2, <2>3
<1> QED BY <1>1, <1>2, <1>3

LEMMA RecordHolds == ASSUME IInv, NEW u \in Users, Record(u) PROVE IInv'
<1> USE DEF IInv
<1>0. /\ pc[u] = "record" /\ UserInv(u) /\ user_jobs[u] = NoJob
      /\ id[u] \in JobsOf(u) /\ id[u] \in Jobs /\ job[id[u]].cron = cron[u]
  BY DEF Record, UserInv, InHand, JobsOf
<1>r. /\ row' = row /\ job' = job /\ fired' = fired /\ up' = up /\ amiss' = amiss
      /\ user_jobs' = [user_jobs EXCEPT ![u] = id[u]]
  BY DEF Record
<1>p. /\ pc' \in [Users -> {"free", "store", "remove", "add", "record", "reading", "send"}]
      /\ cron' \in [Users -> Schedule]
      /\ id' \in [Users -> Jobs \cup {NoJob}]
      /\ pc' = [pc EXCEPT ![u] = "free"]
      /\ id' = [id EXCEPT ![u] = NoJob]
      /\ \A v \in Users \ {u} : cron'[v] = cron[v]
  BY ReleaseTypes DEF Record
<1>1. TypeOK'
  BY <1>0, <1>r, <1>p DEF TypeOK
<1>2. DownClean'
  BY <1>0, <1>r DEF DownClean
<1>3. ASSUME NEW v \in Users PROVE UserInv(v)'
  <2>1. JobsOf(v)' = JobsOf(v)
    BY <1>r DEF JobsOf
  <2>2. CASE v # u
    <3>1. pc'[v] = pc[v] /\ id'[v] = id[v] /\ cron'[v] = cron[v] /\ user_jobs'[v] = user_jobs[v]
      BY <2>2, <1>p, <1>r DEF TypeOK
    <3> QED BY <2>1, <2>2, <3>1, <1>r, Untouched
  <2>3. CASE v = u
    <3>1. pc'[u] = "free" /\ id'[u] = NoJob /\ user_jobs'[u] = id[u]
      BY <1>p, <1>r DEF TypeOK
    <3>2. Accounted(u)'
      BY <3>1, <2>1, <2>3, <1>0, <1>r DEF Accounted, UserInv
    <3>3. Agrees(u)'
      <4> SUFFICES ASSUME up', amiss'[u] = {} PROVE Agrees(u)'
        BY DEF Agrees
      <4>1. row'[u].schedule = cron[u]
        BY <1>0, <1>r DEF UserInv, Agrees
      <4>2. JobsOf(u) = {id[u]}
        BY <1>0, <1>r, SchedulerAssumption DEF UserInv, Accounted
      <4> QED BY <4>1, <4>2, <3>1, <2>1, <2>3, <1>0, <1>r DEF Agrees
    <3>4. InHand(u)' /\ Registered(u)'
      BY <3>1, <2>1, <2>3, <1>0 DEF InHand, Registered
    <3> QED BY <3>2, <3>3, <3>4, <2>3 DEF UserInv
  <2> QED BY <2>2, <2>3
<1> QED BY <1>1, <1>2, <1>3

LEMMA SaveRowHolds == ASSUME IInv, NEW u \in Users, NEW p \in BOOLEAN, SaveRow(u, p) PROVE IInv'
<1> USE DEF IInv
<1> DEFINE new == [row[u] EXCEPT !.exists = TRUE, !.profile = @ \/ p]
<1>0. row[u] \in [exists : BOOLEAN, profile : BOOLEAN, schedule : Schedule]
  BY DEF TypeOK
<1>n. /\ new \in [exists : BOOLEAN, profile : BOOLEAN, schedule : Schedule]
      /\ new.exists /\ new.schedule = row[u].schedule
  BY <1>0
<1>r. row' = [row EXCEPT ![u] = new]
  BY DEF SaveRow
<1> HIDE DEF new
<1>s. \A v \in Users : row'[v].schedule = row[v].schedule
  BY <1>n, <1>r DEF TypeOK
<1>1. TypeOK'
  <2>1. row' \in [Users -> [exists : BOOLEAN, profile : BOOLEAN, schedule : Schedule]]
    BY <1>n, <1>r DEF TypeOK
  <2>2. \A v \in Users : ~row'[v].exists => ~row'[v].profile /\ row'[v].schedule = NoCron
    BY <1>n, <1>r DEF TypeOK
  <2> QED BY <2>1, <2>2 DEF TypeOK, SaveRow
<1>2. DownClean'
  BY DEF DownClean, SaveRow
<1>3. ASSUME NEW v \in Users PROVE UserInv(v)'
  <2>1. JobsOf(v)' = JobsOf(v)
    BY DEF JobsOf, SaveRow
  <2> QED BY <2>1, <1>s, Untouched DEF SaveRow
<1> QED BY <1>1, <1>2, <1>3

----------------------------------------------------------------------------
(* A reading changes the lane only.                                        *)
LEMMA ReadingHolds == ASSUME IInv, ReadingStep PROVE IInv'
<1> USE DEF IInv
<1>1. CASE \E j \in Jobs : Fire(j)
  <2> PICK j \in Jobs : Fire(j)
    BY <1>1
  <2>1. TypeOK'
    BY DEF Fire, TypeOK
  <2>2. DownClean'
    BY DEF DownClean, Fire
  <2>3. ASSUME NEW v \in Users PROVE UserInv(v)'
    <3>1. JobsOf(v)' = JobsOf(v)
      BY DEF JobsOf, Fire
    <3> QED BY <3>1, Untouched DEF Fire
  <2> QED BY <2>1, <2>2, <2>3
<1>2. CASE \E r \in Daily : Skip(r)
  <2> PICK r \in Daily : Skip(r)
    BY <1>2
  <2>1. TypeOK'
    BY DEF Skip, TypeOK
  <2>2. DownClean'
    BY DEF DownClean, Skip
  <2>3. ASSUME NEW v \in Users PROVE UserInv(v)'
    <3>1. JobsOf(v)' = JobsOf(v)
      BY DEF JobsOf, Skip
    <3> QED BY <3>1, Untouched DEF Skip
  <2> QED BY <2>1, <2>2, <2>3
<1>3. CASE \E r \in Daily : Acquire(r)
  <2> PICK r \in Daily : Acquire(r)
    BY <1>3
  <2>0. r.user \in Users /\ r.cron \in Crons
    BY DEF Daily
  <2>1. TypeOK'
    BY <2>0 DEF Acquire, Goto, TypeOK, Schedule
  <2>2. DownClean'
    BY DEF DownClean, Acquire
  <2>3. ASSUME NEW v \in Users PROVE UserInv(v)'
    <3>1. JobsOf(v)' = JobsOf(v)
      BY DEF JobsOf, Acquire
    <3>2. CASE v # r.user
      <4>1. pc'[v] = pc[v] /\ cron'[v] = cron[v]
        BY <3>2 DEF Acquire, Goto, TypeOK
      <4> QED BY <4>1, <3>1, Untouched DEF Acquire
    <3>3. CASE v = r.user
      <4>1. pc[v] = "free" /\ pc'[v] = "reading"
        BY <3>3, <2>0 DEF Acquire, Goto, TypeOK
      <4> QED BY <4>1, <3>1 DEF Acquire, UserInv, InHand, Accounted, Agrees, Registered
    <3> QED BY <3>2, <3>3
  <2> QED BY <2>1, <2>2, <2>3
<1>4. CASE \E u \in Users : Generate(u)
  <2> PICK u \in Users : Generate(u)
    BY <1>4
  <2>1. TypeOK'
    BY DEF Generate, Goto, TypeOK
  <2>2. DownClean'
    BY DEF DownClean, Generate
  <2>3. ASSUME NEW v \in Users PROVE UserInv(v)'
    <3>1. JobsOf(v)' = JobsOf(v)
      BY DEF JobsOf, Generate
    <3>2. \/ pc'[v] = pc[v]
          \/ pc[v] = "reading" /\ pc'[v] = "send"
      BY DEF Generate, Goto, TypeOK
    <3> QED BY <3>1, <3>2 DEF Generate, UserInv, InHand, Accounted, Agrees, Registered
  <2> QED BY <2>1, <2>2, <2>3
<1>5. CASE \E u \in Users : Finish(u)
  <2> PICK u \in Users : Finish(u)
    BY <1>5
  <2>p. /\ pc' \in [Users -> {"free", "store", "remove", "add", "record", "reading", "send"}]
        /\ cron' \in [Users -> Schedule]
        /\ id' \in [Users -> Jobs \cup {NoJob}]
        /\ pc' = [pc EXCEPT ![u] = "free"]
        /\ id' = [id EXCEPT ![u] = NoJob]
        /\ \A v \in Users \ {u} : cron'[v] = cron[v]
    BY ReleaseTypes DEF Finish
  <2>1. TypeOK'
    BY <2>p DEF Finish, TypeOK
  <2>2. DownClean'
    BY DEF DownClean, Finish
  <2>3. ASSUME NEW v \in Users PROVE UserInv(v)'
    <3>1. JobsOf(v)' = JobsOf(v)
      BY DEF JobsOf, Finish
    <3>2. CASE v # u
      <4>1. pc'[v] = pc[v] /\ id'[v] = id[v] /\ cron'[v] = cron[v]
        BY <3>2, <2>p DEF TypeOK
      <4> QED BY <4>1, <3>1, Untouched DEF Finish
    <3>3. CASE v = u
      <4>1. pc[u] \in {"reading", "send"} /\ pc'[u] = "free" /\ id'[u] = NoJob
        BY <2>p DEF Finish, TypeOK
      <4> QED BY <4>1, <3>1, <3>3 DEF Finish, UserInv, InHand, Accounted, Agrees, Registered
    <3> QED BY <3>2, <3>3
  <2> QED BY <2>1, <2>2, <2>3
<1> QED BY <1>1, <1>2, <1>3, <1>4, <1>5 DEF ReadingStep

----------------------------------------------------------------------------
LEMMA DownHolds == ASSUME IInv, Down PROVE IInv'
<1> USE DEF IInv
<1>1. TypeOK'
  BY DEF Down, TypeOK, Schedule
<1>2. DownClean'
  BY DEF Down, DownClean
<1>3. ASSUME NEW v \in Users PROVE UserInv(v)'
  <2>1. JobsOf(v)' = {}
    BY DEF Down, JobsOf
  <2> QED BY <2>1 DEF Down, UserInv, InHand, Accounted, Agrees, Registered
<1> QED BY <1>1, <1>2, <1>3

(* Start-up gives each user it adds a job, and nobody else.                *)
LEMMA Installed ==
  ASSUME NEW S \in SUBSET Users, NEW f \in [S -> Jobs], Injective(f), Install(f),
         \A u \in S : row[u].schedule \in Crons
  PROVE  /\ user_jobs' = [u \in Users |-> IF u \in S THEN f[u] ELSE NoJob]
         /\ \A u \in S : job'[f[u]] = [user |-> u, cron |-> row[u].schedule]
         /\ \A u \in Users : JobsOf(u)' = IF u \in S THEN {f[u]} ELSE {}
         /\ job' \in [Jobs -> Daily \cup {NoDaily}]
<1> DEFINE who(j) == CHOOSE v \in S : f[v] = j
<1>0. /\ \A u, v \in S : f[u] = f[v] => u = v
      /\ user_jobs' = [u \in Users |-> IF u \in S THEN f[u] ELSE NoJob]
  BY DEF Injective, Install
<1>1. job' = [j \in Jobs |-> IF \E u \in S : f[u] = j
                            THEN [user |-> who(j), cron |-> row[who(j)].schedule]
                            ELSE NoDaily]
  BY DEF Install
<1>2. ASSUME NEW u \in S PROVE f[u] \in Jobs /\ who(f[u]) = u
  BY <1>0
<1> HIDE DEF who
<1>3. ASSUME NEW u \in S PROVE job'[f[u]] = [user |-> u, cron |-> row[u].schedule]
  BY <1>1, <1>2
<1>4. ASSUME NEW j \in Jobs PROVE job'[j] \in Daily \cup {NoDaily}
  <2>1. CASE \E u \in S : f[u] = j
    <3> PICK u \in S : f[u] = j
      BY <2>1
    <3>1. job'[j] = [user |-> u, cron |-> row[u].schedule] /\ row[u].schedule \in Crons
      BY <1>3
    <3> QED BY <3>1 DEF Daily
  <2> QED BY <2>1, <1>1
<1>5. job' = [j \in Jobs |-> job'[j]]
  BY <1>1
<1>6. ASSUME NEW u \in Users, NEW j \in Jobs
      PROVE  j \in JobsOf(u)' <=> u \in S /\ j = f[u]
  <2>1. ASSUME j \in JobsOf(u)' PROVE u \in S /\ j = f[u]
    <3>1. job'[j] # NoDaily /\ job'[j].user = u
      BY <2>1 DEF JobsOf
    <3>2. PICK v \in S : f[v] = j
      BY <3>1, <1>1
    <3>3. job'[j] = [user |-> v, cron |-> row[v].schedule]
      BY <3>2, <1>3
    <3> QED BY <3>1, <3>2, <3>3
  <2>2. ASSUME u \in S, j = f[u] PROVE j \in JobsOf(u)'
    <3>1. job'[j] = [user |-> u, cron |-> row[u].schedule] /\ row[u].schedule \in Crons
      BY <2>2, <1>3
    <3>2. job'[j] # NoDaily
      BY <3>1, NoDailyIsNone DEF Daily
    <3> QED BY <3>1, <3>2 DEF JobsOf
  <2> QED BY <2>1, <2>2
<1>7. ASSUME NEW u \in Users PROVE JobsOf(u)' = IF u \in S THEN {f[u]} ELSE {}
  <2>1. JobsOf(u)' \subseteq Jobs
    BY DEF JobsOf
  <2> QED BY <2>1, <1>6
<1> QED BY <1>0, <1>3, <1>4, <1>5, <1>7

LEMMA BootHolds == ASSUME IInv, Boot PROVE IInv'
<1> USE DEF IInv
<1>f. PICK failed \in SUBSET Scheduled :
      /\ \E f \in [Scheduled \ failed -> Jobs] : Injective(f) /\ Install(f)
      /\ amiss' = [u \in Users |->
            IF u \in failed THEN {"failure"}
            ELSE IF u \in Scheduled \/ row[u].schedule = NoCron THEN {}
            ELSE {"no profile"}]
  BY DEF Boot
<1>a. PICK Added \in SUBSET Users : Added = Scheduled \ failed
  BY DEF Scheduled
<1>p. PICK f \in [Added -> Jobs] : Injective(f) /\ Install(f)
  BY <1>f, <1>a
<1>b. /\ ~up /\ pc' = pc /\ id' = id /\ cron' = cron /\ row' = row /\ fired' = fired /\ up' = TRUE
      /\ pc = [u \in Users |-> "free"] /\ id = [u \in Users |-> NoJob]
  BY DEF Boot, DownClean
<1>c. \A u \in Added : row[u].schedule \in Crons
  BY <1>a DEF Scheduled, TypeOK, Schedule
<1>d. \A u \in Users : u \notin Added => amiss'[u] # {} \/ row[u].schedule = NoCron
  BY <1>a, <1>f DEF Scheduled
<1>e. amiss' \in [Users -> SUBSET Reasons]
  BY <1>f DEF Reasons
<1>j. /\ user_jobs' = [u \in Users |-> IF u \in Added THEN f[u] ELSE NoJob]
      /\ \A u \in Added : job'[f[u]] = [user |-> u, cron |-> row[u].schedule]
      /\ \A u \in Users : JobsOf(u)' = IF u \in Added THEN {f[u]} ELSE {}
      /\ job' \in [Jobs -> Daily \cup {NoDaily}]
  BY <1>c, <1>p, Installed
<1>1. TypeOK'
  BY <1>e, <1>b, <1>j DEF TypeOK
<1>2. DownClean'
  BY <1>b DEF DownClean
<1>3. ASSUME NEW v \in Users PROVE UserInv(v)'
  <2>0. pc'[v] = "free" /\ id'[v] = NoJob
    BY <1>b
  <2>1. CASE v \in Added
    <3>1. f[v] \in Jobs /\ f[v] # NoJob
      BY <2>1, SchedulerAssumption
    <3>2. user_jobs'[v] = f[v] /\ JobsOf(v)' = {f[v]}
      BY <2>1, <1>j
    <3>3. job'[f[v]] = [user |-> v, cron |-> row[v].schedule]
      BY <2>1, <1>j
    <3>4. job'[f[v]].cron = row'[v].schedule
      BY <3>3, <1>b
    <3> QED BY <2>0, <3>1, <3>2, <3>4 DEF UserInv, InHand, Accounted, Agrees, Registered
  <2>2. CASE v \notin Added
    <3>1. user_jobs'[v] = NoJob /\ JobsOf(v)' = {}
      BY <2>2, <1>j
    <3>2. amiss'[v] = {} => row'[v].schedule = NoCron
      BY <2>2, <1>b, <1>d
    <3> QED BY <2>0, <3>1, <3>2 DEF UserInv, InHand, Accounted, Agrees, Registered
  <2> QED BY <2>1, <2>2
<1> QED BY <1>1, <1>2, <1>3

----------------------------------------------------------------------------
LEMMA StepHolds == IInv /\ [Next]_vars => IInv'
<1> SUFFICES ASSUME IInv, [Next]_vars PROVE IInv'
  OBVIOUS
<1>1. ASSUME NEW u \in Users, ChangeStep(u) PROVE IInv'
  BY <1>1, ChangeHolds, StoreHolds, StoreFailsHolds, RemoveHolds, AddHolds, FailureHolds,
     RecordHolds, SaveRowHolds DEF ChangeStep
<1>2. CASE UNCHANGED vars
  <2>1. ASSUME NEW v \in Users PROVE UserInv(v)'
    <3>1. JobsOf(v)' = JobsOf(v)
      BY <1>2 DEF JobsOf, vars
    <3> QED BY <3>1, <1>2, Untouched DEF vars, IInv
  <2>2. TypeOK' /\ DownClean'
    BY <1>2 DEF vars, IInv, TypeOK, DownClean
  <2> QED BY <2>1, <2>2 DEF IInv
<1> QED BY <1>1, <1>2, ReadingHolds, DownHolds, BootHolds DEF Next

LEMMA InvariantHolds == Spec => []IInv
BY InitHolds, StepHolds, PTL DEF Spec

(* Every variable keeps its type; in particular a schedule is stored only  *)
(* where there is a row.                                                   *)
THEOREM TypesCorrect == Spec => []TypeOK
<1>1. IInv => TypeOK
  BY DEF IInv
<1> QED BY <1>1, InvariantHolds, PTL

(* An entry of the registry is always a live job of its own user, whatever *)
(* failed or was cut off before (scheduler.rs:73-76, 132-135, 149-155).    *)
THEOREM EntriesAreLive == Spec => []RegistryLive
<1>1. IInv => RegistryLive
  BY DEF IInv, UserInv, Registered, RegistryLive
<1> QED BY <1>1, InvariantHolds, PTL

(* Between changes the library's jobs are those that the rows demand,      *)
(* except where something went amiss (scheduler.rs:27-31, 63-162).         *)
THEOREM LibraryInStep == Spec => []InStep
<1>1. IInv => InStep
  <2> SUFFICES ASSUME IInv, NEW u \in Users, up, ~Changing(u), amiss[u] = {}
               PROVE  /\ JobsOf(u) = {user_jobs[u]} \ {NoJob}
                      /\ {job[j].cron : j \in JobsOf(u)} = {row[u].schedule} \ {NoCron}
    BY DEF InStep
  <2>1. UserInv(u) /\ id[u] = NoJob /\ pc[u] \notin {"remove", "add", "record"}
    BY DEF IInv, UserInv, InHand, Changing
  <2>2. JobsOf(u) = {user_jobs[u]} \ {NoJob}
    BY <2>1 DEF UserInv, Accounted
  <2>3. /\ \A j \in JobsOf(u) : job[j].cron = row[u].schedule
        /\ JobsOf(u) = {} => row[u].schedule = NoCron
    BY <2>1 DEF UserInv, Agrees
  <2>4. \A j \in JobsOf(u) : job[j].cron # NoCron
    BY SchedulerAssumption DEF JobsOf, IInv, TypeOK, Daily
  <2> QED BY <2>2, <2>3, <2>4
<1> QED BY <1>1, InvariantHolds, PTL
=============================================================================
