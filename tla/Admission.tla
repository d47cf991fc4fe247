----------------------------- MODULE Admission -----------------------------
(***************************************************************************)
(* Unified admission of HTTP, WebSocket, Telegram and scheduled work:      *)
(* AdmissionController and Runtime (models/runtime.rs), ProcessingGuard    *)
(* (models/processing_guard.rs), the HTTP middleware (api/admission.rs),   *)
(* the chart endpoint (api/charts.rs) and the context cleanup job          *)
(* (scheduler.rs).                                                         *)
(*                                                                         *)
(* A caller is a thread of the server that serves one piece of work after  *)
(* another.  Nothing in this code holds a lock across two of its steps, so *)
(* each read-modify-write of a shared structure is an action of its own    *)
(* and callers interleave between any two of them.  The kinds of work are  *)
(*   "read"   GET under the middleware: a request permit only              *)
(*   "write"  POST or PUT under the middleware: also the user's lane       *)
(*   "chart"  GET /charts/{token}: the semaphore itself, no checks         *)
(*   "guard"  ProcessingGuard: Telegram updates, the date-fortune socket   *)
(*            and scheduled readings                                       *)
(***************************************************************************)
EXTENDS RateTable

CONSTANTS
  Requests,      \* concurrent callers
  Kinds,         \* the kinds of work offered, from AllKinds
  Nobody,        \* the user of a caller that serves nobody
  MaxRequests,   \* API_MAX_REQUESTS
  MaxWork,       \* APP_MAX_WORK
  MaxContexts,   \* APP_MAX_CONTEXTS
  DefaultLimit,  \* API_RATE_LIMIT, which ProcessingGuard charges with
  KeyLimit       \* KeyLimit[u]: the limit stored for u, which HTTP charges with

AllKinds == {"read", "write", "chart", "guard"}

ASSUME AdmissionAssumption ==
  /\ IsFiniteSet(Requests)
  /\ Kinds \subseteq AllKinds
  /\ Nobody \notin Users
  /\ MaxRequests \in Nat \ {0}
  /\ MaxWork \in Nat \ {0}
  /\ MaxContexts \in Nat \ {0}
  /\ DefaultLimit \in Nat
  /\ KeyLimit \in [Users -> Nat]

VARIABLES
  pc,            \* where each caller stands
  kind,          \* the kind of work it serves
  user,          \* for whom
  requestsFree,  \* permits left in Runtime.requests
  workFree,      \* permits left in Runtime.work
  activeUsers,   \* AdmissionController.active_users
  contexts,      \* the keys of AppState.user_contexts
  processing,    \* the contexts whose is_processing is set
  shutdown       \* Runtime.shutdown has been cancelled

local == <<pc, kind, user>>
shared == <<requestsFree, workFree, activeUsers, contexts, processing, shutdown, rates>>
vars == <<local, shared>>

Labels == {"idle", "auth", "contexts", "workCheck", "work", "check", "acquire",
           "scan", "charge", "lane", "mark", "running", "streaming", "unmark",
           "dropWork", "dropRequest", "dropLane", "unwindRequest", "unwindWork"}

TypeOK == /\ pc \in [Requests -> Labels]
          /\ kind \in [Requests -> AllKinds]
          /\ user \in [Requests -> Users \cup {Nobody}]
          /\ requestsFree \in 0..MaxRequests
          /\ workFree \in 0..MaxWork
          /\ activeUsers \subseteq Users
          /\ contexts \subseteq Users
          /\ processing \subseteq Users
          /\ shutdown \in BOOLEAN
          /\ RatesOK

Init == /\ pc = [r \in Requests |-> "idle"]
        /\ kind = [r \in Requests |-> "chart"]
        /\ user = [r \in Requests |-> Nobody]
        /\ requestsFree = MaxRequests
        /\ workFree = MaxWork
        /\ activeUsers = {}
        /\ contexts = {}
        /\ processing = {}
        /\ shutdown = FALSE
        /\ rates = NoRates

----------------------------------------------------------------------------

Goto(r, label) == /\ pc' = [pc EXCEPT ![r] = label]
                  /\ UNCHANGED <<kind, user>>

\* The caller is done: its locals are gone.
Leave(r) == /\ pc' = [pc EXCEPT ![r] = "idle"]
            /\ kind' = [kind EXCEPT ![r] = "chart"]
            /\ user' = [user EXCEPT ![r] = Nobody]

\* try_admit's require_exclusive.
Exclusive(r) == kind[r] \in {"write", "guard"}

\* Return from try_admit without a request permit: a guard still drops its
\* work permit on the way out.
Rejected(r) == IF kind[r] = "guard" THEN Goto(r, "unwindWork") ELSE Leave(r)

Limit(r) == IF kind[r] = "guard" THEN DefaultLimit ELSE KeyLimit[user[r]]

----------------------------------------------------------------------------
(* Arrivals *)

Arrive(r, label, k, u) == /\ pc[r] = "idle"
                          /\ k \in Kinds
                          /\ pc' = [pc EXCEPT ![r] = label]
                          /\ kind' = [kind EXCEPT ![r] = k]
                          /\ user' = [user EXCEPT ![r] = u]
                          /\ UNCHANGED shared

\* The middleware turns requests away with 503 once shutdown is cancelled.
ArriveHttp(r) == /\ ~shutdown
                 /\ \E k \in {"read", "write"}, u \in Users : Arrive(r, "auth", k, u)

ArriveChart(r) == Arrive(r, "acquire", "chart", Nobody)

ArriveGuard(r) == \E u \in Users : Arrive(r, "contexts", "guard", u)

\* AuthUser::from_request_parts under its five second timeout.
Authenticate(r) == /\ pc[r] = "auth"
                   /\ Goto(r, "check") \/ Leave(r)
                   /\ UNCHANGED shared

----------------------------------------------------------------------------
(* ProcessingGuard::try_acquire, up to try_admit *)

CheckContexts(r) ==
  /\ pc[r] = "contexts"
  /\ \/ /\ Cardinality(contexts) < MaxContexts \/ user[r] \in contexts
        /\ Goto(r, "workCheck")
     \/ /\ Cardinality(contexts) >= MaxContexts /\ user[r] \notin contexts
        /\ Leave(r)
  /\ UNCHANGED shared

\* Mutant of CheckWork: try_work does not look at shutdown.
CheckNoWork(r) == pc[r] = "workCheck" /\ Goto(r, "work") /\ UNCHANGED shared

CheckWork(r) ==
  /\ pc[r] = "workCheck"
  /\ IF shutdown THEN Leave(r) ELSE Goto(r, "work")
  /\ UNCHANGED shared

TakeWork(r) ==
  /\ pc[r] = "work"
  /\ \/ /\ workFree > 0
        /\ workFree' = workFree - 1
        /\ Goto(r, "check")
     \/ /\ workFree = 0
        /\ UNCHANGED workFree
        /\ Leave(r)
  /\ UNCHANGED <<requestsFree, activeUsers, contexts, processing, shutdown, rates>>

----------------------------------------------------------------------------
(* AdmissionController::try_admit *)

CheckShutdown(r) ==
  /\ pc[r] = "check"
  /\ IF shutdown THEN Rejected(r) ELSE Goto(r, "acquire")
  /\ UNCHANGED shared

TakeRequest(r) ==
  /\ pc[r] = "acquire"
  /\ \/ /\ requestsFree > 0
        /\ requestsFree' = requestsFree - 1
        /\ Goto(r, IF kind[r] = "chart" THEN "running" ELSE "scan")
     \/ /\ requestsFree = 0
        /\ UNCHANGED requestsFree
        /\ Rejected(r)
  /\ UNCHANGED <<workFree, activeUsers, contexts, processing, shutdown, rates>>

ScanRates(r) ==
  /\ pc[r] = "scan"
  /\ rates' = Purged
  /\ Goto(r, IF HasRoom(user[r]) THEN "charge" ELSE "unwindRequest")
  /\ UNCHANGED <<requestsFree, workFree, activeUsers, contexts, processing, shutdown>>

ChargeRate(r) ==
  /\ pc[r] = "charge"
  /\ \/ /\ WithinLimit(user[r], Limit(r))
        /\ Grant(user[r])
        /\ Goto(r, IF Exclusive(r) THEN "lane" ELSE "running")
     \/ /\ ~WithinLimit(user[r], Limit(r))
        /\ Refuse(user[r])
        /\ Goto(r, "unwindRequest")
  /\ UNCHANGED <<requestsFree, workFree, activeUsers, contexts, processing, shutdown>>

\* Mutant of TakeLane: the lane guard is built before the lane is looked at,
\* so that a rejected caller drops it as well.
TakeLaneGuardFirst(r) ==
  /\ pc[r] = "lane"
  /\ activeUsers' = activeUsers \cup {user[r]}
  /\ Goto(r, IF user[r] \in activeUsers THEN "dropRequest"
             ELSE IF kind[r] = "guard" THEN "mark" ELSE "running")
  /\ UNCHANGED <<requestsFree, workFree, contexts, processing, shutdown, rates>>

\* Mutant of TakeLane: nobody looks whether the lane is taken.
TakeAnyLane(r) ==
  /\ pc[r] = "lane"
  /\ activeUsers' = activeUsers \cup {user[r]}
  /\ Goto(r, IF kind[r] = "guard" THEN "mark" ELSE "running")
  /\ UNCHANGED <<requestsFree, workFree, contexts, processing, shutdown, rates>>

\* The charge is not refunded when the lane turns out to be taken.
TakeLane(r) ==
  /\ pc[r] = "lane"
  /\ \/ /\ user[r] \notin activeUsers
        /\ activeUsers' = activeUsers \cup {user[r]}
        /\ Goto(r, IF kind[r] = "guard" THEN "mark" ELSE "running")
     \/ /\ user[r] \in activeUsers
        /\ UNCHANGED activeUsers
        /\ Goto(r, "unwindRequest")
  /\ UNCHANGED <<requestsFree, workFree, contexts, processing, shutdown, rates>>

----------------------------------------------------------------------------
(* Work *)

MarkContext(r) ==
  /\ pc[r] = "mark"
  /\ contexts' = contexts \cup {user[r]}
  /\ processing' = processing \cup {user[r]}
  /\ Goto(r, "running")
  /\ UNCHANGED <<requestsFree, workFree, activeUsers, shutdown, rates>>

\* The conversation services behind POST handlers create the user's context
\* on demand and do not look at the ceiling.
TouchContext(r) ==
  /\ pc[r] \in {"running", "streaming"} /\ kind[r] = "write"
  /\ contexts' = contexts \cup {user[r]}
  /\ UNCHANGED <<local, requestsFree, workFree, activeUsers, processing, shutdown, rates>>

\* An event-stream response carries the permit away in its body, where the
\* deadline and shutdown are looked at only when the connection polls it.
StartStream(r) ==
  /\ pc[r] = "running" /\ kind[r] = "write"
  /\ Goto(r, "streaming")
  /\ UNCHANGED shared

\* Completion, the work_seconds deadline, shutdown or a client that left.
Finish(r) ==
  /\ pc[r] \in {"running", "streaming"}
  /\ Goto(r, IF kind[r] = "guard" THEN "unmark" ELSE "dropRequest")
  /\ UNCHANGED shared

----------------------------------------------------------------------------
(* Drops, in the order of the structs' fields *)

Unmark(r) ==
  /\ pc[r] = "unmark"
  /\ processing' = processing \ {user[r]}
  /\ Goto(r, "dropWork")
  /\ UNCHANGED <<requestsFree, workFree, activeUsers, contexts, shutdown, rates>>

ReturnWork(r) ==
  /\ pc[r] \in {"dropWork", "unwindWork"}
  /\ workFree' = workFree + 1
  /\ IF pc[r] = "dropWork" THEN Goto(r, "dropRequest") ELSE Leave(r)
  /\ UNCHANGED <<requestsFree, activeUsers, contexts, processing, shutdown, rates>>

\* Mutant of DropRequest: the permit is returned by hand and by its drop.
DropRequestTwice(r) ==
  /\ pc[r] = "dropRequest"
  /\ requestsFree' = requestsFree + 2
  /\ IF Exclusive(r) THEN Goto(r, "dropLane") ELSE Leave(r)
  /\ UNCHANGED <<workFree, activeUsers, contexts, processing, shutdown, rates>>

DropRequest(r) ==
  /\ pc[r] = "dropRequest"
  /\ requestsFree' = requestsFree + 1
  /\ IF Exclusive(r) THEN Goto(r, "dropLane") ELSE Leave(r)
  /\ UNCHANGED <<workFree, activeUsers, contexts, processing, shutdown, rates>>

\* Mutant of UnwindRequest: a rejection forgets the permit.
UnwindForgets(r) ==
  /\ pc[r] = "unwindRequest"
  /\ UNCHANGED requestsFree
  /\ Rejected(r)
  /\ UNCHANGED <<workFree, activeUsers, contexts, processing, shutdown, rates>>

UnwindRequest(r) ==
  /\ pc[r] = "unwindRequest"
  /\ requestsFree' = requestsFree + 1
  /\ Rejected(r)
  /\ UNCHANGED <<workFree, activeUsers, contexts, processing, shutdown, rates>>

\* Mutant of DropLane: the guard has no Drop.
DropLaneKeeps(r) ==
  /\ pc[r] = "dropLane"
  /\ Leave(r)
  /\ UNCHANGED <<activeUsers, requestsFree, workFree, contexts, processing, shutdown, rates>>

DropLane(r) ==
  /\ pc[r] = "dropLane"
  /\ activeUsers' = activeUsers \ {user[r]}
  /\ Leave(r)
  /\ UNCHANGED <<requestsFree, workFree, contexts, processing, shutdown, rates>>

----------------------------------------------------------------------------
(* The environment *)

\* Mutant of ExpireContext: cleanup goes by age alone.
ExpireAnyContext(u) ==
  /\ u \in contexts
  /\ contexts' = contexts \ {u}
  /\ UNCHANGED <<local, requestsFree, workFree, activeUsers, processing, shutdown, rates>>

\* The cleanup job removes idle contexts that are old enough; any context
\* can have grown old by the time the job runs.
ExpireContext(u) ==
  /\ u \in contexts \ processing
  /\ contexts' = contexts \ {u}
  /\ UNCHANGED <<local, requestsFree, workFree, activeUsers, processing, shutdown, rates>>

Cancel == /\ ~shutdown
          /\ shutdown' = TRUE
          /\ UNCHANGED <<local, requestsFree, workFree, activeUsers, contexts, processing, rates>>

Tick == /\ Older
        /\ UNCHANGED <<local, requestsFree, workFree, activeUsers, contexts, processing, shutdown>>

Begin(r) == ArriveHttp(r) \/ ArriveChart(r) \/ ArriveGuard(r)

\* What a caller does on its own once work has arrived.
Proceed(r) ==
  \/ Authenticate(r) \/ CheckContexts(r) \/ CheckWork(r) \/ TakeWork(r)
  \/ CheckShutdown(r) \/ TakeRequest(r) \/ ScanRates(r) \/ ChargeRate(r) \/ TakeLane(r)
  \/ MarkContext(r) \/ Finish(r)
  \/ Unmark(r) \/ ReturnWork(r) \/ DropRequest(r) \/ UnwindRequest(r) \/ DropLane(r)

Next == \/ \E r \in Requests : Begin(r) \/ Proceed(r) \/ TouchContext(r) \/ StartStream(r)
        \/ \E u \in Users : ExpireContext(u)
        \/ Cancel
        \/ Tick

Spec == Init /\ [][Next]_vars

(* A caller that has work keeps running: every acquisition in this code is *)
(* a try_acquire that never waits, and the work itself ends by completion, *)
(* deadline, disconnect or shutdown.  Nobody has to arrive, and nothing    *)
(* has to end an event stream: its client may stop reading, and then its   *)
(* body, with its deadline, is not polled (api/admission.rs:52-64).        *)
FairSpec == Spec /\ \A r \in Requests : WF_vars(Proceed(r) /\ pc[r] # "streaming")

----------------------------------------------------------------------------
(* Who holds what, read off the program counters *)

SlotLabels == {"scan", "charge", "lane", "mark", "running", "streaming", "unmark",
               "dropWork", "dropRequest", "unwindRequest"}
WorkLabels == {"check", "acquire", "scan", "charge", "lane", "mark", "running", "unmark",
               "dropWork", "unwindRequest", "unwindWork"}
LaneLabels == {"mark", "running", "streaming", "unmark", "dropWork", "dropRequest",
               "dropLane"}
MarkLabels == {"running", "unmark"}

SlotHolders == {r \in Requests : pc[r] \in SlotLabels}
WorkHolders == {r \in Requests : kind[r] = "guard" /\ pc[r] \in WorkLabels}
LaneOwners  == {r \in Requests : Exclusive(r) /\ pc[r] \in LaneLabels}
Marked      == {r \in Requests : kind[r] = "guard" /\ pc[r] \in MarkLabels}

(* No path through admission, rejection at any of its steps or release     *)
(* loses or invents a permit of either semaphore.                          *)
PermitsConserved ==
  /\ requestsFree + Cardinality(SlotHolders) = MaxRequests
  /\ workFree + Cardinality(WorkHolders) = MaxWork

(* active_users names exactly the users whose lane somebody owns: nobody   *)
(* is locked out by a turn that is over, and no rejected caller frees the  *)
(* lane of the turn that rejected it.                                      *)
LanesTracked == activeUsers = {user[r] : r \in LaneOwners}

(* A user has one exclusive turn at a time across HTTP, WebSocket,         *)
(* Telegram and the scheduler (docs/adr/0003, single-flight user locks).   *)
SingleFlight ==
  \A r, s \in LaneOwners : user[r] = user[s] => r = s

(* is_processing is set exactly while a guard of the user is at work, and  *)
(* its context is then there: cleanup cannot take it away, and the drop of *)
(* one turn's guard never clears the flag of the next turn, because the    *)
(* flag is cleared before the lane is freed (processing_guard.rs:32-38).   *)
ContextInUse == /\ processing = {user[r] : r \in Marked}
                /\ processing \subseteq contexts

StreamHolds(u) == \E r \in Requests : pc[r] = "streaming" /\ user[r] = u

(* A lane that is taken is freed again, whatever rejections, unwindings    *)
(* and other turns come in between, unless an event stream keeps it that   *)
(* nobody reads any more (api/admission.rs:52-64).                         *)
LaneReturns ==
  \A u \in Users : (u \in activeUsers ~> u \notin activeUsers) \/ <>[]StreamHolds(u)

(* After cancellation the exclusive and expensive work drains for good:    *)
(* callers past the check finish, and nobody follows them.  What may       *)
(* remain is the lanes of event streams that nobody reads.                 *)
ShutdownQuiesces ==
  shutdown ~> [](/\ workFree = MaxWork /\ processing = {}
                 /\ \A u \in activeUsers : StreamHolds(u))

(* Admission implements its policy.                                        *)
Policy == INSTANCE AdmissionPolicy WITH
            slots <- SlotHolders,
            lanes <- {<<user[r], r>> : r \in LaneOwners}

PolicySpec == Policy!Spec
============================================================================
