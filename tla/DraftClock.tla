----------------------------- MODULE DraftClock -----------------------------
(***************************************************************************)
(* The budget for drafts that all chats of the process share:              *)
(* Runtime::allow_draft and pause_drafts (models/runtime.rs), two          *)
(* compare-and-swap loops over draft_next_ms, and flush_draft              *)
(* (bot/helpers.rs), which asks for permission, posts a draft and pauses   *)
(* everybody when Telegram answers with a retry_after.                     *)
(*                                                                         *)
(* One action per access of the shared word.  Both loops read the clock    *)
(* first and keep that reading, so a call may act on an old one.  Times    *)
(* are ticks; a spurious failure of compare_exchange_weak is a stuttering  *)
(* step.                                                                   *)
(***************************************************************************)
EXTENDS Naturals, Sequences

CONSTANTS
  Chats,     \* the tasks that stream to Telegram
  Spacing,   \* 100 ms
  MaxPause,  \* 3600 s
  Delays,    \* values of retry_after
  MaxTime    \* bound of the clock, for TLC

ASSUME ClockAssumption ==
  /\ Spacing \in Nat \ {0}
  /\ MaxPause \in Nat
  /\ Delays \subseteq Nat
  /\ MaxTime \in Nat

VARIABLES
  clock,          \* draft_epoch.elapsed()
  draft_next_ms,
  call,           \* chat -> how far its flush_draft is
  granted,        \* history: times the permissions were asked for, and pauses then in force
  paused          \* history: end of the latest pause agreed on

draftVars == <<clock, draft_next_ms, call, granted, paused>>

Steps == {"idle", "load", "allow", "post", "reload", "pause"}
Call  == [step : Steps, now : Nat, target : Nat, current : Nat]
Idle  == [step |-> "idle", now |-> 0, target |-> 0, current |-> 0]

DraftTypeOK == /\ clock \in Nat /\ draft_next_ms \in Nat /\ paused \in Nat
               /\ call \in [Chats -> Call]
               /\ granted \in Seq([at : Nat, floor : Nat])

DraftInit == /\ clock = 0 /\ draft_next_ms = 0 /\ paused = 0
             /\ call = [c \in Chats |-> Idle]
             /\ granted = <<>>

Later(a, b) == IF a < b THEN b ELSE a

At(c, step) == call[c].step = step
Goto(c, new) == call' = [call EXCEPT ![c] = new]

Flush(c) == /\ At(c, "idle")
            /\ Goto(c, [step |-> "load", now |-> clock, target |-> clock + Spacing, current |-> 0])
            /\ UNCHANGED <<clock, draft_next_ms, granted, paused>>

Load(c) == /\ At(c, "load") \/ At(c, "reload")
           /\ Goto(c, [call[c] EXCEPT !.current = draft_next_ms,
                                      !.step = IF @ = "load" THEN "allow" ELSE "pause"])
           /\ UNCHANGED <<clock, draft_next_ms, granted, paused>>

Refused(c) == /\ At(c, "allow") /\ call[c].now < call[c].current
              /\ Goto(c, Idle)
              /\ UNCHANGED <<clock, draft_next_ms, granted, paused>>

Grant(c) == /\ draft_next_ms' = call[c].target
            /\ granted' = Append(granted, [at |-> call[c].now, floor |-> paused])
            /\ Goto(c, [Idle EXCEPT !.step = "post"])
            /\ UNCHANGED <<clock, paused>>

\* Mutant of Allowed: load and store instead of compare-and-swap.
AllowedStore(c) == /\ At(c, "allow") /\ call[c].now >= call[c].current
                   /\ Grant(c)

Allowed(c) == /\ At(c, "allow") /\ call[c].now >= call[c].current
              /\ draft_next_ms = call[c].current
              /\ Grant(c)

Wanting(c) == \/ At(c, "allow") /\ call[c].now >= call[c].current
              \/ At(c, "pause") /\ call[c].current < call[c].target

\* The exchange fails and returns the actual value.
Lost(c) == /\ Wanting(c) /\ draft_next_ms # call[c].current
           /\ Goto(c, [call[c] EXCEPT !.current = draft_next_ms])
           /\ UNCHANGED <<clock, draft_next_ms, granted, paused>>

\* The post has an answer without retry_after, or none in its thirty seconds.
Posted(c) == /\ At(c, "post")
             /\ Goto(c, Idle)
             /\ UNCHANGED <<clock, draft_next_ms, granted, paused>>

Limited(c) == /\ At(c, "post")
              /\ \E d \in Delays :
                   Goto(c, [step |-> "reload", now |-> clock, current |-> 0,
                            target |-> clock + (IF d < MaxPause THEN d ELSE MaxPause)])
              /\ UNCHANGED <<clock, draft_next_ms, granted, paused>>

PauseKept(c) == /\ At(c, "pause") /\ call[c].current >= call[c].target
                /\ paused' = Later(paused, call[c].target)
                /\ Goto(c, Idle)
                /\ UNCHANGED <<clock, draft_next_ms, granted>>

PauseSet(c) == /\ At(c, "pause") /\ call[c].current < call[c].target
               /\ draft_next_ms = call[c].current
               /\ draft_next_ms' = call[c].target
               /\ paused' = Later(paused, call[c].target)
               /\ Goto(c, Idle)
               /\ UNCHANGED <<clock, granted>>

\* A flush under way; allow_draft and pause_drafts never wait.
DraftStep(c) == \/ Load(c) \/ Refused(c) \/ Allowed(c) \/ Lost(c)
                \/ Posted(c) \/ Limited(c) \/ PauseKept(c) \/ PauseSet(c)

\* Only the post is an await, where the task can be dropped.
Droppable(c) == At(c, "idle") \/ At(c, "post")

----------------------------------------------------------------------------

(* Whatever the chats do at the same time: the permissions of the whole    *)
(* process lie Spacing apart, and none that is given after a pause was     *)
(* agreed on is for a time before its end, whichever exchange came first   *)
(* (runtime.rs:177-206; "shared process-wide draft budget and upstream     *)
(* retry-after backoff", bot/helpers.rs:22-24).                            *)
DraftsPaced ==
  \A j \in DOMAIN granted :
    /\ granted[j].floor <= granted[j].at
    /\ \A i \in 1..(j - 1) : granted[i].at + Spacing <= granted[j].at
=============================================================================
