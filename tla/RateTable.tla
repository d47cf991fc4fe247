----------------------------- MODULE RateTable -----------------------------
(***************************************************************************)
(* The identity table behind AdmissionController::allow_at                 *)
(* (models/runtime.rs): a map from a user to the start of the user's       *)
(* current window and the number of calls charged to it.                   *)
(*                                                                         *)
(* Clock abstraction.  The code stores the Instant at which a window was   *)
(* opened and only ever asks how long ago that was.  An entry here holds   *)
(* that age, in clock ticks; Older lets one tick pass, and ages stop at    *)
(* Window, because every age from Window on is treated alike.              *)
(*                                                                         *)
(* allow_at is two steps, as the code takes them: lines 66-71 look at the  *)
(* size of the whole table, line 72 locks the one entry it charges.  No    *)
(* lock is held in between.                                                *)
(***************************************************************************)
EXTENDS Naturals, FiniteSets

CONSTANTS
  Users,         \* identities
  Window,        \* RATE_LIMIT_WINDOW, in ticks
  RateCapacity   \* the table size from which allow_at refuses strangers

ASSUME RateAssumption ==
  /\ IsFiniteSet(Users)
  /\ Window \in Nat \ {0}
  /\ RateCapacity \in Nat \ {0}

VARIABLE rates   \* rates[u] = [age, count], for the users that have an entry

RateEntry == [age : 0..Window, count : Nat]

RatesOK == /\ DOMAIN rates \subseteq Users
           /\ rates \in [DOMAIN rates -> RateEntry]

NoRates == [u \in {} |-> [age |-> 0, count |-> 0]]

----------------------------------------------------------------------------

Expired(u) == rates[u].age = Window

\* Mutant of Purged: retain with its test the wrong way round.
PurgedLive == IF Cardinality(DOMAIN rates) >= RateCapacity
              THEN [u \in {v \in DOMAIN rates : Expired(v)} |-> rates[u]]
              ELSE rates

\* retain(..), and only when the table is full
Purged == IF Cardinality(DOMAIN rates) >= RateCapacity
          THEN [u \in {v \in DOMAIN rates : ~Expired(v)} |-> rates[u]]
          ELSE rates

\* Mutant of HasRoom: no size check.
HasRoomAlways(u) == TRUE

\* The size check: passes for everyone below capacity, then only for owners
\* of an entry.
HasRoom(u) == \/ Cardinality(DOMAIN Purged) < RateCapacity
              \/ u \in DOMAIN Purged

\* Mutant of CurrentWindow: the window ends with the tick it was opened in.
CurrentTick(u) == IF u \in DOMAIN rates /\ rates[u].age = 0
                  THEN rates[u]
                  ELSE [age |-> 0, count |-> 0]

\* The entry as line 72-77 leave it: inserted if missing, reopened if expired.
CurrentWindow(u) == IF u \in DOMAIN rates /\ ~Expired(u)
                    THEN rates[u]
                    ELSE [age |-> 0, count |-> 0]

WithinLimit(u, limit) == CurrentWindow(u).count < limit

SetEntry(u, entry) ==
  rates' = [v \in DOMAIN rates \cup {u} |-> IF v = u THEN entry ELSE rates[v]]

\* A refused call leaves the entry it inserted or reopened behind, uncharged.
Grant(u)  == SetEntry(u, [CurrentWindow(u) EXCEPT !.count = @ + 1])
Refuse(u) == SetEntry(u, CurrentWindow(u))

\* A tick of the clock.
Older == rates' = [u \in DOMAIN rates |->
                     [rates[u] EXCEPT !.age = IF @ < Window THEN @ + 1 ELSE @]]
============================================================================
