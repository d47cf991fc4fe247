---------------------------- MODULE RateLimiter ----------------------------
(***************************************************************************)
(* Concurrent callers of allow_at: HTTP admission, Telegram and scheduler  *)
(* guards, and every WebSocket frame.  A caller brings its user and the    *)
(* limit that applies on its path: the per-user limit of the API key, or   *)
(* the configured default on the paths that go through ProcessingGuard.    *)
(* Both charge the same entry.                                             *)
(***************************************************************************)
EXTENDS RateTable

CONSTANTS
  Callers,   \* threads that may be inside allow_at at the same time
  LimitOf    \* LimitOf[u]: the limits that calls of u are made with

ASSUME LimiterAssumption ==
  /\ IsFiniteSet(Callers)
  /\ Callers # {}
  /\ LimitOf \in [Users -> SUBSET Nat]
  /\ \A u \in Users : \E l \in LimitOf[u] : \A m \in LimitOf[u] : m <= l

MaxLimit(u) == CHOOSE l \in LimitOf[u] : \A m \in LimitOf[u] : m <= l

VARIABLES
  pending,   \* the calls between the size check and the entry
  recent     \* history: the ages of each user's latest grants, newest first;
             \* Window stands for every age from there on, and for no grant

limiterVars == <<rates, pending, recent>>

Idle == [call |-> "none"]
Grants(u) == 1..(2 * MaxLimit(u) + 1)
Calls == UNION {[user : {u}, limit : LimitOf[u]] : u \in Users}

LimiterTypeOK == /\ RatesOK
          /\ pending \in [Callers -> Calls \cup {Idle}]
          /\ DOMAIN recent = Users
          /\ \A u \in Users : recent[u] \in [Grants(u) -> 0..Window]

LimiterInit == /\ rates = NoRates
        /\ pending = [c \in Callers |-> Idle]
        /\ recent = [u \in Users |-> [i \in Grants(u) |-> Window]]

----------------------------------------------------------------------------

\* Lines 66-71.  A stranger who meets a full table is refused here.
Scan(c, u, limit) ==
  /\ pending[c] = Idle
  /\ rates' = Purged
  /\ pending' = IF HasRoom(u)
                THEN [pending EXCEPT ![c] = [user |-> u, limit |-> limit]]
                ELSE pending
  /\ UNCHANGED recent

RecordGrant(u) == recent' = [recent EXCEPT ![u] =
                               [i \in Grants(u) |-> IF i = 1 THEN 0 ELSE @[i - 1]]]

\* Lines 72-82.
Charge(c) ==
  LET u == pending[c].user
  IN /\ pending[c] # Idle
     /\ pending' = [pending EXCEPT ![c] = Idle]
     /\ \/ /\ WithinLimit(u, pending[c].limit)
           /\ Grant(u)
           /\ RecordGrant(u)
        \/ /\ ~WithinLimit(u, pending[c].limit)
           /\ Refuse(u)
           /\ UNCHANGED recent

RecordTick ==
  recent' = [u \in Users |->
               [i \in Grants(u) |-> IF recent[u][i] < Window THEN recent[u][i] + 1 ELSE Window]]

LimiterTick == Older /\ RecordTick /\ UNCHANGED pending

LimiterNext == \/ \E c \in Callers, u \in Users : \E limit \in LimitOf[u] : Scan(c, u, limit)
               \/ \E c \in Callers : Charge(c)
               \/ LimiterTick

LimiterSpec == LimiterInit /\ [][LimiterNext]_limiterVars

----------------------------------------------------------------------------

\* The users that have, or are about to get, an entry.
Known == DOMAIN rates \cup {pending[c].user : c \in {d \in Callers : pending[d] # Idle}}

(* In no span of one window length are more than two limits' worth of      *)
(* calls granted to a user, whatever the interleaving: the boundary burst  *)
(* that docs/websocket-integration.md:100 concedes, and no more.           *)
BurstBounded == \A u \in Users : recent[u][2 * MaxLimit(u) + 1] = Window

(* How far the unlocked size check lets the table grow: each caller that   *)
(* saw room before the last slot was taken may still insert its user.      *)
OverrunBounded ==
  Cardinality(DOMAIN rates) <= RateCapacity + Cardinality(Callers) - 1

(* The inductive form of OverrunBounded.                                   *)
KnownBounded == Cardinality(Known) <= RateCapacity + Cardinality(Callers) - 1
============================================================================
