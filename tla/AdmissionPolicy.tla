-------------------------- MODULE AdmissionPolicy --------------------------
(***************************************************************************)
(* What admission control promises (docs/adr/0003): a request works in one *)
(* of a fixed number of slots, and a user's turns are serialised: the lane *)
(* of a user belongs to one request at a time, is taken inside a slot and  *)
(* is free again only when that slot has been given back.                  *)
(***************************************************************************)
EXTENDS Naturals, FiniteSets

CONSTANTS Users, Requests, MaxRequests

VARIABLES
  slots,   \* the requests that hold a slot
  lanes    \* pairs <<u, r>>: request r owns the lane of user u

vars == <<slots, lanes>>

Init == slots = {} /\ lanes = {}

Enter(r) == /\ r \notin slots
            /\ Cardinality(slots) < MaxRequests
            /\ slots' = slots \cup {r}
            /\ UNCHANGED lanes

Own(u, r) == /\ r \in slots
             /\ \A l \in lanes : l[1] # u /\ l[2] # r
             /\ lanes' = lanes \cup {<<u, r>>}
             /\ UNCHANGED slots

Exit(r) == /\ r \in slots
           /\ slots' = slots \ {r}
           /\ UNCHANGED lanes

Disown(u, r) == /\ <<u, r>> \in lanes
                /\ r \notin slots
                /\ lanes' = lanes \ {<<u, r>>}
                /\ UNCHANGED slots

Next == \E r \in Requests : \/ Enter(r)
                            \/ Exit(r)
                            \/ \E u \in Users : Own(u, r) \/ Disown(u, r)

Spec == Init /\ [][Next]_vars
============================================================================
