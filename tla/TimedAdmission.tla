--------------------------- MODULE TimedAdmission ---------------------------
(***************************************************************************)
(* Admission and RateLimiter together: which calls of allow_at the callers *)
(* of Admission have under way, and when they were granted their latest    *)
(* ones.  Both variables of RateLimiter only follow the steps of           *)
(* Admission; they hinder none (NextIsSplit in AdmissionProofs).           *)
(***************************************************************************)
EXTENDS Admission, RateLimiter

\* The limiter serves the callers of Admission, with the limits that these
\* bring along.
Composed == /\ Callers = Requests
            /\ LimitOf = [u \in Users |-> {DefaultLimit, KeyLimit[u]}]

\* The calls between lines 71 and 72 of allow_at.
UnderWay == [r \in Requests |-> IF pc[r] = "charge"
                                THEN [user |-> user[r], limit |-> Limit(r)]
                                ELSE Idle]

TimedInit == /\ Init
             /\ pending = UnderWay
             /\ recent = [u \in Users |-> [i \in Grants(u) |-> Window]]

\* The steps that neither charge a call nor let time pass.
Uncharged ==
  \/ \E r \in Requests : /\ pc[r] # "charge"
                         /\ Begin(r) \/ Proceed(r) \/ TouchContext(r) \/ StartStream(r)
  \/ \E u \in Users : ExpireContext(u)
  \/ Cancel

TimedNext ==
  /\ \/ Uncharged /\ UNCHANGED recent
     \/ \E r \in Requests : /\ ChargeRate(r)
                            /\ IF WithinLimit(user[r], Limit(r)) THEN RecordGrant(user[r])
                                                                 ELSE UNCHANGED recent
     \/ Tick /\ RecordTick
  /\ pending' = UnderWay'

timedVars == <<vars, pending, recent>>
TimedSpec == TimedInit /\ [][TimedNext]_timedVars
=============================================================================
