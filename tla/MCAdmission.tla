---------------------------- MODULE MCAdmission ----------------------------
(* Model-checking instances of Admission: users and callers are model      *)
(* values, every user has the same key limit.                              *)
EXTENDS Admission, TLC

CONSTANTS u1, u2, r1, r2

UsersTwo      == {u1, u2}
RequestsTwo   == {r1, r2}
KeyLimits     == [u \in Users |-> 1]
============================================================================
