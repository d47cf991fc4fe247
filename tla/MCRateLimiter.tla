--------------------------- MODULE MCRateLimiter ---------------------------
(* Model-checking instances of RateLimiter: users are model values, one    *)
(* user is called with the default limit as well as with its own.          *)
EXTENDS RateLimiter, TLC

CONSTANTS u1, u2, u3, c1, c2

UsersThree == {u1, u2, u3}
CallersTwo == {c1, c2}

\* u1 has a key limit of 1 and is also called with the default of 2.
LimitsMixed == (u1 :> {1, 2}) @@ (u2 :> {2}) @@ (u3 :> {1})
============================================================================
