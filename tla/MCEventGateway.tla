--------------------------- MODULE MCEventGateway ---------------------------
(* Model-checking instance of EventGateway: two sockets of one owner.      *)
EXTENDS EventGateway

CONSTANTS o1, c1, c2, w1

OwnersOne == {o1}
ConnsTwo  == {c1, c2}
WritersOne == {w1}
OwnedByOne == [c \in Conns |-> o1]
=============================================================================
