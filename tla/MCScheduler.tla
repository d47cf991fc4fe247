---------------------------- MODULE MCScheduler ----------------------------
(* Model-checking instances of Scheduler.                                  *)
EXTENDS Scheduler

CONSTANTS u1, am, pm, j1, j2, j3

UsersOne == {u1}
CronsTwo == {am, pm}
JobsThree == {j1, j2, j3}
=============================================================================
