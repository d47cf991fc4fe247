----------------------------- MODULE MCDialogue -----------------------------
(* A model-checking instance of Dialogue.                                  *)
EXTENDS Dialogue, TLC

CONSTANTS u1, male, d1, d2, h1, h2, m1, c1, act, s1, s2

UsersOne == {u1}
GendersOne == {male}
DatesTwo == {d1, d2}
HoursTwo == {h1, h2}
MinutesOne == {m1}
CitiesOne == {c1}
ActivitiesOne == {act}
DaysThree == 0..2
SlotsTwo == {s1, s2}

Symmetry == Permutations(Slots) \cup Permutations(Hours) \cup Permutations(Dates)
=============================================================================
