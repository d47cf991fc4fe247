------------------------------ MODULE MCChart ------------------------------
(* Model-checking instance of Chart: ten charts, one per day stem, whose   *)
(* six luck cycles go through the cycle of sixty together.                 *)
EXTENDS Chart

\* Five years of four days; the first of January is one of them.
FirstYear == 2020
BirthDaysTwo == {4 * FirstYear, 4 * FirstYear + 2}
BirthMinutesTwo == {45, 1430}

\* Kuala Lumpur in February and Taipei in November.
OffsetsBound == {-88, 23}

\* Before the first cycle, at the start of one, in one, and after the last.
TodaysAll == {4 * (FirstYear + y) : y \in {1, 25, 62}} \cup {4 * (FirstYear + 12) + 3}

ChartsTen ==
  {[pillars |-> <<Sexagenary(7 * k), Sexagenary(13 * k + 5), Sexagenary(31 * k), Sexagenary(11 * k + 3)>>,
    details |-> <<"known", "known", "known", "known">>,
    start   |-> 3 + (k % 3),
    luck    |-> [i \in 1..6 |-> Sexagenary(6 * k + i)]] : k \in 0..9}

\* Two texts of one label, an empty list, an empty text and a list too many.
LabelOf == [t \in {"hehua,earth", "hehua,fire", "chong", "blank"} |->
              IF t \in {"hehua,earth", "hehua,fire"} THEN "hehua" ELSE t]
ListsOfKinds == {<<{"hehua,earth"}, {"chong"}>>, <<{"hehua,fire"}, {"chong"}>>, <<{"hehua,earth"}, {}>>}
ListsFive == ListsOfKinds \cup {<<{"hehua,earth", "blank"}>>,
                                <<{"hehua,fire"}, {"hehua,earth"}, {"chong"}>>}
============================================================================
