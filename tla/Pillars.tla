------------------------------ MODULE Pillars ------------------------------
(***************************************************************************)
(* The chart arithmetic of crates/baziflow-core: what bazi_utils.rs says   *)
(* about one pillar, or two, and the five-element relations of common.rs.  *)
(*                                                                         *)
(* A stem is its index in STEMS, a branch its index in BRANCHES, a stage   *)
(* of life its index in STATES; a pillar is a stem and a branch.  Of the   *)
(* name of a na yin only the element it ends in is kept.                   *)
(***************************************************************************)
EXTENDS Integers, Sequences

Elements == {"wood", "fire", "earth", "metal", "water"}
Stems    == 0..9
Branches == 0..11

\* The pillars of the cycle of sixty, by their number in it.
Sexagenary(n) == [stem |-> n % 10, branch |-> n % 12]
Cycle == {Sexagenary(n) : n \in 0..59}

----------------------------------------------------------------------------
(* The tables of the code *)

DestroysPairs == {<<"wood", "earth">>, <<"earth", "water">>, <<"water", "fire">>,
                  <<"fire", "metal">>, <<"metal", "wood">>}
GeneratesPairs == {<<"wood", "fire">>, <<"fire", "earth">>, <<"earth", "metal">>,
                   <<"metal", "water">>, <<"water", "wood">>}

Destroys(a, b)  == <<a, b>> \in DestroysPairs
Generates(a, b) == <<a, b>> \in GeneratesPairs

\* "none" for anything that is not a stem or a branch: a masked pillar.
StemElement(s) == CASE s \in {0, 1} -> "wood"
                    [] s \in {2, 3} -> "fire"
                    [] s \in {4, 5} -> "earth"
                    [] s \in {6, 7} -> "metal"
                    [] s \in {8, 9} -> "water"
                    [] OTHER -> "none"

BranchElement(b) == CASE b \in {2, 3}        -> "wood"
                      [] b \in {5, 6}        -> "fire"
                      [] b \in {4, 10, 1, 7} -> "earth"
                      [] b \in {8, 9}        -> "metal"
                      [] b \in {11, 0}       -> "water"
                      [] OTHER               -> "none"

HiddenStems == [b \in Branches |->
  << <<9>>, <<5, 9, 7>>, <<0, 2, 4>>, <<1>>, <<4, 1, 9>>, <<2, 6, 4>>,
     <<3, 5>>, <<5, 3, 1>>, <<6, 8, 4>>, <<7>>, <<4, 7, 3>>, <<8, 0>> >>[b + 1]]

\* The branch at which a stem is at stage 0.
BirthBranch == [s \in Stems |-> <<11, 6, 2, 9, 2, 9, 5, 0, 8, 3>>[s + 1]]

\* The last character of the thirty names, one per two pillars of the cycle.
NaYinElements == <<"metal", "fire", "wood", "earth", "metal", "fire", "water", "earth",
                   "metal", "wood", "water", "earth", "fire", "wood", "water",
                   "metal", "fire", "wood", "earth", "metal", "fire", "water", "earth",
                   "metal", "wood", "water", "earth", "fire", "wood", "water">>

\* wang, xiang, xiu, qiu, si: the strength of the elements in a season.
SeasonTable(spring, summer, earth, autumn, winter) ==
  [wood |-> spring, fire |-> summer, earth |-> earth, metal |-> autumn, water |-> winter]

ElementStates(branch) ==
  CASE branch \in {2, 3}  -> SeasonTable("wang", "xiang", "si", "qiu", "xiu")
    [] branch \in {5, 6}  -> SeasonTable("xiu", "wang", "xiang", "si", "qiu")
    [] branch \in {8, 9}  -> SeasonTable("si", "qiu", "xiu", "wang", "xiang")
    [] branch \in {11, 0} -> SeasonTable("xiang", "si", "qiu", "xiu", "wang")
    [] OTHER              -> SeasonTable("qiu", "xiu", "wang", "xiang", "si")

----------------------------------------------------------------------------
(* What is computed from them *)

\* Mutant of TenGod: the polarities are compared the wrong way round.
TenGodSwapped(master, s) ==
  [relation |-> (s \div 2 + 5 - master \div 2) % 5, same |-> (master % 2) # (s % 2)]

\* The ten names are the five relations times equal or different polarity.
TenGod(master, s) ==
  [relation |-> (s \div 2 + 5 - master \div 2) % 5, same |-> (master % 2) = (s % 2)]

StarLuck(s, b) ==
  IF s % 2 # 0 THEN (BirthBranch[s] - b) % 12 ELSE (b - BirthBranch[s]) % 12

EmptyDeath(s, b) == LET e == (b + 10 - s) % 12 IN {e, (e + 1) % 12}

NaYin(p) == LET n == CHOOSE n \in 0..59 : Sexagenary(n) = p
            IN NaYinElements[n \div 2 + 1]

\* calculate_gz_info
GzInfo(p, master) ==
  [pillar |-> p,
   god    |-> TenGod(master, p.stem),
   hidden |-> [i \in DOMAIN HiddenStems[p.branch] |->
                 <<HiddenStems[p.branch][i], TenGod(master, HiddenStems[p.branch][i])>>],
   luck   |-> StarLuck(master, p.branch),
   seat   |-> StarLuck(p.stem, p.branch),
   empty  |-> EmptyDeath(p.stem, p.branch),
   nayin  |-> NaYin(p)]

GaiTou(p)  == Destroys(StemElement(p.stem), BranchElement(p.branch))
JieJiao(p) == Destroys(BranchElement(p.branch), StemElement(p.stem))

BiHe(p) == StemElement(p.stem) \in Elements /\ StemElement(p.stem) = BranchElement(p.branch)

XiangSheng(p) == \/ Generates(StemElement(p.stem), BranchElement(p.branch))
                 \/ Generates(BranchElement(p.branch), StemElement(p.stem))

\* compute_pillar_traits tests one pillar in this order and stops at the first.
PillarTrait(p) == IF GaiTou(p)     THEN "gaitou"
             ELSE IF JieJiao(p)    THEN "jiejiao"
             ELSE IF BiHe(p)       THEN "bihe"
             ELSE IF XiangSheng(p) THEN "xiangsheng"
             ELSE "none"

Clash(a, b) == Destroys(a, b) \/ Destroys(b, a)

FuYin(p, q) == p = q
FanYin(p, q) == /\ Clash(StemElement(p.stem), StemElement(q.stem))
                /\ Clash(BranchElement(p.branch), BranchElement(q.branch))

PairTrait(p, q) == IF FuYin(p, q) THEN "fuyin" ELSE IF FanYin(p, q) THEN "fanyin" ELSE "none"

----------------------------------------------------------------------------
(* The same notions from first principles, for comparison *)

\* The relation of another element to one's own, around the generating cycle.
RelationOf(own, other) == CASE other = own           -> 0
                            [] Generates(own, other) -> 1
                            [] Destroys(own, other)  -> 2
                            [] Destroys(other, own)  -> 3
                            [] Generates(other, own) -> 4

\* The ten pillars that start at the last stem 0 name ten of the branches.
DecadeStart(p) == (p.branch - p.stem) % 12
Decade(p) == {(DecadeStart(p) + i) % 12 : i \in 0..9}

\* The partner of a stem: the same element, the other polarity.
Partner(s) == IF s % 2 = 0 THEN s + 1 ELSE s - 1

\* The classes of a pillar of which exactly one applies.
Classes(p) == {c \in {"gaitou", "jiejiao", "bihe", "xiangsheng"} :
                 CASE c = "gaitou"     -> GaiTou(p)
                   [] c = "jiejiao"    -> JieJiao(p)
                   [] c = "bihe"       -> BiHe(p)
                   [] c = "xiangsheng" -> XiangSheng(p)}

\* A na yin element from the numbers of the stem and of the branch.
NaYinNumber(p) == ((p.stem \div 2) + ((p.branch % 6) \div 2) + 2) % 5
ElementOfNumber == [n \in 0..4 |-> <<"earth", "wood", "metal", "water", "fire">>[n + 1]]

\* The strength of an element in the season of another.
StrengthIn(season, e) == CASE e = season            -> "wang"
                           [] Generates(season, e)  -> "xiang"
                           [] Generates(e, season)  -> "xiu"
                           [] Destroys(e, season)   -> "qiu"
                           [] Destroys(season, e)   -> "si"
============================================================================
