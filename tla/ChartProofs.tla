---------------------------- MODULE ChartProofs ----------------------------
(***************************************************************************)
(* The chart arithmetic agrees with the element relations for every pillar *)
(* and every day stem, and the profile of every chart keeps its promises,  *)
(* whatever the services answer.                                           *)
(*                                                                         *)
(* The first half goes through the tables: stems, branches and pillars are *)
(* finite sets of numbers, so the facts are stated per table and then put  *)
(* together in ColumnOfPillar.  The second half is an invariant of the     *)
(* steps of a chart: what each step leaves for the next (Inv).             *)
(***************************************************************************)
EXTENDS Chart, FiniteSetTheorems, TLAPS

(* Two elements are related in exactly one of five ways.                   *)
LEMMA ElementsRelate ==
  ASSUME NEW a \in Elements, NEW b \in Elements
  PROVE  \/ a = b /\ ~Destroys(a, b) /\ ~Destroys(b, a) /\ ~Generates(a, b) /\ ~Generates(b, a)
         \/ a # b /\ Destroys(a, b) /\ ~Destroys(b, a) /\ ~Generates(a, b) /\ ~Generates(b, a)
         \/ a # b /\ ~Destroys(a, b) /\ Destroys(b, a) /\ ~Generates(a, b) /\ ~Generates(b, a)
         \/ a # b /\ ~Destroys(a, b) /\ ~Destroys(b, a) /\ Generates(a, b) /\ ~Generates(b, a)
         \/ a # b /\ ~Destroys(a, b) /\ ~Destroys(b, a) /\ ~Generates(a, b) /\ Generates(b, a)
  BY SMTT(30) DEF Elements, Generates, Destroys, GeneratesPairs, DestroysPairs

LEMMA StemsHaveElements ==
  ASSUME NEW s \in Stems
  PROVE  StemElement(s) \in Elements
  BY DEF Stems, StemElement, Elements

LEMMA BranchesHaveElements ==
  ASSUME NEW b \in Branches
  PROVE  BranchElement(b) \in Elements
  BY DEF Branches, BranchElement, Elements

LEMMA PillarOfCycle ==
  ASSUME NEW p \in Cycle
  PROVE  p.stem \in Stems /\ p.branch \in Branches
  BY DEF Cycle, Sexagenary, Stems, Branches

(* Going around the generating cycle: element number e, counted from wood. *)
ElementNumber(e) == CASE e = "wood" -> 0 [] e = "fire" -> 1 [] e = "earth" -> 2
                      [] e = "metal" -> 3 [] e = "water" -> 4

LEMMA StemElementNumber ==
  ASSUME NEW s \in Stems
  PROVE  s \div 2 = ElementNumber(StemElement(s))
  BY DEF Stems, StemElement, ElementNumber

LEMMA RelationIsDistance ==
  ASSUME NEW a \in Elements, NEW b \in Elements
  PROVE  RelationOf(a, b) = (ElementNumber(b) + 5 - ElementNumber(a)) % 5
<1>1. CASE a = "wood"
  BY <1>1, SMTT(30) DEF Elements, RelationOf, ElementNumber, Generates, Destroys, GeneratesPairs, DestroysPairs
<1>2. CASE a = "fire"
  BY <1>2, SMTT(30) DEF Elements, RelationOf, ElementNumber, Generates, Destroys, GeneratesPairs, DestroysPairs
<1>3. CASE a = "earth"
  BY <1>3, SMTT(30) DEF Elements, RelationOf, ElementNumber, Generates, Destroys, GeneratesPairs, DestroysPairs
<1>4. CASE a = "metal"
  BY <1>4, SMTT(30) DEF Elements, RelationOf, ElementNumber, Generates, Destroys, GeneratesPairs, DestroysPairs
<1>5. CASE a = "water"
  BY <1>5, SMTT(30) DEF Elements, RelationOf, ElementNumber, Generates, Destroys, GeneratesPairs, DestroysPairs
<1> QED
  BY <1>1, <1>2, <1>3, <1>4, <1>5 DEF Elements

LEMMA GodAgrees ==
  ASSUME NEW m \in Stems, NEW s \in Stems
  PROVE  /\ TenGod(m, s).relation = RelationOf(StemElement(m), StemElement(s))
         /\ TenGod(m, s).same <=> m % 2 = s % 2
<1>1. RelationOf(StemElement(m), StemElement(s))
        = (ElementNumber(StemElement(s)) + 5 - ElementNumber(StemElement(m))) % 5
  BY RelationIsDistance, StemsHaveElements
<1> QED
  BY <1>1, StemElementNumber DEF TenGod

LEMMA HiddenAgree ==
  ASSUME NEW b \in Branches
  PROVE  /\ HiddenStems[b] \in Seq(Stems)
         /\ 1 \in DOMAIN HiddenStems[b]
         /\ StemElement(HiddenStems[b][1]) = BranchElement(b)
<1>1. CASE b = 0
  <2>1. HiddenStems[b] = <<9>>
    BY <1>1 DEF HiddenStems, Branches
  <2> QED
    BY <1>1, <2>1 DEF Stems, StemElement, BranchElement
<1>2. CASE b = 1
  <2>1. HiddenStems[b] = <<5, 9, 7>>
    BY <1>2 DEF HiddenStems, Branches
  <2> QED
    BY <1>2, <2>1 DEF Stems, StemElement, BranchElement
<1>3. CASE b = 2
  <2>1. HiddenStems[b] = <<0, 2, 4>>
    BY <1>3 DEF HiddenStems, Branches
  <2> QED
    BY <1>3, <2>1 DEF Stems, StemElement, BranchElement
<1>4. CASE b = 3
  <2>1. HiddenStems[b] = <<1>>
    BY <1>4 DEF HiddenStems, Branches
  <2> QED
    BY <1>4, <2>1 DEF Stems, StemElement, BranchElement
<1>5. CASE b = 4
  <2>1. HiddenStems[b] = <<4, 1, 9>>
    BY <1>5 DEF HiddenStems, Branches
  <2> QED
    BY <1>5, <2>1 DEF Stems, StemElement, BranchElement
<1>6. CASE b = 5
  <2>1. HiddenStems[b] = <<2, 6, 4>>
    BY <1>6 DEF HiddenStems, Branches
  <2> QED
    BY <1>6, <2>1 DEF Stems, StemElement, BranchElement
<1>7. CASE b = 6
  <2>1. HiddenStems[b] = <<3, 5>>
    BY <1>7 DEF HiddenStems, Branches
  <2> QED
    BY <1>7, <2>1 DEF Stems, StemElement, BranchElement
<1>8. CASE b = 7
  <2>1. HiddenStems[b] = <<5, 3, 1>>
    BY <1>8 DEF HiddenStems, Branches
  <2> QED
    BY <1>8, <2>1 DEF Stems, StemElement, BranchElement
<1>9. CASE b = 8
  <2>1. HiddenStems[b] = <<6, 8, 4>>
    BY <1>9 DEF HiddenStems, Branches
  <2> QED
    BY <1>9, <2>1 DEF Stems, StemElement, BranchElement
<1>10. CASE b = 9
  <2>1. HiddenStems[b] = <<7>>
    BY <1>10 DEF HiddenStems, Branches
  <2> QED
    BY <1>10, <2>1 DEF Stems, StemElement, BranchElement
<1>11. CASE b = 10
  <2>1. HiddenStems[b] = <<4, 7, 3>>
    BY <1>11 DEF HiddenStems, Branches
  <2> QED
    BY <1>11, <2>1 DEF Stems, StemElement, BranchElement
<1>12. CASE b = 11
  <2>1. HiddenStems[b] = <<8, 0>>
    BY <1>12 DEF HiddenStems, Branches
  <2> QED
    BY <1>12, <2>1 DEF Stems, StemElement, BranchElement
<1> QED
  BY <1>1, <1>2, <1>3, <1>4, <1>5, <1>6, <1>7, <1>8, <1>9, <1>10, <1>11, <1>12 DEF Branches

LEMMA EmptyAgrees ==
  ASSUME NEW p \in Cycle
  PROVE  EmptyDeath(p.stem, p.branch) = Branches \ Decade(p)
  BY PillarOfCycle, SMTT(60) DEF Stems, EmptyDeath, Branches, Decade, DecadeStart

LEMMA StagesAgree ==
  ASSUME NEW s \in Stems, NEW b \in Branches
  PROVE  (StarLuck(s, b) = 0) <=> (StarLuck(Partner(s), b) = 7)
<1>1. CASE s = 0
  <2>1. Partner(s) = 1 /\ BirthBranch[s] = 11 /\ BirthBranch[1] = 6
    BY <1>1 DEF Partner, BirthBranch, Stems
  <2> QED
    BY <1>1, <2>1 DEF StarLuck, Branches
<1>2. CASE s = 1
  <2>1. Partner(s) = 0 /\ BirthBranch[s] = 6 /\ BirthBranch[0] = 11
    BY <1>2 DEF Partner, BirthBranch, Stems
  <2> QED
    BY <1>2, <2>1 DEF StarLuck, Branches
<1>3. CASE s = 2
  <2>1. Partner(s) = 3 /\ BirthBranch[s] = 2 /\ BirthBranch[3] = 9
    BY <1>3 DEF Partner, BirthBranch, Stems
  <2> QED
    BY <1>3, <2>1 DEF StarLuck, Branches
<1>4. CASE s = 3
  <2>1. Partner(s) = 2 /\ BirthBranch[s] = 9 /\ BirthBranch[2] = 2
    BY <1>4 DEF Partner, BirthBranch, Stems
  <2> QED
    BY <1>4, <2>1 DEF StarLuck, Branches
<1>5. CASE s = 4
  <2>1. Partner(s) = 5 /\ BirthBranch[s] = 2 /\ BirthBranch[5] = 9
    BY <1>5 DEF Partner, BirthBranch, Stems
  <2> QED
    BY <1>5, <2>1 DEF StarLuck, Branches
<1>6. CASE s = 5
  <2>1. Partner(s) = 4 /\ BirthBranch[s] = 9 /\ BirthBranch[4] = 2
    BY <1>6 DEF Partner, BirthBranch, Stems
  <2> QED
    BY <1>6, <2>1 DEF StarLuck, Branches
<1>7. CASE s = 6
  <2>1. Partner(s) = 7 /\ BirthBranch[s] = 5 /\ BirthBranch[7] = 0
    BY <1>7 DEF Partner, BirthBranch, Stems
  <2> QED
    BY <1>7, <2>1 DEF StarLuck, Branches
<1>8. CASE s = 7
  <2>1. Partner(s) = 6 /\ BirthBranch[s] = 0 /\ BirthBranch[6] = 5
    BY <1>8 DEF Partner, BirthBranch, Stems
  <2> QED
    BY <1>8, <2>1 DEF StarLuck, Branches
<1>9. CASE s = 8
  <2>1. Partner(s) = 9 /\ BirthBranch[s] = 8 /\ BirthBranch[9] = 3
    BY <1>9 DEF Partner, BirthBranch, Stems
  <2> QED
    BY <1>9, <2>1 DEF StarLuck, Branches
<1>10. CASE s = 9
  <2>1. Partner(s) = 8 /\ BirthBranch[s] = 3 /\ BirthBranch[8] = 8
    BY <1>10 DEF Partner, BirthBranch, Stems
  <2> QED
    BY <1>10, <2>1 DEF StarLuck, Branches
<1> QED
  BY <1>1, <1>2, <1>3, <1>4, <1>5, <1>6, <1>7, <1>8, <1>9, <1>10 DEF Stems

LEMMA CyclePlaceUnique ==
  ASSUME NEW n \in 0..59, NEW m \in 0..59, Sexagenary(n) = Sexagenary(m)
  PROVE  n = m
  BY DEF Sexagenary

LEMMA NaYinAgrees ==
  ASSUME NEW p \in Cycle
  PROVE  NaYin(p) = ElementOfNumber[NaYinNumber(p)]
<1>1. PICK n \in 0..59 : p = Sexagenary(n)
  BY DEF Cycle
<1>2. NaYin(p) = NaYinElements[n \div 2 + 1]
  BY <1>1, CyclePlaceUnique DEF NaYin
<1>3. NaYinNumber(p) = (((n % 10) \div 2) + (((n % 12) % 6) \div 2) + 2) % 5
  BY <1>1 DEF NaYinNumber, Sexagenary
<1> QED
  BY <1>2, <1>3, SMTT(60) DEF NaYinElements, ElementOfNumber

(* Every column the profile computes says what the elements, the cycle and *)
(* the stages of life say.                                                 *)
LEMMA ColumnOfPillar ==
  ASSUME NEW p \in Cycle, NEW m \in Stems
  PROVE  ColumnAgrees(GzInfo(p, m), m)
<1>1. p.stem \in Stems /\ p.branch \in Branches
  BY PillarOfCycle
<1>2. TenGod(m, p.stem).relation = RelationOf(StemElement(m), StemElement(p.stem))
  BY <1>1, GodAgrees
<1>3. TenGod(m, p.stem).same <=> m % 2 = p.stem % 2
  BY <1>1, GodAgrees
<1> DEFINE h == HiddenStems[p.branch]
<1>4. h \in Seq(Stems) /\ 1 \in DOMAIN h /\ StemElement(h[1]) = BranchElement(p.branch)
  BY <1>1, HiddenAgree
<1>5. \A i \in DOMAIN h : /\ TenGod(m, h[i]).relation = RelationOf(StemElement(m), StemElement(h[i]))
                          /\ TenGod(m, h[i]).same <=> m % 2 = h[i] % 2
  <2> TAKE i \in DOMAIN h
  <2>1. h[i] \in Stems
    BY <1>4
  <2> QED
    BY <2>1, GodAgrees
<1>6. EmptyDeath(p.stem, p.branch) = Branches \ Decade(p) /\ NaYin(p) = ElementOfNumber[NaYinNumber(p)]
  BY EmptyAgrees, NaYinAgrees
<1>7. (StarLuck(p.stem, p.branch) = 0) <=> (StarLuck(Partner(p.stem), p.branch) = 7)
  BY <1>1, StagesAgree
<1>8. (StarLuck(m, p.branch) = 0) <=> (StarLuck(Partner(m), p.branch) = 7)
  BY <1>1, StagesAgree
<1> DEFINE info == GzInfo(p, m)
<1>9. /\ info.pillar = p
      /\ info.god = TenGod(m, p.stem)
      /\ info.hidden = [i \in DOMAIN h |-> <<h[i], TenGod(m, h[i])>>]
      /\ info.luck = StarLuck(m, p.branch)
      /\ info.seat = StarLuck(p.stem, p.branch)
      /\ info.empty = EmptyDeath(p.stem, p.branch)
      /\ info.nayin = NaYin(p)
  BY DEF GzInfo
<1> HIDE DEF h, info
<1>10. DOMAIN info.hidden = DOMAIN h
  BY <1>9
<1>11. \A i \in DOMAIN h : info.hidden[i][1] = h[i] /\ info.hidden[i][2] = TenGod(m, h[i])
  BY <1>9
<1> QED
  BY <1>2, <1>3, <1>4, <1>5, <1>6, <1>7, <1>8, <1>9, <1>10, <1>11 DEF ColumnAgrees, info

(* A pillar of the chart has exactly one class and shows it.               *)
LEMMA OneClass ==
  ASSUME NEW p \in Cycle
  PROVE  Classes(p) = {PillarTrait(p)} /\ PillarTrait(p) # "none"
<1> DEFINE s == StemElement(p.stem)
           b == BranchElement(p.branch)
<1>1. s \in Elements /\ b \in Elements
  BY PillarOfCycle, StemsHaveElements, BranchesHaveElements
<1>2. CASE s = b /\ ~Destroys(s, b) /\ ~Destroys(b, s) /\ ~Generates(s, b) /\ ~Generates(b, s)
  BY <1>1, <1>2 DEF Classes, PillarTrait, GaiTou, JieJiao, BiHe, XiangSheng
<1>3. CASE s # b /\ Destroys(s, b) /\ ~Destroys(b, s) /\ ~Generates(s, b) /\ ~Generates(b, s)
  BY <1>1, <1>3 DEF Classes, PillarTrait, GaiTou, JieJiao, BiHe, XiangSheng
<1>4. CASE s # b /\ ~Destroys(s, b) /\ Destroys(b, s) /\ ~Generates(s, b) /\ ~Generates(b, s)
  BY <1>1, <1>4 DEF Classes, PillarTrait, GaiTou, JieJiao, BiHe, XiangSheng
<1>5. CASE s # b /\ ~Destroys(s, b) /\ ~Destroys(b, s) /\ (Generates(s, b) \/ Generates(b, s))
  BY <1>1, <1>5 DEF Classes, PillarTrait, GaiTou, JieJiao, BiHe, XiangSheng
<1> HIDE DEF s, b
<1> QED
  BY <1>1, <1>2, <1>3, <1>4, <1>5, ElementsRelate

(* The strength of an element in the month is the one its relation to the  *)
(* element of the month asks for.                                          *)
LEMMA StatesAgree ==
  ASSUME NEW b \in Branches, NEW e \in Elements
  PROVE  ElementStates(b)[e] = StrengthIn(BranchElement(b), e)
<1>1. CASE b \in {2, 3}
  BY <1>1, SMTT(30) DEF Elements, ElementStates, SeasonTable, StrengthIn, BranchElement, Generates, Destroys, GeneratesPairs, DestroysPairs
<1>2. CASE b \in {5, 6}
  BY <1>2, SMTT(30) DEF Elements, ElementStates, SeasonTable, StrengthIn, BranchElement, Generates, Destroys, GeneratesPairs, DestroysPairs
<1>3. CASE b \in {8, 9}
  BY <1>3, SMTT(30) DEF Elements, ElementStates, SeasonTable, StrengthIn, BranchElement, Generates, Destroys, GeneratesPairs, DestroysPairs
<1>4. CASE b \in {11, 0}
  BY <1>4, SMTT(30) DEF Elements, ElementStates, SeasonTable, StrengthIn, BranchElement, Generates, Destroys, GeneratesPairs, DestroysPairs
<1>5. CASE b \in {4, 10, 1, 7}
  BY <1>5, SMTT(30) DEF Elements, ElementStates, SeasonTable, StrengthIn, BranchElement, Generates, Destroys, GeneratesPairs, DestroysPairs
<1> QED
  BY <1>1, <1>2, <1>3, <1>4, <1>5 DEF Branches

(* A year number gives the pillar of its place in the cycle.               *)
LEMMA AnnualAgrees ==
  ASSUME NEW year \in Int
  PROVE  AnnualPillar(year) = Sexagenary((year - 4) % 60) /\ AnnualPillar(year) \in Cycle
<1>1. (year - 4) % 60 \in 0..59
  OBVIOUS
<1>2. ((year % 10) + 6) % 10 = ((year - 4) % 60) % 10
  OBVIOUS
<1>3. ((year % 12) + 8) % 12 = ((year - 4) % 60) % 12
  OBVIOUS
<1> QED
  BY <1>1, <1>2, <1>3 DEF AnnualPillar, Sexagenary, Cycle

----------------------------------------------------------------------------
(* What each step leaves for the next *)

SolarOf == TrueSolar(birth.day, IF birth.known THEN birth.minute ELSE UnknownReference, birth.offset)

BirthTyped == birth \in [day : BirthDays, minute : BirthMinutes, known : BOOLEAN, offset : Offsets]

SolarResolved == pc \in {"base", "supplement", "done"} => solar = SolarOf

BaseFetched == pc \in {"supplement", "done"} =>
  /\ \E chart \in Charts : raw = MaskHour(ChartAt(chart))
  /\ asked = [moment |-> solar, pillars |-> raw.pillars]
  /\ clock \in [annual : Nat, luck : Nat]

ProfileMapped == pc = "done" =>
  /\ found \in [natal : Answers, luck : Answers, annual : Answers, yongshi : {None, solar}]
  /\ profile = ProfileOf(found.natal, found.luck, found.annual, found.yongshi)

Inv == BirthTyped /\ SolarResolved /\ BaseFetched /\ ProfileMapped

(* Every chart is made from resolved, masked and mapped data in turn.      *)
THEOREM InvHolds == Spec => []Inv
<1>1. Init => Inv
  BY DEF Init, Inv, BirthTyped, SolarResolved, BaseFetched, ProfileMapped
<1>2. Inv /\ [Next]_vars => Inv'
  <2> SUFFICES ASSUME Inv, [Next]_vars
               PROVE  Inv'
    OBVIOUS
  <2> USE DEF Inv
  <2>1. CASE ResolveBirth
    BY <2>1 DEF ResolveBirth, BirthTyped, SolarResolved, SolarOf, BaseFetched, ProfileMapped
  <2>2. CASE FetchBase
    <3>1. BirthTyped' /\ SolarResolved' /\ ProfileMapped'
      BY <2>2 DEF FetchBase, BirthTyped, SolarResolved, SolarOf, ProfileMapped
    <3>2. PICK chart \in Charts, today \in Todays : \E later \in {today, today + 1} :
            /\ raw' = MaskHour(ChartAt(chart))
            /\ asked' = [moment |-> solar, pillars |-> MaskHour(ChartAt(chart)).pillars]
            /\ clock' = [annual |-> today, luck |-> later]
      BY <2>2 DEF FetchBase
    <3>3. today \in Nat
      BY ChartAssumption
    <3>4. clock' \in [annual : Nat, luck : Nat]
      BY <3>2, <3>3
    <3>5. birth' = birth /\ solar' = solar
      BY <2>2 DEF FetchBase
    <3>6. raw' = MaskHour(ChartAt(chart))' /\ asked' = [moment |-> solar', pillars |-> raw'.pillars]
      BY <3>2, <3>5 DEF MaskHour, ChartAt
    <3> QED
      BY <3>1, <3>4, <3>6 DEF BaseFetched
  <2>3. CASE FetchBaseFails
    BY <2>3 DEF FetchBaseFails, BirthTyped, SolarResolved, BaseFetched, ProfileMapped
  <2>4. CASE Supplement
    <3>1. BirthTyped' /\ SolarResolved' /\ BaseFetched'
      <4>1. pc = "supplement" /\ UNCHANGED <<birth, solar, raw, asked, clock>>
        BY <2>4 DEF Supplement
      <4>2. BirthTyped' /\ SolarResolved'
        BY <4>1 DEF BirthTyped, SolarResolved, SolarOf
      <4>3. PICK chart \in Charts : raw = MaskHour(ChartAt(chart))
        BY <4>1 DEF BaseFetched
      <4>4. MaskHour(ChartAt(chart))' = MaskHour(ChartAt(chart))
        BY <4>1 DEF MaskHour, ChartAt
      <4>5. raw' = MaskHour(ChartAt(chart))' /\ asked' = [moment |-> solar', pillars |-> raw'.pillars]
        BY <4>1, <4>3, <4>4 DEF BaseFetched
      <4>6. clock' \in [annual : Nat, luck : Nat]
        BY <4>1 DEF BaseFetched
      <4> QED
        BY <4>2, <4>5, <4>6 DEF BaseFetched
    <3>2. PICK natal \in Answers, luck \in Answers, annual \in Answers, yongshi \in {None, asked.moment} :
            /\ found' = [natal |-> natal, luck |-> luck, annual |-> annual, yongshi |-> yongshi]
            /\ profile' = ProfileOf(natal, luck, annual, yongshi)
      BY <2>4 DEF Supplement
    <3>3. birth' = birth /\ solar' = solar /\ raw' = raw /\ clock' = clock
      BY <2>4 DEF Supplement
    <3>4. asked.moment = solar
      BY <2>4 DEF Supplement, BaseFetched
    <3>5. found' \in [natal : Answers, luck : Answers, annual : Answers, yongshi : {None, solar'}]
      BY <3>2, <3>3, <3>4
    <3> HIDE DEF Inv
    <3>6. profile' = ProfileOf(found.natal, found.luck, found.annual, found.yongshi)'
      <4>1. /\ found'.natal = natal /\ found'.luck = luck
            /\ found'.annual = annual /\ found'.yongshi = yongshi
        BY <3>2
      <4>2. ProfileOf(found.natal, found.luck, found.annual, found.yongshi)'
              = ProfileOf(natal, luck, annual, yongshi)
        BY <3>3, <4>1 DEF ProfileOf, LuckIndex, LuckWindow, LuckCycle
      <4> QED
        BY <3>2, <4>2
    <3> QED
      BY <3>1, <3>5, <3>6 DEF ProfileMapped, Inv
  <2>5. CASE UNCHANGED vars
    <3>1. /\ pc' = pc /\ birth' = birth /\ solar' = solar /\ raw' = raw
          /\ asked' = asked /\ clock' = clock /\ found' = found /\ profile' = profile
      BY <2>5 DEF vars
    <3>2. BirthTyped' /\ SolarResolved'
      BY <3>1 DEF BirthTyped, SolarResolved, SolarOf
    <3>3. BaseFetched'
      <4>1. \A chart \in Charts : MaskHour(ChartAt(chart))' = MaskHour(ChartAt(chart))
        BY <3>1 DEF MaskHour, ChartAt
      <4> QED
        BY <3>1, <4>1 DEF BaseFetched
    <3>4. ProfileMapped'
      <4>1. ProfileOf(found.natal, found.luck, found.annual, found.yongshi)'
              = ProfileOf(found.natal, found.luck, found.annual, found.yongshi)
        BY <3>1 DEF ProfileOf, LuckIndex, LuckWindow, LuckCycle
      <4> QED
        BY <3>1, <4>1 DEF ProfileMapped
    <3> QED
      BY <3>2, <3>3, <3>4
  <2> QED
    BY <2>1, <2>2, <2>3, <2>4, <2>5 DEF Next
<1> QED
  BY <1>1, <1>2, PTL DEF Spec

(* Masking leaves the other pillars and the luck cycles alone.             *)
LEMMA MaskedChart ==
  ASSUME NEW chart \in Charts, BirthTyped
  PROVE  /\ \A i \in 1..3 : MaskHour(ChartAt(chart)).pillars[i] \in Cycle
         /\ MaskHour(ChartAt(chart)).pillars[4] \in Cycle \cup {Masked}
         /\ MaskHour(ChartAt(chart)).luck \in Seq(Cycle)
         /\ MaskHour(ChartAt(chart)).start \in Nat
         /\ MaskHour(ChartAt(chart)).palaces = solar
         /\ ~birth.known => /\ MaskHour(ChartAt(chart)).pillars[4] = Masked
                            /\ MaskHour(ChartAt(chart)).details[4] = "masked"
<1>1. chart \in RawCharts
  BY ChartAssumption
<1> QED
  BY <1>1 DEF MaskHour, ChartAt, RawCharts, Hour, BirthTyped

LEMMA NoHalfDay ==
  ASSUME NEW o \in Offsets
  PROVE  o \in Int /\ -720 <= o /\ o < 720
  BY ChartAssumption

(* Whatever the place of birth, noon is on the day of birth.               *)
THEOREM NoonKeepsTheDayHolds == Spec => []NoonKeepsTheDay
<1>1. Inv => NoonKeepsTheDay
  <2> SUFFICES ASSUME Inv, Done, ~birth.known
               PROVE  solar.day = birth.day
    BY DEF NoonKeepsTheDay
  <2>1. solar.day = birth.day + (720 + birth.offset) \div 1440
    BY DEF Inv, SolarResolved, SolarOf, TrueSolar, UnknownReference, Done
  <2>2. birth.offset \in Int /\ -720 <= birth.offset /\ birth.offset < 720 /\ birth.day \in Nat
    <3>1. birth.offset \in Offsets /\ birth.day \in BirthDays
      BY DEF Inv, BirthTyped
    <3>2. BirthDays \subseteq Nat
      BY ChartAssumption
    <3>3. birth.day \in Nat
      BY <3>1, <3>2
    <3> QED
      BY <3>1, <3>3, NoHalfDay
  <2>3. (720 + birth.offset) \div 1440 = 0
    BY <2>2
  <2> QED
    BY <2>1, <2>2, <2>3
<1> QED
  BY <1>1, InvHolds, PTL

----------------------------------------------------------------------------
(* What the profile says, read off the invariant *)

(* The window of luck cycles: entry k is cycle first + k - 1, with the     *)
(* columns of that cycle, marked and with relations only at the index.     *)
LEMMA WindowEntries ==
  ASSUME NEW index \in Nat, NEW relations, raw.luck \in Seq(Cycle)
  PROVE  /\ index >= Len(raw.luck) => LuckWindow(index, relations) = <<>>
         /\ index < Len(raw.luck) =>
              \E first \in Nat, n \in Nat :
                /\ first <= index /\ index < first + n /\ first + n <= Len(raw.luck)
                /\ LuckWindow(index, relations) = [k \in 1..n |-> LuckCycle(first + k - 1, index, relations)]
<1>1. Len(raw.luck) \in Nat
  OBVIOUS
<1>2. CASE index >= Len(raw.luck)
  <2>1. LuckWindow(index, relations) = <<>>
    BY <1>2 DEF LuckWindow
  <2>2. ~(index < Len(raw.luck))
    BY <1>1, <1>2
  <2> QED
    BY <2>1, <2>2
<1>3. CASE index < Len(raw.luck)
  <2> DEFINE first == IF index = 0 THEN 0 ELSE index - 1
             last  == IF index + 1 < Len(raw.luck) THEN index + 1 ELSE Len(raw.luck) - 1
             n     == last - first + 1
  <2>1. first \in Nat /\ last \in Nat /\ n \in Nat
    BY <1>1, <1>3
  <2>2. first <= index /\ index < first + n /\ first + n <= Len(raw.luck)
    BY <1>1, <1>3
  <2>3. LuckWindow(index, relations) = [k \in 1..n |-> LuckCycle(first + k - 1, index, relations)]
    BY <1>1, <1>3 DEF LuckWindow
  <2> HIDE DEF first, last, n
  <2> QED
    BY <1>1, <1>3, <2>1, <2>2, <2>3
<1> QED
  BY <1>1, <1>2, <1>3

LEMMA IndexTyped ==
  ASSUME NEW chart, chart.start \in Nat, NEW year \in Nat, YearOf(birth.day) \in Nat
  PROVE  /\ LuckIndex(chart, year) \in Nat
         /\ LET first == YearOf(birth.day) + chart.start - 1
                start == first + LuckIndex(chart, year) * 10
            IN IF year >= first THEN start <= year /\ year <= start + 9
                                ELSE start = first
<1> DEFINE past == year - YearOf(birth.day) + 1 - chart.start
<1>1. past \in Int
  OBVIOUS
<1>2. CASE past < 0
  BY <1>1, <1>2 DEF LuckIndex
<1>3. CASE past >= 0
  <2>1. LuckIndex(chart, year) = past \div 10
    BY <1>1, <1>3 DEF LuckIndex
  <2>2. past \div 10 \in Nat /\ (past \div 10) * 10 <= past /\ past <= (past \div 10) * 10 + 9
    BY <1>1, <1>3
  <2> QED
    BY <1>3, <2>1, <2>2
<1> QED
  BY <1>1, <1>2, <1>3

(* What a finished chart was made from, and what the profile says of it.   *)
LEMMA Finished ==
  ASSUME Inv, Done
  PROVE  /\ \A i \in 1..3 : raw.pillars[i] \in Cycle
         /\ raw.pillars[4] \in Cycle \cup {Masked}
         /\ raw.luck \in Seq(Cycle)
         /\ raw.start \in Nat
         /\ raw.palaces = solar /\ solar = SolarOf
         /\ asked.pillars = raw.pillars
         /\ ~birth.known => raw.pillars[4] = Masked /\ raw.details[4] = "masked"
         /\ YearOf(birth.day) \in Nat /\ YearOf(clock.luck) \in Nat
         /\ LunarYear(clock.annual) \in Int
         /\ found.natal \in Answers /\ found.luck \in Answers /\ found.annual \in Answers
         /\ found.yongshi \in {None, solar}
         /\ profile = ProfileOf(found.natal, found.luck, found.annual, found.yongshi)
<1> USE DEF Inv, Done
<1>1. /\ \E chart \in Charts : raw = MaskHour(ChartAt(chart))
      /\ asked.pillars = raw.pillars /\ solar = SolarOf
  BY DEF BaseFetched, SolarResolved
<1>0. PICK chart \in Charts : raw = MaskHour(ChartAt(chart))
  BY <1>1
<1>2. DaysPerYear \in Nat /\ DaysPerYear > 0
  BY ChartAssumption
<1>3. birth.day \in BirthDays /\ BirthDays \subseteq Nat
  BY ChartAssumption DEF BirthTyped
<1>4. clock.luck \in Nat /\ clock.annual \in Nat
  BY DEF BaseFetched
<1>5. YearOf(birth.day) \in Nat /\ YearOf(clock.luck) \in Nat /\ YearOf(clock.annual) \in Nat
  <2>1. birth.day \in Nat
    BY <1>3
  <2> QED
    BY <2>1, <1>2, <1>4 DEF YearOf
<1>6. LunarYear(clock.annual) \in Int
  BY <1>5 DEF LunarYear
<1>7. /\ found.natal \in Answers /\ found.luck \in Answers /\ found.annual \in Answers
      /\ found.yongshi \in {None, solar}
      /\ profile = ProfileOf(found.natal, found.luck, found.annual, found.yongshi)
  BY DEF ProfileMapped
<1>8. /\ \A i \in 1..3 : MaskHour(ChartAt(chart)).pillars[i] \in Cycle
      /\ MaskHour(ChartAt(chart)).pillars[4] \in Cycle \cup {Masked}
      /\ MaskHour(ChartAt(chart)).luck \in Seq(Cycle)
      /\ MaskHour(ChartAt(chart)).start \in Nat
      /\ MaskHour(ChartAt(chart)).palaces = solar
      /\ ~birth.known => MaskHour(ChartAt(chart)).pillars[4] = Masked /\ MaskHour(ChartAt(chart)).details[4] = "masked"
  BY MaskedChart
<1> QED
  BY <1>0, <1>1, <1>5, <1>6, <1>7, <1>8

(* The current cycle is marked once, covers the year unless none has begun *)
(* (then it is the first), and its neighbours join it without a gap.       *)
THEOREM LuckCoversHolds == Spec => []LuckCovers
<1>1. Inv => LuckCovers
  <2> DEFINE index == LuckIndex(raw, YearOf(clock.luck))
             year  == YearOf(clock.luck)
             origin == YearOf(birth.day) + raw.start - 1
             news  == NewRelations(found.luck, found.natal)
             dayun == profile.dayun
  <2> SUFFICES ASSUME Inv, Done, index < Len(raw.luck)
               PROVE  /\ \E i \in DOMAIN dayun :
                           /\ {j \in DOMAIN dayun : dayun[j].current} = {i}
                           /\ IF year >= origin THEN dayun[i].start <= year /\ year <= dayun[i].end
                                                ELSE dayun[i].start = origin
                      /\ \A i \in DOMAIN dayun : i + 1 \in DOMAIN dayun =>
                           dayun[i + 1].start = dayun[i].end + 1
    BY DEF LuckCovers
  <2>1. dayun = LuckWindow(index, news)
    BY Finished DEF ProfileOf
  <2>2. raw.start \in Nat /\ YearOf(birth.day) \in Nat /\ year \in Nat /\ raw.luck \in Seq(Cycle)
    BY Finished
  <2>3. /\ index \in Nat
        /\ IF year >= origin THEN origin + index * 10 <= year /\ year <= origin + index * 10 + 9
                             ELSE origin + index * 10 = origin
    BY <2>2, IndexTyped
  <2> HIDE DEF index, news, year
  <2>4. PICK first \in Nat, n \in Nat :
          /\ first <= index /\ index < first + n
          /\ dayun = [k \in 1..n |-> LuckCycle(first + k - 1, index, news)]
    <3>1. \E first \in Nat, n \in Nat :
            /\ first <= index /\ index < first + n /\ first + n <= Len(raw.luck)
            /\ LuckWindow(index, news) = [k \in 1..n |-> LuckCycle(first + k - 1, index, news)]
      BY <2>2, <2>3, WindowEntries, Zenon
    <3> QED
      BY <2>1, <3>1, Zenon
  <2>5. \A k \in 1..n : /\ dayun[k].current <=> first + k - 1 = index
                        /\ dayun[k].start = origin + (first + k - 1) * 10
                        /\ dayun[k].end = dayun[k].start + 9
    <3> TAKE k \in 1..n
    <3>1. dayun[k] = LuckCycle(first + k - 1, index, news)
      BY <2>4
    <3>2. /\ dayun[k].current = (first + k - 1 = index)
          /\ dayun[k].start = YearOf(birth.day) + raw.start + (first + k - 1) * 10 - 1
          /\ dayun[k].end = dayun[k].start + 9
      BY <3>1 DEF LuckCycle
    <3>3. dayun[k].current <=> first + k - 1 = index
      BY <3>2, Zenon
    <3>4. dayun[k].start = origin + (first + k - 1) * 10
      BY <3>2, <2>2
    <3> QED
      BY <3>2, <3>3, <3>4
  <2>6. DOMAIN dayun = 1..n
    BY <2>4
  <2> DEFINE i == index - first + 1
  <2>7. i \in 1..n /\ first + i - 1 = index
    BY <2>3, <2>4
  <2> HIDE DEF dayun, origin
  <2>8. {j \in DOMAIN dayun : dayun[j].current} = {i}
    <3>1. \A j \in 1..n : first + j - 1 = index <=> j = i
      BY <2>3, <2>4
    <3>2. \A j \in 1..n : dayun[j].current <=> j = i
      BY <2>5, <3>1, Zenon
    <3> QED
      BY <2>6, <2>7, <3>2, Zenon
  <2> HIDE DEF i
  <2>9. IF year >= origin THEN dayun[i].start <= year /\ year <= dayun[i].end
                          ELSE dayun[i].start = origin
    BY <2>2, <2>3, <2>5, <2>7 DEF origin
  <2>10. \A j \in DOMAIN dayun : j + 1 \in DOMAIN dayun => dayun[j + 1].start = dayun[j].end + 1
    <3> SUFFICES ASSUME NEW j \in 1..n, j + 1 \in 1..n
                 PROVE  dayun[j + 1].start = dayun[j].end + 1
      BY <2>6
    <3>1. dayun[j + 1].start = origin + (first + (j + 1) - 1) * 10
      BY <2>5
    <3>2. dayun[j].end = origin + (first + j - 1) * 10 + 9
      BY <2>5
    <3>3. origin \in Int
      BY <2>2 DEF origin
    <3> QED
      BY <3>1, <3>2, <3>3
  <2> QED
    BY <2>6, <2>7, <2>8, <2>9, <2>10
<1> QED
  BY <1>1, InvHolds, PTL

(* What is taken from a list of lists is in it; of two lists, or of what   *)
(* is left of two, nothing is passed over.                                 *)
LEMMA FirstTwo ==
  ASSUME NEW lists
  PROVE  /\ AtRank(lists, 0) \cup AtRank(lists, 1) \subseteq UNION {lists[i] : i \in DOMAIN lists}
         /\ DOMAIN lists \subseteq {1, 2} =>
              UNION {lists[i] : i \in DOMAIN lists} \subseteq AtRank(lists, 0) \cup AtRank(lists, 1)
<1> DEFINE Before(j) == {k \in DOMAIN lists : k < j}
<1>1. \A n : AtRank(lists, n) \subseteq UNION {lists[i] : i \in DOMAIN lists}
  BY DEF AtRank
<1>2. ASSUME DOMAIN lists \subseteq {1, 2}, NEW i \in DOMAIN lists
      PROVE  Cardinality(Before(i)) \in {0, 1}
  <2>1. Before(i) = {} \/ Before(i) = {1}
    BY <1>2
  <2>2. Cardinality({}) = 0 /\ Cardinality({1}) = 1
    BY FS_EmptySet, FS_Singleton
  <2> QED
    BY <2>1, <2>2
<1>3. ASSUME DOMAIN lists \subseteq {1, 2}, NEW i \in DOMAIN lists
      PROVE  lists[i] \subseteq AtRank(lists, 0) \cup AtRank(lists, 1)
  <2>1. CASE Cardinality(Before(i)) = 0
    BY <2>1 DEF AtRank
  <2>2. CASE Cardinality(Before(i)) = 1
    BY <2>2 DEF AtRank
  <2> QED
    BY <1>2, <1>3, <2>1, <2>2
<1> QED
  BY <1>1, <1>3

LEMMA AnswerTyped ==
  ASSUME NEW answer \in Answers
  PROVE  /\ answer = [got |-> answer.got, lists |-> answer.lists]
         /\ answer.lists \in Seq(SUBSET Texts)
         /\ ~answer.got => answer.lists = <<>>
<1>1. CASE answer = [got |-> FALSE, lists |-> <<>>]
  <2>1. <<>> \in Seq(SUBSET Texts)
    OBVIOUS
  <2> QED
    BY <1>1, <2>1
<1>2. CASE answer \in [got : {TRUE}, lists : RelationLists]
  <2>1. PICK l \in RelationLists : answer = [got |-> TRUE, lists |-> l]
    BY <1>2
  <2>2. l \in Seq(SUBSET Texts)
    BY ChartAssumption
  <2> QED
    BY <2>1, <2>2
<1> QED
  BY <1>1, <1>2 DEF Answers

(* Taking out what the natal chart has leaves texts that are new, and all  *)
(* of them when there were two lists, whichever is emptied and whichever   *)
(* request failed.                                                         *)
LEMMA OnlyNewReported ==
  ASSUME NEW answer \in Answers, found.natal \in Answers
  PROVE  OnlyNew(Extracted(NewRelations(answer, found.natal)), answer)
<1> DEFINE old   == AllOf(found.natal)
           fresh == AllOf(answer) \ old
           new   == [i \in DOMAIN answer.lists |-> answer.lists[i] \ old]
           left  == NewRelations(answer, found.natal).lists
           one   == AtRank(left, 0)
           two   == AtRank(left, 1)
<1>1. DOMAIN answer.lists = 1..Len(answer.lists) /\ Len(answer.lists) \in Nat
  BY AnswerTyped
<1>2. /\ DOMAIN left \subseteq DOMAIN answer.lists
      /\ UNION {left[i] : i \in DOMAIN left} = fresh
  <2>1. CASE found.natal.got
    <3>1. left = [i \in {j \in DOMAIN new : new[j] # {}} |-> new[i]]
      BY <2>1, AnswerTyped DEF NewRelations
    <3>2. \A i \in DOMAIN left : i \in DOMAIN answer.lists /\ left[i] = answer.lists[i] \ old
      BY <3>1
    <3>3. \A i \in DOMAIN answer.lists : answer.lists[i] \ old # {} => i \in DOMAIN left
      BY <3>1
    <3> HIDE DEF left, old
    <3>4. DOMAIN left \subseteq DOMAIN answer.lists
      BY <3>2
    <3>5. UNION {left[i] : i \in DOMAIN left} \subseteq fresh
      BY <3>2 DEF AllOf
    <3>6. ASSUME NEW t \in fresh
          PROVE  t \in UNION {left[i] : i \in DOMAIN left}
      <4>1. PICK i \in DOMAIN answer.lists : t \in answer.lists[i] /\ t \notin old
        BY <3>6 DEF AllOf
      <4>2. i \in DOMAIN left /\ t \in left[i]
        BY <3>2, <3>3, <4>1
      <4> QED
        BY <4>2
    <3> QED
      BY <3>4, <3>5, <3>6
  <2>2. CASE ~found.natal.got
    <3>1. left = answer.lists
      BY <2>2 DEF NewRelations
    <3>2. old = {}
      BY <2>2, AnswerTyped DEF AllOf
    <3> QED
      BY <3>1, <3>2 DEF AllOf
  <2> QED
    BY <2>1, <2>2
<1> HIDE DEF left, fresh
<1>3. one \cup two \subseteq fresh
  BY <1>2, FirstTwo
<1>4. Len(answer.lists) <= 2 => one \cup two = fresh
  <2> SUFFICES ASSUME Len(answer.lists) <= 2
               PROVE  one \cup two = fresh
    OBVIOUS
  <2>1. DOMAIN left \subseteq {1, 2}
    BY <1>1, <1>2
  <2> QED
    BY <1>2, <1>3, <2>1, FirstTwo
<1>5. Reported(Extracted(NewRelations(answer, found.natal))) = Labels(one \cup two)
  BY DEF Reported, Extracted, Labels, left
<1> HIDE DEF one, two
<1>6. Labels(one \cup two) \subseteq Labels(fresh)
  BY <1>3 DEF Labels
<1> QED
  BY <1>4, <1>5, <1>6 DEF OnlyNew, fresh

(* The current cycle and year show relations they add, and of two lists    *)
(* all of them; the other cycles show none.                                *)
THEOREM RelationsAreNewHolds == Spec => []RelationsAreNew
<1>1. Inv => RelationsAreNew
  <2> DEFINE index == LuckIndex(raw, YearOf(clock.luck))
             news  == NewRelations(found.luck, found.natal)
  <2> SUFFICES ASSUME Inv, Done
               PROVE  RelationsAreNew
    BY DEF RelationsAreNew
  <2>1. found.natal \in Answers /\ found.luck \in Answers /\ found.annual \in Answers
    BY Finished
  <2>2. profile.dayun = LuckWindow(index, news)
    BY Finished DEF ProfileOf
  <2>3. profile.liunian.relation = Extracted(NewRelations(found.annual, found.natal))
    BY Finished DEF ProfileOf
  <2>4. OnlyNew(profile.liunian.relation, found.annual)
    BY <2>1, <2>3, OnlyNewReported
  <2>5. raw.luck \in Seq(Cycle) /\ index \in Nat
    BY Finished, IndexTyped
  <2>6. \A i \in DOMAIN profile.dayun :
          IF profile.dayun[i].current
            THEN OnlyNew(profile.dayun[i].relation, found.luck)
            ELSE Reported(profile.dayun[i].relation) = {}
    <3>1. CASE index >= Len(raw.luck)
      <4>1. profile.dayun = <<>>
        BY <2>2, <2>5, <3>1, WindowEntries
      <4> QED
        BY <4>1
    <3>2. CASE index < Len(raw.luck)
      <4>1. PICK first \in Nat, n \in Nat :
              profile.dayun = [k \in 1..n |-> LuckCycle(first + k - 1, index, news)]
        <5> HIDE DEF index, news
        <5>1. \E first \in Nat, n \in Nat :
                LuckWindow(index, news) = [k \in 1..n |-> LuckCycle(first + k - 1, index, news)]
          BY <2>5, <3>2, WindowEntries
        <5> QED
          BY <2>2, <5>1, Zenon
      <4> SUFFICES ASSUME NEW i \in 1..n
                   PROVE  IF profile.dayun[i].current
                            THEN OnlyNew(profile.dayun[i].relation, found.luck)
                            ELSE Reported(profile.dayun[i].relation) = {}
        BY <4>1
      <4>2. profile.dayun[i] = LuckCycle(first + i - 1, index, news)
        BY <4>1
      <4> HIDE DEF index, news
      <4>3. /\ profile.dayun[i].current = (first + i - 1 = index)
            /\ profile.dayun[i].relation = IF first + i - 1 = index THEN Extracted(news) ELSE NoRelations
        BY <4>2 DEF LuckCycle
      <4>4. OnlyNew(Extracted(news), found.luck)
        BY <2>1, OnlyNewReported DEF news
      <4>5. Reported(NoRelations) = {}
        BY DEF Reported, NoRelations
      <4> QED
        BY <4>3, <4>4, <4>5
    <3>3. index >= Len(raw.luck) \/ index < Len(raw.luck)
      <4>1. Len(raw.luck) \in Nat
        BY <2>5
      <4> HIDE DEF index
      <4> QED
        BY <2>5, <4>1
    <3> HIDE DEF index, news
    <3> QED
      BY <3>1, <3>2, <3>3, Zenon
  <2> QED
    BY <2>4, <2>6 DEF RelationsAreNew
<1> QED
  BY <1>1, InvHolds, PTL

(* A masked pillar has no class and makes no pair with a known one.        *)
LEMMA MaskedIsSilent ==
  ASSUME NEW p \in Cycle
  PROVE  PillarTrait(Masked) = "none" /\ PairTrait(p, Masked) = "none"
<1>1. p # Masked
  BY PillarOfCycle DEF Masked, Stems
<1>2. StemElement(Masked.stem) = "none" /\ BranchElement(Masked.branch) = "none"
  BY DEF Masked, StemElement, BranchElement
<1>3. \A e : ~Destroys(e, "none") /\ ~Destroys("none", e) /\ ~Generates(e, "none") /\ ~Generates("none", e)
  BY DEF Destroys, Generates, DestroysPairs, GeneratesPairs
<1>4. ~GaiTou(Masked) /\ ~JieJiao(Masked) /\ ~BiHe(Masked) /\ ~XiangSheng(Masked)
  BY <1>2, <1>3 DEF GaiTou, JieJiao, BiHe, XiangSheng, Elements
<1>5. ~FuYin(p, Masked) /\ ~FanYin(p, Masked)
  BY <1>1, <1>2, <1>3 DEF FuYin, FanYin, Clash
<1> QED
  BY <1>4, <1>5 DEF PillarTrait, PairTrait

(* A chart without a birth time shows and asks nothing of its hour pillar, *)
(* and dates what it does not mask to the reference noon.                  *)
THEOREM UnknownHourMaskedHolds == Spec => []UnknownHourMasked
<1>1. Inv => UnknownHourMasked
  <2> SUFFICES ASSUME Inv, Done, ~birth.known
               PROVE  /\ ~profile.known
                      /\ profile.pillars[4] = Masked /\ profile.details[4] = "masked"
                      /\ asked.pillars[4] = Masked
                      /\ \A t \in profile.traits : 4 \notin t[1]
                      /\ profile.date = SolarOf /\ profile.palaces = SolarOf
                      /\ profile.yongshi \in {None, SolarOf}
    BY DEF SolarOf, UnknownHourMasked, Hour
  <2>1. raw.pillars[4] = Masked /\ raw.details[4] = "masked" /\ asked.pillars = raw.pillars
    BY Finished
  <2>2. /\ profile.pillars = raw.pillars /\ profile.details = raw.details
        /\ profile.known = birth.known /\ profile.traits = Traits(raw.pillars)
    BY Finished DEF ProfileOf
  <2>3. \A i \in 1..3 : raw.pillars[i] \in Cycle
    BY Finished
  <2>4. ASSUME NEW t \in Traits(raw.pillars)
        PROVE  4 \notin t[1]
    <3>1. CASE \E i \in 1..4 : t = <<{i}, PillarTrait(raw.pillars[i])>> /\ t[2] # "none"
      BY <2>1, <3>1, MaskedIsSilent, <2>3
    <3>2. CASE \E e \in (1..4) \X (1..4) : /\ e[1] < e[2] /\ t[2] # "none"
                                           /\ t = <<{e[1], e[2]}, PairTrait(raw.pillars[e[1]], raw.pillars[e[2]])>>
      <4>1. PICK i \in 1..4, j \in 1..4 : /\ i < j /\ t[2] # "none"
                                          /\ t = <<{i, j}, PairTrait(raw.pillars[i], raw.pillars[j])>>
        BY <3>2
      <4>2. i \in 1..3
        BY <4>1
      <4>3. CASE j = 4
        BY <2>1, <2>3, <4>1, <4>2, <4>3, MaskedIsSilent
      <4> QED
        BY <4>1, <4>2, <4>3
    <3> QED
      BY <3>1, <3>2 DEF Traits
  <2>5. /\ profile.date = SolarOf /\ profile.palaces = SolarOf
        /\ profile.yongshi \in {None, SolarOf}
    BY Finished DEF ProfileOf
  <2> QED
    BY <2>1, <2>2, <2>4, <2>5
<1> QED
  BY <1>1, InvHolds, PTL

(* Every table of the code agrees with the elements, the cycle of sixty    *)
(* and the stages of life, in every column of every profile.               *)
THEOREM TablesAgreeHolds == Spec => []TablesAgree
<1>1. Inv => TablesAgree
  <2> DEFINE index == LuckIndex(raw, YearOf(clock.luck))
             news  == NewRelations(found.luck, found.natal)
             year  == LunarYear(clock.annual)
  <2> SUFFICES ASSUME Inv, Done
               PROVE  TablesAgree
    BY DEF TablesAgree
  <2>1. \A i \in 1..3 : raw.pillars[i] \in Cycle
    BY Finished
  <2>2. raw.pillars[4] \in Cycle \cup {Masked}
    BY Finished
  <2>3. raw.luck \in Seq(Cycle) /\ index \in Nat /\ year \in Int
    BY Finished, IndexTyped
  <2>4. /\ profile.dayun = LuckWindow(index, news)
        /\ profile.liunian.year = year
        /\ profile.liunian.info = GzInfo(AnnualPillar(year), Master(raw))
        /\ profile.states = ElementStates(raw.pillars[2].branch)
        /\ profile.pillars = raw.pillars
        /\ profile.traits = Traits(raw.pillars)
    BY Finished DEF ProfileOf
  <2>5. Master(raw) \in Stems
    BY <2>1, PillarOfCycle DEF Master
  <2> HIDE DEF index, news, year
  <2>6. \A i \in DOMAIN profile.dayun : ColumnAgrees(profile.dayun[i].info, Master(raw))
    <3>1. CASE index >= Len(raw.luck)
      <4>1. profile.dayun = <<>>
        BY <2>3, <2>4, <3>1, WindowEntries
      <4> QED
        BY <4>1
    <3>2. CASE index < Len(raw.luck)
      <4>1. \E first \in Nat, n \in Nat :
              /\ first + n <= Len(raw.luck)
              /\ LuckWindow(index, news) = [k \in 1..n |-> LuckCycle(first + k - 1, index, news)]
        BY <2>3, <3>2, WindowEntries
      <4>2. PICK first \in Nat, n \in Nat :
              /\ first + n <= Len(raw.luck)
              /\ profile.dayun = [k \in 1..n |-> LuckCycle(first + k - 1, index, news)]
        BY <2>4, <4>1, Zenon
      <4> SUFFICES ASSUME NEW i \in 1..n
                   PROVE  ColumnAgrees(profile.dayun[i].info, Master(raw))
        BY <4>2
      <4>3. profile.dayun[i] = LuckCycle(first + i - 1, index, news)
        BY <4>2
      <4>4. profile.dayun[i].info = GzInfo(raw.luck[first + i - 1 + 1], Master(raw))
        BY <4>3 DEF LuckCycle
      <4>5. first + i - 1 + 1 \in 1..Len(raw.luck)
        BY <2>3, <4>2
      <4>6. raw.luck[first + i - 1 + 1] \in Cycle
        BY <2>3, <4>5
      <4> QED
        BY <2>5, <4>4, <4>6, ColumnOfPillar
    <3> QED
      BY <2>3, <3>1, <3>2
  <2>7. /\ ColumnAgrees(profile.liunian.info, Master(raw))
        /\ profile.liunian.info.pillar = Sexagenary((profile.liunian.year - 4) % 60)
    <3>1. AnnualPillar(year) = Sexagenary((year - 4) % 60) /\ AnnualPillar(year) \in Cycle
      BY <2>3, AnnualAgrees
    <3>2. profile.liunian.info.pillar = AnnualPillar(year)
      BY <2>4 DEF GzInfo
    <3> QED
      BY <2>4, <2>5, <3>1, <3>2, ColumnOfPillar
  <2>8. \A e \in Elements : profile.states[e] = StrengthIn(BranchElement(profile.pillars[2].branch), e)
    <3>1. raw.pillars[2].branch \in Branches
      BY <2>1, PillarOfCycle
    <3> QED
      BY <2>4, <3>1, StatesAgree
  <2>9. ASSUME NEW i \in 1..4, profile.pillars[i] # Masked
        PROVE  \E c \in Classes(profile.pillars[i]) : /\ Classes(profile.pillars[i]) = {c}
                                                      /\ <<{i}, c>> \in profile.traits
    <3> DEFINE p == raw.pillars[i]
               c == PillarTrait(p)
    <3>1. p \in Cycle
      BY <2>1, <2>2, <2>4, <2>9
    <3>2. Classes(p) = {c} /\ c # "none"
      BY <3>1, OneClass
    <3>3. <<{i}, c>> \in Traits(raw.pillars)
      BY <3>2 DEF Traits
    <3> QED
      BY <2>4, <3>2, <3>3
  <2> QED
    BY <2>6, <2>7, <2>8, <2>9 DEF TablesAgree
<1> QED
  BY <1>1, InvHolds, PTL
============================================================================
