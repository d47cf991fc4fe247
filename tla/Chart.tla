------------------------------- MODULE Chart -------------------------------
(***************************************************************************)
(* Making one chart: the birth time of create_destiny_profile, the true    *)
(* solar time of solar_time.rs, fetch_bazi_chart with its five requests,   *)
(* and map_bazi_data.  The services asked, the supplements each of which   *)
(* may fail on its own, are external: they return any chart of Charts and  *)
(* any relations.                                                          *)
(*                                                                         *)
(* Data abstraction.  A time is a day number and a minute; years have      *)
(* DaysPerYear days, of which the first SpringDay come before the start of *)
(* spring.  The eight fields per pillar that are copied from the raw chart *)
(* are one, which is either there or masked; the fields that depend on the *)
(* moment and belong to no pillar (palaces, lunar date, transition time)   *)
(* are one, the moment they were computed for.  A list of relations is the *)
(* set of its texts, and Label gives the part of a text before its first   *)
(* comma.  No relations and an empty Relations are one: neither is written *)
(* into the profile (models.rs:117-121).                                   *)
(***************************************************************************)
EXTENDS Pillars, FiniteSets

CONSTANTS
  DaysPerYear, SpringDay,
  BirthDays, BirthMinutes,
  Offsets,        \* true solar time minus clock time in minutes
  Todays,         \* the days on which charts are made
  Charts,         \* what getbasebz8 can answer
  StemTexts, BranchTexts,  \* the texts of getGZRelaction3,
  Blank,                   \* and the empty one
  Label,
  RelationLists,           \* the lists of lists it can answer with
  None

Masked == [stem |-> 10, branch |-> 12]   \* "*" for both
Hour   == 4                              \* HOUR_INDEX, counted from 1

Texts == StemTexts \cup BranchTexts \cup {Blank}

\* What a request for relations can return: nothing, or any number of lists.
Answers == {[got |-> FALSE, lists |-> <<>>]} \cup [got : {TRUE}, lists : RelationLists]

\* getbasebz8 answers with pillars of the cycle of sixty.
RawCharts == [pillars : [1..4 -> Cycle], details : [1..4 -> {"known"}],
              start : Nat, luck : Seq(Cycle)]

\* No place and no day of the year moves the sun by twelve hours.
ASSUME ChartAssumption ==
  /\ DaysPerYear \in Nat \ {0} /\ SpringDay \in Nat
  /\ BirthDays \subseteq Nat /\ Todays \subseteq Nat
  /\ BirthMinutes \subseteq 0..1439
  /\ Offsets \subseteq Int /\ \A o \in Offsets : -720 <= o /\ o < 720
  /\ Charts \subseteq RawCharts
  /\ RelationLists \subseteq Seq(SUBSET Texts)

VARIABLES
  pc,
  birth,    \* what the user gave, and the correction of the place and day
  solar,    \* solar_dt
  raw,      \* the raw chart, masked when the birth time is unknown
  asked,    \* the moment and the pillars the supplementary requests are made for
  clock,    \* what the two reads of the clock were taken for
  found,    \* what the requests for relations returned
  profile   \* the StructuredBazi

vars == <<pc, birth, solar, raw, asked, clock, found, profile>>

YearOf(day)       == day \div DaysPerYear
BeforeSpring(day) == day % DaysPerYear < SpringDay

Init == /\ pc = "resolve"
        /\ birth \in [day : BirthDays, minute : BirthMinutes, known : BOOLEAN, offset : Offsets]
        /\ solar = None /\ raw = None /\ asked = None
        /\ clock = None /\ found = None /\ profile = None

----------------------------------------------------------------------------

UnknownReference == 12 * 60   \* UNKNOWN_BIRTH_TIME_REFERENCE_HOUR

\* to_true_solar_time: longitude and equation of time shift the clock time.
TrueSolar(day, minute, shift) ==
  [day |-> day + (minute + shift) \div 1440, minute |-> (minute + shift) % 1440]

\* Mutant of ResolveBirth: an unknown time is taken for midnight.
ResolveFromMidnight ==
  /\ pc = "resolve"
  /\ solar' = TrueSolar(birth.day, IF birth.known THEN birth.minute ELSE 0, birth.offset)
  /\ pc' = "base"
  /\ UNCHANGED <<birth, raw, asked, clock, found, profile>>

\* resolve_birth_datetime
ResolveBirth ==
  /\ pc = "resolve"
  /\ solar' = TrueSolar(birth.day, IF birth.known THEN birth.minute ELSE UnknownReference,
                        birth.offset)
  /\ pc' = "base"
  /\ UNCHANGED <<birth, raw, asked, clock, found, profile>>

\* The answer of getbasebz8, which is asked for the solar time.
ChartAt(chart) ==
  [pillars |-> chart.pillars, details |-> chart.details, start |-> chart.start,
   luck    |-> chart.luck,    palaces |-> solar]

\* mask_hour_pillar_if_unknown: the fields per pillar, and no others.
MaskHour(chart) ==
  IF birth.known THEN chart
  ELSE [chart EXCEPT !.pillars[Hour] = Masked, !.details[Hour] = "masked"]

\* fetch_liunian
LunarYear(day) == IF BeforeSpring(day) THEN YearOf(day) - 1 ELSE YearOf(day)
AnnualPillar(year) == [stem |-> ((year % 10) + 6) % 10, branch |-> ((year % 12) + 8) % 12]

\* Mutant of LuckIndex: ages are counted from zero.
LuckIndexOffByOne(chart, year) ==
  LET past == year - YearOf(birth.day) - chart.start
  IN IF past < 0 THEN 0 ELSE past \div 10

\* current_luck_index
LuckIndex(chart, year) ==
  LET past == year - YearOf(birth.day) + 1 - chart.start
  IN IF past < 0 THEN 0 ELSE past \div 10

\* Mutant of FetchBase: the hour is masked only after the requests are built.
AskUnmasked ==
  /\ pc = "base"
  /\ \E chart \in Charts, today \in Todays : \E later \in {today, today + 1} :
       /\ raw' = MaskHour(ChartAt(chart))
       /\ asked' = [moment |-> solar, pillars |-> chart.pillars]
       /\ clock' = [annual |-> today, luck |-> later]
  /\ pc' = "supplement"
  /\ UNCHANGED <<birth, solar, found, profile>>

\* The base chart is masked, then both reads of the clock, a new day possibly
\* between them, and the strings for the other requests.
FetchBase ==
  /\ pc = "base"
  /\ \E chart \in Charts, today \in Todays : \E later \in {today, today + 1} :
       /\ raw' = MaskHour(ChartAt(chart))
       /\ asked' = [moment |-> solar, pillars |-> MaskHour(ChartAt(chart)).pillars]
       /\ clock' = [annual |-> today, luck |-> later]
  /\ pc' = "supplement"
  /\ UNCHANGED <<birth, solar, found, profile>>

\* Only the base chart is indispensable.
FetchBaseFails == /\ pc = "base"
                  /\ pc' = "failed"
                  /\ UNCHANGED <<birth, solar, raw, asked, clock, found, profile>>

----------------------------------------------------------------------------
(* Relations: lists of texts, of which the first is about stems and the    *)
(* second about branches *)

AllOf(answer) == UNION {answer.lists[i] : i \in DOMAIN answer.lists}

\* Mutant of NewRelations: only the first natal list is compared.
NewStemsOnly(answer, natal) ==
  LET old == IF natal.lists = <<>> THEN {} ELSE natal.lists[1]
      new == [i \in DOMAIN answer.lists |-> answer.lists[i] \ old]
  IN IF natal.got
       THEN [answer EXCEPT !.lists = [i \in {j \in DOMAIN new : new[j] # {}} |-> new[i]]]
       ELSE answer

\* filter_fn: a text that is in a natal list, whichever, is taken out, and a
\* list that is empty then as well.  What is left keeps its position here; the
\* code closes the gaps, which is why AtRank counts.
NewRelations(answer, natal) ==
  LET new == [i \in DOMAIN answer.lists |-> answer.lists[i] \ AllOf(natal)]
  IN IF natal.got
       THEN [answer EXCEPT !.lists = [i \in {j \in DOMAIN new : new[j] # {}} |-> new[i]]]
       ELSE answer

\* The list that has n others before it, if there is one.
AtRank(lists, n) ==
  UNION {lists[i] : i \in {j \in DOMAIN lists : Cardinality({k \in DOMAIN lists : k < j}) = n}}

\* clean_relations
Labels(texts) == {Label[t] : t \in texts \ {Blank}}

\* extract_relations: first() and get(1).
Extracted(answer) == [stems    |-> Labels(AtRank(answer.lists, 0)),
                      branches |-> Labels(AtRank(answer.lists, 1))]

NoRelations == [stems |-> {}, branches |-> {}]

----------------------------------------------------------------------------
(* map_bazi_data *)

Traits(pillars) ==
  LET single == {<<{i}, PillarTrait(pillars[i])>> : i \in 1..4}
      later  == {e \in (1..4) \X (1..4) : e[1] < e[2]}
      pairs  == {<<{e[1], e[2]}, PairTrait(pillars[e[1]], pillars[e[2]])>> : e \in later}
  IN {t \in single \cup pairs : t[2] # "none"}

Master(chart) == chart.pillars[3].stem

\* Entry i of the list of luck cycles, counted from 0.
LuckCycle(i, index, relations) ==
  LET start == YearOf(birth.day) + raw.start + i * 10 - 1
  IN [current  |-> i = index,
      start    |-> start,
      end      |-> start + 9,
      info     |-> GzInfo(raw.luck[i + 1], Master(raw)),
      relation |-> IF i = index THEN Extracted(relations) ELSE NoRelations]

\* The previous, the current and the next cycle, as far as there are such.
LuckWindow(index, relations) ==
  IF index >= Len(raw.luck) THEN <<>>
  ELSE LET first == IF index = 0 THEN 0 ELSE index - 1
           last  == IF index + 1 < Len(raw.luck) THEN index + 1 ELSE Len(raw.luck) - 1
       IN [k \in 1..(last - first + 1) |-> LuckCycle(first + k - 1, index, relations)]

ProfileOf(natal, luck, annual, yongshi) ==
  LET year  == LunarYear(clock.annual)
      index == LuckIndex(raw, YearOf(clock.luck))
  IN [date     |-> solar,
      pillars  |-> raw.pillars,
      details  |-> raw.details,
      palaces  |-> raw.palaces,
      yongshi  |-> yongshi,
      known    |-> birth.known,
      relation |-> Extracted(natal),
      states   |-> ElementStates(raw.pillars[2].branch),
      dayun    |-> LuckWindow(index, NewRelations(luck, natal)),
      liunian  |-> [year     |-> year,
                    info     |-> GzInfo(AnnualPillar(year), Master(raw)),
                    relation |-> Extracted(NewRelations(annual, natal))],
      traits   |-> Traits(raw.pillars)]

\* join! of the requests, the filter and the mapping.
Supplement ==
  /\ pc = "supplement"
  /\ \E natal, luck, annual \in Answers, yongshi \in {None, asked.moment} :
       /\ found' = [natal |-> natal, luck |-> luck, annual |-> annual, yongshi |-> yongshi]
       /\ profile' = ProfileOf(natal, luck, annual, yongshi)
  /\ pc' = "done"
  /\ UNCHANGED <<birth, solar, raw, asked, clock>>

Next == ResolveBirth \/ FetchBase \/ FetchBaseFails \/ Supplement

Spec == Init /\ [][Next]_vars

----------------------------------------------------------------------------

Done == pc = "done"

\* What a column of the profile says about a pillar is what the elements, the
\* cycle of sixty and the stages of life say.
ColumnAgrees(info, master) ==
  LET p == info.pillar
      Agrees(god, s) == /\ god.relation = RelationOf(StemElement(master), StemElement(s))
                        /\ god.same <=> master % 2 = s % 2
  IN /\ p \in Cycle
     /\ Agrees(info.god, p.stem)
     /\ \A i \in DOMAIN info.hidden : Agrees(info.hidden[i][2], info.hidden[i][1])
     /\ StemElement(info.hidden[1][1]) = BranchElement(p.branch)
     /\ info.empty = Branches \ Decade(p)
     /\ info.nayin = ElementOfNumber[NaYinNumber(p)]
     /\ (info.seat = 0) <=> (StarLuck(Partner(p.stem), p.branch) = 7)
     /\ (info.luck = 0) <=> (StarLuck(Partner(master), p.branch) = 7)

(* The arithmetic on indices and the tables written out by hand agree with *)
(* the element relations of common.rs, for every column of the profile:    *)
(* ten gods, hidden stems, empty branches, na yin, stages of life and the  *)
(* strength of the elements in the month (bazi_utils.rs:178-326).          *)
TablesAgree ==
  Done => /\ \A i \in DOMAIN profile.dayun :
               ColumnAgrees(profile.dayun[i].info, Master(raw))
          /\ ColumnAgrees(profile.liunian.info, Master(raw))
          /\ profile.liunian.info.pillar = Sexagenary((profile.liunian.year - 4) % 60)
          /\ \A e \in Elements : profile.states[e] =
               StrengthIn(BranchElement(profile.pillars[2].branch), e)
          /\ \A i \in 1..4 : profile.pillars[i] # Masked =>
               \E c \in Classes(profile.pillars[i]) :
                 /\ Classes(profile.pillars[i]) = {c}
                 /\ <<{i}, c>> \in profile.traits

(* The cycle marked as current is the only one marked, it covers the year  *)
(* of the chart unless no cycle has begun yet, and its neighbours join it  *)
(* without a gap (bazi_utils.rs:66-85, 128-132).                           *)
LuckCovers ==
  Done /\ LuckIndex(raw, YearOf(clock.luck)) < Len(raw.luck) =>
    LET dayun == profile.dayun
        year  == YearOf(clock.luck)
        first == YearOf(birth.day) + raw.start - 1
    IN /\ \E i \in DOMAIN dayun :
            /\ {j \in DOMAIN dayun : dayun[j].current} = {i}
            /\ IF year >= first THEN dayun[i].start <= year /\ year <= dayun[i].end
                                ELSE dayun[i].start = first
       /\ \A i \in DOMAIN dayun : i + 1 \in DOMAIN dayun =>
            dayun[i + 1].start = dayun[i].end + 1

(* A chart without a known birth time says so, and shows nothing of its    *)
(* hour pillar, neither in the pillars and their fields nor in traits, and *)
(* asks for no relations or stars of it (models.rs:224-260, client.rs:47). *)
(* What depends on the hour and is not masked, the solar date, the palaces *)
(* and the yongshi (bazi_utils.rs:97-104), is there for the reference      *)
(* noon, whatever time was meant (formatter.rs:13).                        *)
UnknownHourMasked ==
  Done /\ ~birth.known =>
    LET noon == TrueSolar(birth.day, UnknownReference, birth.offset)
    IN /\ ~profile.known
       /\ profile.pillars[Hour] = Masked /\ profile.details[Hour] = "masked"
       /\ asked.pillars[Hour] = Masked
       /\ \A t \in profile.traits : Hour \notin t[1]
       /\ profile.date = noon /\ profile.palaces = noon
       /\ profile.yongshi \in {None, noon}

(* A noon reference keeps an unknown time away from a date boundary        *)
(* (bazi_service.rs:66): wherever the birth took place, the day and the    *)
(* year of the chart are those of the birth date.                          *)
NoonKeepsTheDay == Done /\ ~birth.known => solar.day = birth.day

Reported(column) == column.stems \cup column.branches

\* Whole texts are compared, and only then cut: a text that shares its label
\* with a natal one and differs behind the comma is new.
OnlyNew(column, answer) ==
  LET new == Labels(AllOf(answer) \ AllOf(found.natal))
  IN /\ Reported(column) \subseteq new
     /\ Len(answer.lists) <= 2 => Reported(column) = new

(* The current cycle and the current year are shown with relations that    *)
(* they add to the natal chart, in full when the answer has a list per     *)
(* kind, and the other cycles with none (client.rs:76-91,                  *)
(* bazi_utils.rs:71, 137-144); those of a request that failed are neither  *)
(* missed in nor invented for another column.                              *)
RelationsAreNew ==
  Done => /\ \A i \in DOMAIN profile.dayun :
               IF profile.dayun[i].current
                 THEN OnlyNew(profile.dayun[i].relation, found.luck)
                 ELSE Reported(profile.dayun[i].relation) = {}
          /\ OnlyNew(profile.liunian.relation, found.annual)

ByKind(answer) == answer.lists # <<>> => answer.lists \in (SUBSET StemTexts) \X (SUBSET BranchTexts)

KindKept(column) == /\ column.stems \subseteq Labels(StemTexts)
                    /\ column.branches \subseteq Labels(BranchTexts)

(* The lists keep their meaning: when every answer has the relations of    *)
(* stems first and those of branches second, what the profile calls tian   *)
(* gan relations (models.rs:118) are relations of stems, and what it calls *)
(* di zhi relations are relations of branches.                             *)
RelationsKeepKind ==
  Done /\ ByKind(found.natal) /\ ByKind(found.luck) /\ ByKind(found.annual) =>
    /\ KindKept(profile.relation)
    /\ KindKept(profile.liunian.relation)
    /\ \A i \in DOMAIN profile.dayun : KindKept(profile.dayun[i].relation)
============================================================================
