--------------------------- MODULE DialogueProofs ---------------------------
(***************************************************************************)
(* Safety of Dialogue, for any number of users and messages, any dates,    *)
(* days and answers, and any expiry.                                       *)
(*                                                                         *)
(* What a chart or a range of days is made of is inductive as it stands.   *)
(* The bound on the wizards is not: a wizard must not come to outlive its  *)
(* context later, so it is as old as the context at least (InContext).     *)
(* That every handler passes Enter, which renews the context, keeps it so. *)
(***************************************************************************)
EXTENDS Dialogue, TLAPS

\* A wizard and the context of its user, in the two stages of the cleanup.
InContext(u, w) ==
  w # None => IF context[u] = None THEN sweeping /\ Oldest(w) ELSE w.idle >= context[u]

Wizards(u) ==
  /\ profile_wizards[u] # None => Together(profile_wizards[u])
  /\ pick_wizards[u] # None => InRange(pick_wizards[u])
  /\ InContext(u, profile_wizards[u])
  /\ InContext(u, pick_wizards[u])

Requested(u) == /\ pc[u] = "create" => Together(request[u])
                /\ pc[u] = "picking" => InRange(request[u])

IInv == TypeOK /\ \A u \in Users : Wizards(u) /\ Requested(u)

----------------------------------------------------------------------------
(* The clock                                                               *)

Cap == (Expiry + 1) * PerMinute

LEMMA Bounds ==
  /\ Cap \in Nat /\ Expiry * PerMinute \in Nat /\ Ticks = 0 .. Cap
  /\ Cap > Expiry * PerMinute
  /\ None \notin Ticks
<1>1. Expiry \in Nat /\ PerMinute \in Nat /\ PerMinute > 0
  BY DialogueAssumption
<1>2. Expiry * PerMinute \in Nat
  BY <1>1
<1>3. Cap = Expiry * PerMinute + PerMinute
  BY <1>1 DEF Cap
<1> QED
  BY <1>1, <1>2, <1>3, DialogueAssumption DEF Ticks, Cap

LEMMA LaterAge ==
  ASSUME NEW age \in Ticks
  PROVE  Later(age) = IF age = Cap THEN Cap ELSE age + 1
  BY Bounds DEF Later

LEMMA LaterNone == Later(None) = None
  BY DEF Later

(* The later of two ages stays it.                                         *)
LEMMA LaterInOrder ==
  ASSUME NEW a \in Ticks, NEW b \in Ticks, a <= b
  PROVE  Later(a) \in Ticks /\ Later(b) \in Ticks /\ Later(a) <= Later(b) /\ b <= Later(b)
<1>1. /\ Cap \in Nat /\ Ticks = 0 .. Cap
      /\ Later(a) = IF a = Cap THEN Cap ELSE a + 1
      /\ Later(b) = IF b = Cap THEN Cap ELSE b + 1
  BY LaterAge, Bounds
<1> QED
  BY <1>1

(* Cutting an age to minutes only finds those at the end of the clock.     *)
LEMMA WholeMinutes ==
  ASSUME NEW age \in Ticks, age \div PerMinute > Expiry
  PROVE  age = Cap
<1> DEFINE q == age \div PerMinute
<1>1. Expiry \in Nat /\ PerMinute \in Nat /\ PerMinute > 0 /\ age \in Nat
  BY DialogueAssumption, Bounds
<1>2. q \in Int /\ PerMinute * q <= age
  BY <1>1
<1>3. q >= Expiry + 1
  BY <1>1, <1>2
<1> HIDE DEF q
<1>4. PerMinute * q >= PerMinute * (Expiry + 1)
  BY <1>1, <1>2, <1>3
<1>5. PerMinute * (Expiry + 1) = Cap
  BY <1>1 DEF Cap
<1> QED
  BY <1>1, <1>2, <1>4, <1>5, Bounds

----------------------------------------------------------------------------
(* Messages                                                                *)

ChatOK == chat \in [Users -> [Slots -> Keyboards]]

LEMMA AllKeyboards ==
  /\ {WarningButtons, GenderButtons, YearButtons, MonthButtons, BirthButtons, HourButtons,
      LocationButtons, PickButtons, ActivityButtons, {}} \subseteq Keyboards
  /\ \A h \in Hours : MinuteButtons(h) \in Keyboards
  /\ \A do \in {"years", "year", "month"} : Page(do) \in Keyboards
<1>1. {WarningButtons, GenderButtons, YearButtons, MonthButtons, BirthButtons, HourButtons,
       LocationButtons, PickButtons, ActivityButtons, {}} \subseteq Keyboards
  BY DEF Keyboards
<1>2. \A h \in Hours : MinuteButtons(h) \in Keyboards
  BY DEF Keyboards
<1>3. /\ Page("years") = YearButtons
      /\ Page("year") = MonthButtons
      /\ Page("month") = BirthButtons
  BY DEF Page
<1> QED
  BY <1>1, <1>2, <1>3

LEMMA ShowTyped ==
  ASSUME TypeOK, NEW u \in Users, NEW s \in Slots, NEW buttons \in Keyboards,
         Show(u, s, buttons)
  PROVE  ChatOK'
<1>1. chat \in [Users -> [Slots -> Keyboards]]
  BY DEF TypeOK
<1>2. chat[u] \in [Slots -> Keyboards]
  BY <1>1
<1>3. [chat[u] EXCEPT ![s] = buttons] \in [Slots -> Keyboards]
  BY <1>2
<1>4. [chat EXCEPT ![u][s] = buttons] \in [Users -> [Slots -> Keyboards]]
  BY <1>1, <1>3
<1> QED
  BY <1>1, <1>4 DEF Show, ChatOK

LEMMA SayTyped ==
  ASSUME TypeOK, NEW u \in Users, NEW buttons \in Keyboards, Say(u, buttons)
  PROVE  ChatOK'
<1>1. CASE chat' = chat
  BY <1>1 DEF TypeOK, ChatOK
<1>2. ASSUME NEW s \in Slots, chat' = [chat EXCEPT ![u][s] = buttons] PROVE ChatOK'
  BY <1>2, ShowTyped DEF Show
<1> QED
  BY <1>1, <1>2 DEF Say

----------------------------------------------------------------------------
(* What a handler does to the state of its user, and leaves of the others'  *)

LEMMA EnterTyped ==
  ASSUME TypeOK, NEW u \in Users, NEW task \in {"free", "lookup", "pick", "other"},
         NEW s \in Slots \cup {None}, Enter(u, task, s)
  PROVE  /\ context' \in [Users -> Ticks \cup {None}]
         /\ pc' \in [Users -> {"free", "lookup", "create", "pick", "picking", "other"}]
         /\ at' \in [Users -> Slots \cup {None}]
         /\ pc'[u] = task /\ context'[u] = 0 /\ context'[u] # None
         /\ \A v \in Users \ {u} : pc'[v] = pc[v] /\ context'[v] = context[v]
  BY Bounds DEF TypeOK, Enter

(* A wizard that has just been looked at is in its renewed context.        *)
LEMMA RenewedContext ==
  ASSUME NEW u \in Users, NEW w \in ProfileState \cup PickState \cup {None},
         context'[u] = 0
  PROVE  w # None => w.idle >= context'[u]
  BY Bounds DEF ProfileState, PickState

LEMMA ProfileStep ==
  ASSUME IInv, NEW u \in Users, NEW task \in {"free", "lookup"}, NEW s \in Slots \cup {None},
         Enter(u, task, s), ChatOK', OnlyProfile,
         NEW w \in ProfileState \cup {None}, PutProfile(u, w), w # None => Together(w)
  PROVE  IInv'
<1>1. TypeOK /\ \A v \in Users : Wizards(v) /\ Requested(v)
  BY DEF IInv
<1>2. /\ profile_wizards' \in [Users -> ProfileState \cup {None}]
      /\ profile_wizards'[u] = w
      /\ \A v \in Users \ {u} : profile_wizards'[v] = profile_wizards[v]
      /\ pick_wizards' = pick_wizards /\ request' = request /\ sweeping' = sweeping
  BY <1>1 DEF TypeOK, PutProfile, OnlyProfile
<1>3. TypeOK'
  BY <1>1, <1>2, EnterTyped DEF TypeOK, ChatOK
<1>4. Wizards(u)' /\ Requested(u)'
  <2>1. pick_wizards[u] \in PickState \cup {None}
    BY <1>1 DEF TypeOK
  <2>2. \A x \in {w, pick_wizards[u]} : x # None => x.idle >= context'[u]
    BY <1>1, <2>1, EnterTyped, RenewedContext
  <2> QED
    BY <1>1, <1>2, <2>2, EnterTyped DEF Wizards, Requested, InContext
<1>5. ASSUME NEW v \in Users \ {u} PROVE Wizards(v)' /\ Requested(v)'
  BY <1>1, <1>2, EnterTyped DEF Wizards, Requested, InContext
<1> QED
  BY <1>3, <1>4, <1>5 DEF IInv

LEMMA PickStep ==
  ASSUME IInv, NEW u \in Users, NEW task \in {"free", "pick", "other"},
         NEW s \in Slots \cup {None}, Enter(u, task, s), ChatOK', OnlyPick,
         NEW w \in PickState \cup {None}, PutPick(u, w), w # None => InRange(w)
  PROVE  IInv'
<1>1. TypeOK /\ \A v \in Users : Wizards(v) /\ Requested(v)
  BY DEF IInv
<1>2. /\ pick_wizards' \in [Users -> PickState \cup {None}]
      /\ pick_wizards'[u] = w
      /\ \A v \in Users \ {u} : pick_wizards'[v] = pick_wizards[v]
      /\ profile_wizards' = profile_wizards /\ request' = request /\ sweeping' = sweeping
  BY <1>1 DEF TypeOK, PutPick, OnlyPick
<1>3. TypeOK'
  BY <1>1, <1>2, EnterTyped DEF TypeOK, ChatOK
<1>4. Wizards(u)' /\ Requested(u)'
  <2>1. profile_wizards[u] \in ProfileState \cup {None}
    BY <1>1 DEF TypeOK
  <2>2. \A x \in {w, profile_wizards[u]} : x # None => x.idle >= context'[u]
    BY <1>1, <2>1, EnterTyped, RenewedContext
  <2> QED
    BY <1>1, <1>2, <2>2, EnterTyped DEF Wizards, Requested, InContext
<1>5. ASSUME NEW v \in Users \ {u} PROVE Wizards(v)' /\ Requested(v)'
  BY <1>1, <1>2, EnterTyped DEF Wizards, Requested, InContext
<1> QED
  BY <1>3, <1>4, <1>5 DEF IInv

----------------------------------------------------------------------------
(* /new                                                                    *)

LEMMA NewProfileType == NewProfile \in ProfileState /\ Together(NewProfile)
  BY Bounds DEF NewProfile, ProfileState, Together

LEMMA ProfileEntryType ==
  ASSUME IInv, NEW u \in Users
  PROVE  ProfileEntry(u) \in ProfileState /\ Together(ProfileEntry(u))
  BY NewProfileType DEF IInv, TypeOK, Wizards, ProfileEntry

LEMMA TouchedProfile ==
  ASSUME IInv, NEW u \in Users
  PROVE  /\ Touched(profile_wizards[u]) \in ProfileState \cup {None}
         /\ Touched(profile_wizards[u]) # None => Together(Touched(profile_wizards[u]))
<1>1. CASE profile_wizards[u] = None
  BY <1>1 DEF Touched
<1>2. CASE profile_wizards[u] # None
  <2>1. profile_wizards[u] \in ProfileState /\ Together(profile_wizards[u])
    BY <1>2 DEF IInv, TypeOK, Wizards
  <2> QED
    BY <1>2, <2>1, Bounds DEF Touched, ProfileState, Together
<1> QED
  BY <1>1, <1>2

LEMMA FreshProfile ==
  ASSUME NEW w \in ProfileState, Together(w)
  PROVE  Fresh(w) \in ProfileState /\ Together(Fresh(w))
<1>1. /\ Fresh(w) \in ProfileState
      /\ Fresh(w).hour = w.hour /\ Fresh(w).minute = w.minute /\ Fresh(w).location = w.location
      /\ Fresh(w).birthdate = w.birthdate
  BY Bounds DEF Fresh, ProfileState
<1> QED
  BY <1>1 DEF Together

(* What is entered now is entered after the current date.                  *)
LEMMA NowType ==
  ASSUME IInv, NEW u \in Users, NEW S, NEW x \in S
  PROVE  /\ Now(u, x) \in Chosen(S)
         /\ Now(u, x).is = x /\ Now(u, x).after = ProfileEntry(u).birthdate
  BY ProfileEntryType DEF Now, Chosen, ProfileState

LEMMA SetTimeType ==
  ASSUME IInv, NEW u \in Users, NEW h \in Chosen(Hours) \cup {None},
         h # None => h.after = ProfileEntry(u).birthdate, NEW m \in Minute \cup {None},
         h # None /\ m # None => m.of = h.is
  PROVE  LET w == Fresh([ProfileEntry(u) EXCEPT !.hour = h, !.minute = m])
         IN  w \in ProfileState /\ Together(w)
<1> DEFINE p == ProfileEntry(u)
           w == [p EXCEPT !.hour = h, !.minute = m]
<1>1. p \in ProfileState /\ Together(p) /\ (h # None => h.after = p.birthdate)
  BY ProfileEntryType
<1> HIDE DEF p
<1>2. /\ w \in ProfileState
      /\ w.hour = h /\ w.minute = m /\ w.birthdate = p.birthdate /\ w.location = p.location
  BY <1>1 DEF ProfileState
<1>3. Together(w)
  BY <1>1, <1>2 DEF Together
<1> QED
  BY <1>2, <1>3, FreshProfile DEF p

(* A handler that puts such a profile and shows a keyboard.                *)
LEMMA ProfileAnswer ==
  ASSUME IInv, NEW u \in Users, NEW s \in Slots, Handle(u), OnlyProfile,
         NEW w \in ProfileState \cup {None}, PutProfile(u, w), w # None => Together(w),
         NEW buttons \in Keyboards, Show(u, s, buttons)
  PROVE  IInv'
<1>1. ChatOK'
  BY ShowTyped DEF IInv
<1> QED
  BY <1>1, ProfileStep DEF Handle

LEMMA AnalyzeStep ==
  ASSUME IInv, NEW u \in Users, Analyze(u)
  PROVE  IInv'
<1>1. TypeOK /\ \A v \in Users : Wizards(v) /\ Requested(v)
  BY DEF IInv
<1>2. at[u] \in Slots \cup {None} /\ chat \in [Users -> [Slots -> Keyboards]]
  BY <1>1 DEF TypeOK
<1>3. /\ profile_wizards' \in [Users -> ProfileState \cup {None}]
      /\ profile_wizards'[u] = None
      /\ \A v \in Users \ {u} : profile_wizards'[v] = profile_wizards[v]
      /\ pick_wizards' = pick_wizards /\ context' = context /\ sweeping' = sweeping
  BY <1>1 DEF TypeOK, Analyze, PutProfile
<1>4. ChatOK'
  <2>1. CASE at[u] \in Slots
    BY <1>1, <2>1, AllKeyboards, ShowTyped DEF Analyze
  <2>2. CASE at[u] \notin Slots
    <3>1. chat[u] \in [Slots -> Keyboards]
      BY <1>2
    <3>2. [chat[u] EXCEPT ![at[u]] = {}] = chat[u]
      BY <2>2, <3>1
    <3>3. [chat EXCEPT ![u][at[u]] = {}] = chat
      BY <1>2, <3>2
    <3> QED
      BY <1>2, <3>3 DEF Analyze, Show, ChatOK
  <2> QED
    BY <2>1, <2>2
<1>5. CASE Complete(profile_wizards[u])
  <2>1. profile_wizards[u] \in ProfileState /\ Together(profile_wizards[u])
    BY <1>1, <1>5 DEF Complete, TypeOK, Wizards
  <2>2. /\ pc' = [pc EXCEPT ![u] = "create"]
        /\ request' = [request EXCEPT ![u] = profile_wizards[u]] /\ at' = at
    BY <1>5 DEF Analyze
  <2>3. TypeOK'
    BY <1>1, <1>3, <1>4, <2>1, <2>2 DEF TypeOK, ChatOK
  <2>4. \A v \in Users : Wizards(v)' /\ Requested(v)'
    BY <1>1, <1>3, <2>1, <2>2 DEF TypeOK, Wizards, Requested, InContext
  <2> QED
    BY <2>3, <2>4 DEF IInv
<1>6. CASE ~Complete(profile_wizards[u])
  <2>1. Release(u)
    BY <1>6 DEF Analyze
  <2>2. TypeOK'
    BY <1>1, <1>3, <1>4, <2>1 DEF TypeOK, ChatOK, Release
  <2>3. \A v \in Users : Wizards(v)' /\ Requested(v)'
    BY <1>1, <1>3, <2>1 DEF TypeOK, Wizards, Requested, InContext, Release
  <2> QED
    BY <2>2, <2>3 DEF IInv
<1> QED
  BY <1>5, <1>6

LEMMA NewDialogueStep ==
  ASSUME IInv, NEW u \in Users, NewDialogue(u)
  PROVE  IInv'
<1> USE AllKeyboards
<1>1. CASE New(u)
  <2>1. profile_wizards[u] \in ProfileState \cup {None}
    BY DEF IInv, TypeOK
  <2>2. ChatOK'
    BY <1>1, SayTyped DEF New, IInv
  <2>3. PutProfile(u, profile_wizards[u]) /\ OnlyProfile
    BY <1>1 DEF New, PutProfile, IInv, TypeOK
  <2> QED
    BY <1>1, <2>1, <2>2, <2>3, ProfileStep DEF New, Handle, IInv, Wizards
<1>2. CASE Analyze(u)
  BY <1>2, AnalyzeStep
<1>3. ASSUME NEW s \in Slots, Continue(u, s) PROVE IInv'
  BY <1>3, NewProfileType, ProfileAnswer DEF Continue
<1>4. ASSUME NEW s \in Slots, CancelNew(u, s) PROVE IInv'
  BY <1>4, ProfileAnswer DEF CancelNew
<1>5. ASSUME NEW s \in Slots, BackToHour(u, s) PROVE IInv'
  BY <1>5, TouchedProfile, ProfileAnswer DEF BackToHour
<1>6. ASSUME NEW s \in Slots, SkipTime(u, s) PROVE IInv'
  BY <1>6, SetTimeType, ProfileAnswer DEF SkipTime, SetTime
<1>7. ASSUME NEW s \in Slots, NEW g \in Genders, SelectGender(u, s, g) PROVE IInv'
  <2> DEFINE p == ProfileEntry(u)
             w == [p EXCEPT !.gender = g]
  <2>1. p \in ProfileState /\ Together(p)
    BY ProfileEntryType
  <2>2. /\ w \in ProfileState
        /\ w.hour = p.hour /\ w.minute = p.minute
        /\ w.birthdate = p.birthdate /\ w.location = p.location
    BY <2>1 DEF ProfileState
  <2>3. Fresh(w) \in ProfileState /\ Together(Fresh(w))
    BY <2>1, <2>2, FreshProfile DEF Together
  <2> QED
    BY <1>7, <2>3, ProfileAnswer DEF SelectGender
<1>8. ASSUME NEW s \in Slots, NEW do \in {"years", "year", "month"}, Browse(u, s, do)
      PROVE  IInv'
  BY <1>8, TouchedProfile, ProfileAnswer DEF Browse
<1>9. ASSUME NEW s \in Slots, NEW d \in Dates, SelectDate(u, s, d) PROVE IInv'
  <2> DEFINE p == ProfileEntry(u)
             w == [p EXCEPT !.birthdate = d, !.hour = None, !.minute = None, !.location = None]
  <2>1. p \in ProfileState
    BY ProfileEntryType
  <2>2. w \in ProfileState /\ w.hour = None /\ w.location = None
    BY <2>1 DEF ProfileState
  <2>3. Fresh(w) \in ProfileState /\ Together(Fresh(w))
    BY <2>2, FreshProfile DEF Together
  <2> QED
    BY <1>9, <2>3, ProfileAnswer DEF SelectDate
<1>10. ASSUME NEW s \in Slots, NEW h \in Hours, SelectHour(u, s, h) PROVE IInv'
  <2>1. Now(u, h) \in Chosen(Hours) /\ Now(u, h).is = h /\ Now(u, h).after = ProfileEntry(u).birthdate
    BY NowType
  <2> QED
    BY <1>10, <2>1, SetTimeType, ProfileAnswer DEF SelectHour, SetTime
<1>11. ASSUME NEW s \in Slots, NEW h \in Hours, NEW m \in Minutes, SelectMinute(u, s, h, m)
       PROVE  IInv'
  <2>1. Now(u, h) \in Chosen(Hours) /\ Now(u, h).is = h /\ Now(u, h).after = ProfileEntry(u).birthdate
    BY NowType
  <2>2. [is |-> m, of |-> h] \in Minute /\ [is |-> m, of |-> h].of = h
    BY DEF Minute
  <2> QED
    BY <1>11, <2>1, <2>2, SetTimeType, ProfileAnswer DEF SelectMinute, SetTime
<1>12. ASSUME NEW s \in Slots, NEW l \in Cities \cup {None}, SelectLocation(u, s, l)
       PROVE  IInv'
  <2> DEFINE x == IF l = None THEN None ELSE Now(u, l)
             p == ProfileEntry(u)
             w == [p EXCEPT !.location = x]
  <2>1. /\ x \in Chosen(Cities) \cup {None} /\ (x # None => x.after = p.birthdate)
        /\ p \in ProfileState /\ Together(p)
    BY NowType, ProfileEntryType
  <2>2. PutProfile(u, Fresh(w))
    BY <1>12 DEF SelectLocation
  <2> HIDE DEF x, p
  <2>3. /\ w \in ProfileState
        /\ w.hour = p.hour /\ w.minute = p.minute /\ w.birthdate = p.birthdate /\ w.location = x
    BY <2>1 DEF ProfileState
  <2>4. Fresh(w) \in ProfileState /\ Together(Fresh(w))
    BY <2>1, <2>3, FreshProfile DEF Together
  <2>5. ChatOK'
    BY <1>12 DEF SelectLocation, IInv, TypeOK, ChatOK
  <2> HIDE DEF w
  <2> QED
    BY <1>12, <2>2, <2>4, <2>5, ProfileStep DEF SelectLocation
<1> QED
  BY <1>1, <1>2, <1>3, <1>4, <1>5, <1>6, <1>7, <1>8, <1>9, <1>10, <1>11, <1>12
     DEF NewDialogue

----------------------------------------------------------------------------
(* /pick                                                                   *)

LEMMA NewPickType == NewPick \in PickState /\ InRange(NewPick)
  BY Bounds DEF NewPick, PickState, InRange

LEMMA PickEntryType ==
  ASSUME IInv, NEW u \in Users
  PROVE  PickEntry(u) \in PickState /\ InRange(PickEntry(u))
  BY NewPickType DEF IInv, TypeOK, Wizards, PickEntry

LEMMA FreshPick ==
  ASSUME NEW w \in PickState, InRange(w)
  PROVE  /\ Fresh(w) \in PickState /\ InRange(Fresh(w))
         /\ Fresh(w).start_date = w.start_date /\ Fresh(w).end_date = w.end_date
<1>1. /\ Fresh(w) \in PickState
      /\ Fresh(w).start_date = w.start_date /\ Fresh(w).end_date = w.end_date
  BY Bounds DEF Fresh, PickState
<1> QED
  BY <1>1 DEF InRange

(* An answer other than a day leaves the range as it was.                  *)
LEMMA SameRange ==
  ASSUME NEW w \in PickState, InRange(w), NEW a \in Activities \cup {None}, NEW b \in BOOLEAN
  PROVE  LET x == [w EXCEPT !.activity = a, !.waiting_for_text = b]
         IN  Fresh(x) \in PickState /\ InRange(Fresh(x))
<1> DEFINE x == [w EXCEPT !.activity = a, !.waiting_for_text = b]
<1>1. x \in PickState /\ x.start_date = w.start_date /\ x.end_date = w.end_date
  BY DEF PickState
<1>2. InRange(x)
  BY <1>1 DEF InRange
<1> QED
  BY <1>1, <1>2, FreshPick

LEMMA SameRangeActivity ==
  ASSUME NEW w \in PickState, InRange(w), NEW a \in Activities
  PROVE  LET x == [w EXCEPT !.activity = a]
         IN  Fresh(x) \in PickState /\ InRange(Fresh(x))
<1>1. [w EXCEPT !.activity = a] = [w EXCEPT !.activity = a, !.waiting_for_text = w.waiting_for_text]
  BY DEF PickState
<1>2. w.waiting_for_text \in BOOLEAN
  BY DEF PickState
<1> QED
  BY <1>1, <1>2, SameRange

LEMMA SameRangeText ==
  ASSUME NEW w \in PickState, InRange(w)
  PROVE  LET x == [w EXCEPT !.waiting_for_text = TRUE]
         IN  Fresh(x) \in PickState /\ InRange(Fresh(x))
<1>1. [w EXCEPT !.waiting_for_text = TRUE] = [w EXCEPT !.activity = w.activity, !.waiting_for_text = TRUE]
  BY DEF PickState
<1>2. w.activity \in Activities \cup {None}
  BY DEF PickState
<1> QED
  BY <1>1, <1>2, SameRange

(* A day becomes the start while there is none, and then an end that fits. *)
LEMMA PickDayStep ==
  ASSUME IInv, NEW u \in Users, NEW s \in Slots, NEW d \in Days, PickDay(u, s, d)
  PROVE  IInv'
<1> DEFINE w == Fresh(PickEntry(u))
<1>1. w \in PickState /\ InRange(w)
  BY PickEntryType, FreshPick
<1>2. Enter(u, "free", None) /\ OnlyPick /\ None \in Slots \cup {None}
  BY DEF PickDay, Handle
<1>3. chat \in [Users -> [Slots -> Keyboards]] /\ TypeOK
  BY DEF IInv, TypeOK
<1>4. CASE w.start_date = None
  <2> DEFINE x == [w EXCEPT !.start_date = d]
  <2>1. PutPick(u, x) /\ chat' = chat
    BY <1>4 DEF PickDay
  <2> HIDE DEF w
  <2>2. x \in PickState /\ x.start_date = d /\ x.end_date = None
    BY <1>1, <1>4 DEF PickState, InRange
  <2>3. InRange(x)
    BY <2>2 DEF InRange
  <2> HIDE DEF x
  <2> QED
    BY <1>2, <1>3, <2>1, <2>2, <2>3, PickStep DEF ChatOK
<1>5. CASE w.start_date # None /\ d - w.start_date \in 0..MaxDays
  <2> DEFINE x == [w EXCEPT !.end_date = d]
  <2>1. PutPick(u, x) /\ Show(u, s, ActivityButtons)
    BY <1>5 DEF PickDay
  <2>2. ChatOK'
    BY <1>3, <2>1, AllKeyboards, ShowTyped
  <2> HIDE DEF w
  <2>3. x \in PickState /\ x.start_date = w.start_date /\ x.end_date = d
    BY <1>1 DEF PickState
  <2>4. InRange(x)
    BY <1>5, <2>3 DEF InRange
  <2> HIDE DEF x
  <2> QED
    BY <1>2, <2>1, <2>2, <2>3, <2>4, PickStep
<1>6. CASE w.start_date # None /\ d - w.start_date \notin 0..MaxDays
  <2>1. PutPick(u, w) /\ chat' = chat
    BY <1>6 DEF PickDay
  <2> HIDE DEF w
  <2> QED
    BY <1>1, <1>2, <1>3, <2>1, PickStep DEF ChatOK
<1> QED
  BY <1>4, <1>5, <1>6

LEMMA TakePickStep ==
  ASSUME IInv, NEW u \in Users, TakePick(u)
  PROVE  IInv'
<1> DEFINE w == pick_wizards[u]
           full == /\ w # None /\ w.start_date # None /\ w.end_date # None
                   /\ w.activity # None
<1>1. TypeOK /\ \A v \in Users : Wizards(v) /\ Requested(v)
  BY DEF IInv
<1>2. at[u] \in Slots \cup {None} /\ chat \in [Users -> [Slots -> Keyboards]]
  BY <1>1 DEF TypeOK
<1>3. /\ pick_wizards' \in [Users -> PickState \cup {None}]
      /\ pick_wizards'[u] = None
      /\ \A v \in Users \ {u} : pick_wizards'[v] = pick_wizards[v]
      /\ profile_wizards' = profile_wizards /\ context' = context /\ sweeping' = sweeping
  BY <1>1 DEF TypeOK, TakePick, PutPick
<1>4. CASE full
  <2>1. /\ pc' = [pc EXCEPT ![u] = "picking"]
        /\ request' = [request EXCEPT ![u] = w] /\ at' = at
        /\ IF at[u] = None THEN UNCHANGED chat ELSE Show(u, at[u], {})
    BY <1>4 DEF TakePick
  <2>2. ChatOK'
    <3>1. CASE at[u] = None
      BY <1>2, <2>1, <3>1 DEF ChatOK
    <3>2. CASE at[u] # None
      <4>1. at[u] \in Slots /\ Show(u, at[u], {})
        BY <1>2, <2>1, <3>2
      <4> QED
        BY <1>1, <4>1, AllKeyboards, ShowTyped
    <3> QED
      BY <3>1, <3>2
  <2>3. w \in PickState /\ InRange(w)
    BY <1>1, <1>4 DEF TypeOK, Wizards
  <2>4. TypeOK'
    BY <1>1, <1>3, <2>1, <2>2, <2>3 DEF TypeOK, ChatOK
  <2>5. \A v \in Users : Wizards(v)' /\ Requested(v)'
    BY <1>1, <1>3, <2>1, <2>3 DEF TypeOK, Wizards, Requested, InContext
  <2> QED
    BY <2>4, <2>5 DEF IInv
<1>5. CASE ~full
  <2>1. Release(u) /\ chat' = chat
    BY <1>5 DEF TakePick
  <2>2. TypeOK'
    BY <1>1, <1>2, <1>3, <2>1 DEF TypeOK, Release
  <2>3. \A v \in Users : Wizards(v)' /\ Requested(v)'
    BY <1>1, <1>3, <2>1 DEF TypeOK, Wizards, Requested, InContext, Release
  <2> QED
    BY <2>2, <2>3 DEF IInv
<1> QED
  BY <1>4, <1>5

LEMMA PickDialogueStep ==
  ASSUME IInv, NEW u \in Users, PickDialogue(u)
  PROVE  IInv'
<1>1. pick_wizards[u] \in PickState \cup {None} /\ TypeOK
  BY DEF IInv, TypeOK
<1>2. pick_wizards[u] # None => InRange(pick_wizards[u])
  BY DEF IInv, Wizards
<1>3. chat' = chat => ChatOK'
  BY <1>1 DEF TypeOK, ChatOK
<1>4. CASE PickCommand(u)
  <2>1. ChatOK'
    BY <1>1, <1>4, AllKeyboards, SayTyped DEF PickCommand
  <2> QED
    BY <1>4, <2>1, NewPickType, PickStep DEF PickCommand, Handle
<1>5. CASE TakePick(u)
  BY <1>5, TakePickStep
<1>6. ASSUME NEW a \in Activities, TypeActivity(u, a) PROVE IInv'
  <2> DEFINE x == Fresh([pick_wizards[u] EXCEPT !.activity = a, !.waiting_for_text = FALSE])
  <2>1. PutPick(u, x) /\ Enter(u, "pick", None) /\ OnlyPick /\ ChatOK' /\ pick_wizards[u] # None
    BY <1>3, <1>6 DEF TypeActivity
  <2>2. x \in PickState /\ InRange(x)
    BY <1>1, <1>2, <2>1, SameRange
  <2> HIDE DEF x
  <2> QED
    BY <2>1, <2>2, PickStep
<1>7. ASSUME NEW s \in Slots, Turn(u, s) PROVE IInv'
  <2> DEFINE x == Touched(pick_wizards[u])
  <2>1. PutPick(u, x) /\ Enter(u, "free", None) /\ OnlyPick /\ ChatOK'
    BY <1>3, <1>7 DEF Turn, Handle
  <2>2. x \in PickState \cup {None} /\ (x # None => InRange(x))
    BY <1>1, <1>2, FreshPick DEF Touched, Fresh
  <2> HIDE DEF x
  <2> QED
    BY <2>1, <2>2, PickStep
<1>8. ASSUME NEW s \in Slots, Other(u, s) PROVE IInv'
  <2> DEFINE x == Fresh([PickEntry(u) EXCEPT !.waiting_for_text = TRUE])
  <2>1. PutPick(u, x) /\ Enter(u, "free", None) /\ OnlyPick
    BY <1>8 DEF Other, Handle
  <2>2. x \in PickState /\ InRange(x)
    BY PickEntryType, SameRangeText
  <2>3. ChatOK'
    BY <1>1, <1>8, AllKeyboards, ShowTyped DEF Other
  <2> HIDE DEF x
  <2> QED
    BY <2>1, <2>2, <2>3, PickStep
<1>9. ASSUME NEW s \in Slots, NEW d \in Days, PickDay(u, s, d) PROVE IInv'
  BY <1>9, PickDayStep
<1>10. ASSUME NEW s \in Slots, NEW a \in Activities, SelectActivity(u, s, a) PROVE IInv'
  <2> DEFINE x == Fresh([PickEntry(u) EXCEPT !.activity = a])
  <2>1. PutPick(u, x) /\ Enter(u, "pick", s) /\ OnlyPick /\ ChatOK'
    BY <1>3, <1>10 DEF SelectActivity
  <2>2. x \in PickState /\ InRange(x)
    BY PickEntryType, SameRangeActivity
  <2> HIDE DEF x
  <2> QED
    BY <2>1, <2>2, PickStep
<1> QED
  BY <1>4, <1>5, <1>6, <1>7, <1>8, <1>9, <1>10 DEF PickDialogue

----------------------------------------------------------------------------
(* The rest of the system                                                  *)

LEMMA OtherWorkStep ==
  ASSUME IInv, NEW u \in Users, OtherWork(u)
  PROVE  IInv'
<1>1. pick_wizards[u] \in PickState \cup {None} /\ TypeOK
  BY DEF IInv, TypeOK
<1>2. pick_wizards[u] # None => InRange(pick_wizards[u])
  BY DEF IInv, Wizards
<1>3. PutPick(u, pick_wizards[u]) /\ OnlyPick /\ Enter(u, "other", None) /\ ChatOK'
  BY <1>1 DEF OtherWork, PutPick, OnlyPick, TypeOK, ChatOK
<1> QED
  BY <1>1, <1>2, <1>3, PickStep

LEMMA FinishStep ==
  ASSUME IInv, NEW u \in Users, Finish(u)
  PROVE  IInv'
<1>1. TypeOK /\ \A v \in Users : Wizards(v) /\ Requested(v)
  BY DEF IInv
<1>2. TypeOK'
  BY <1>1 DEF TypeOK, Finish, Release
<1>3. \A v \in Users : Wizards(v)' /\ Requested(v)'
  BY <1>1 DEF TypeOK, Wizards, Requested, InContext, Finish, Release
<1> QED
  BY <1>2, <1>3 DEF IInv

(* Ageing keeps a wizard's answers and its place behind the context.       *)
LEMMA LaterProfile ==
  ASSUME NEW w \in ProfileState
  PROVE  /\ LaterWizard(w) \in ProfileState \cup {None}
         /\ LaterWizard(w) # None =>
              /\ LaterWizard(w).idle = Later(w.idle)
              /\ Together(w) => Together(LaterWizard(w))
<1>1. CASE w = None
  BY <1>1 DEF LaterWizard
<1>2. CASE w # None
  <2>1. w.idle \in Ticks /\ Later(w.idle) \in Ticks
    BY LaterInOrder, Bounds DEF ProfileState
  <2>2. LaterWizard(w) = [w EXCEPT !.idle = Later(w.idle)]
    BY <1>2 DEF LaterWizard
  <2>3. /\ LaterWizard(w) \in ProfileState
        /\ LaterWizard(w).idle = Later(w.idle)
        /\ LaterWizard(w).hour = w.hour /\ LaterWizard(w).minute = w.minute
        /\ LaterWizard(w).location = w.location /\ LaterWizard(w).birthdate = w.birthdate
    BY <2>1, <2>2 DEF ProfileState
  <2> QED
    BY <2>3 DEF Together
<1> QED
  BY <1>1, <1>2

LEMMA LaterPick ==
  ASSUME NEW w \in PickState
  PROVE  /\ LaterWizard(w) \in PickState \cup {None}
         /\ LaterWizard(w) # None =>
              /\ LaterWizard(w).idle = Later(w.idle)
              /\ InRange(w) => InRange(LaterWizard(w))
<1>1. CASE w = None
  BY <1>1 DEF LaterWizard
<1>2. CASE w # None
  <2>1. w.idle \in Ticks /\ Later(w.idle) \in Ticks
    BY LaterInOrder, Bounds DEF PickState
  <2>2. LaterWizard(w) = [w EXCEPT !.idle = Later(w.idle)]
    BY <1>2 DEF LaterWizard
  <2>3. /\ LaterWizard(w) \in PickState
        /\ LaterWizard(w).idle = Later(w.idle)
        /\ LaterWizard(w).start_date = w.start_date /\ LaterWizard(w).end_date = w.end_date
    BY <2>1, <2>2 DEF PickState
  <2> QED
    BY <2>3 DEF InRange
<1> QED
  BY <1>1, <1>2

(* A tick takes neither a wizard nor a context and keeps their order.      *)
LEMMA LaterInContext ==
  ASSUME Tick, NEW u \in Users, context[u] \in Ticks \cup {None},
         NEW idle \in Ticks,
         IF context[u] = None THEN sweeping /\ idle > Expiry * PerMinute
                              ELSE idle >= context[u]
  PROVE  IF context'[u] = None THEN sweeping' /\ Later(idle) > Expiry * PerMinute
                               ELSE Later(idle) >= context'[u]
<1>1. context'[u] = Later(context[u]) /\ sweeping' = sweeping
  BY DEF Tick
<1>2. CASE context[u] = None
  <2>1. context'[u] = None
    BY <1>1, <1>2, LaterNone
  <2>2. Later(idle) >= idle /\ Later(idle) \in Ticks
    BY LaterInOrder, Bounds
  <2> QED
    BY <1>1, <1>2, <2>1, <2>2, Bounds
<1>3. CASE context[u] # None
  <2>1. context[u] \in Ticks /\ idle >= context[u]
    BY <1>3
  <2>2. Later(context[u]) <= Later(idle) /\ Later(context[u]) \in Ticks /\ Later(idle) \in Ticks
    BY <2>1, LaterInOrder, Bounds
  <2> QED
    BY <1>1, <2>2, Bounds
<1> QED
  BY <1>2, <1>3

LEMMA TickStep ==
  ASSUME IInv, Tick
  PROVE  IInv'
<1>1. TypeOK /\ \A u \in Users : Wizards(u) /\ Requested(u)
  BY DEF IInv
<1>2. /\ \A u \in Users : /\ profile_wizards'[u] = LaterWizard(profile_wizards[u])
                          /\ pick_wizards'[u] = LaterWizard(pick_wizards[u])
                          /\ context'[u] = Later(context[u])
      /\ UNCHANGED <<chat, pc, at, request, sweeping>>
  BY DEF Tick
<1>3. LaterWizard(None) = None
  BY DEF LaterWizard
<1>4. ASSUME NEW u \in Users
      PROVE  /\ profile_wizards'[u] \in ProfileState \cup {None}
             /\ pick_wizards'[u] \in PickState \cup {None}
             /\ context'[u] \in Ticks \cup {None}
             /\ Wizards(u)' /\ Requested(u)'
  <2>1. /\ profile_wizards[u] \in ProfileState \cup {None}
        /\ pick_wizards[u] \in PickState \cup {None}
        /\ context[u] \in Ticks \cup {None}
    BY <1>1 DEF TypeOK
  <2>2. Wizards(u) /\ Requested(u)
    BY <1>1
  <2>3. context'[u] \in Ticks \cup {None}
    BY <1>2, <2>1, LaterNone, LaterInOrder, Bounds
  <2>4. /\ profile_wizards'[u] \in ProfileState \cup {None}
        /\ profile_wizards'[u] # None => Together(profile_wizards'[u])
        /\ InContext(u, profile_wizards[u])'
    <3>1. CASE profile_wizards[u] = None
      BY <1>2, <1>3, <3>1 DEF InContext
    <3>2. CASE profile_wizards[u] # None
      <4> DEFINE w == profile_wizards[u]
      <4>1. /\ w \in ProfileState /\ Together(w)
            /\ IF context[u] = None THEN sweeping /\ w.idle > Expiry * PerMinute
                                    ELSE w.idle >= context[u]
        BY <2>1, <2>2, <3>2 DEF Wizards, InContext, Oldest
      <4>2. w.idle \in Ticks
        BY <4>1 DEF ProfileState
      <4>3. IF context'[u] = None THEN sweeping' /\ Later(w.idle) > Expiry * PerMinute
                                  ELSE Later(w.idle) >= context'[u]
        BY <2>1, <4>1, <4>2, LaterInContext
      <4> QED
        BY <1>2, <4>1, <4>3, LaterProfile DEF InContext, Oldest
    <3> QED
      BY <3>1, <3>2
  <2>5. /\ pick_wizards'[u] \in PickState \cup {None}
        /\ pick_wizards'[u] # None => InRange(pick_wizards'[u])
        /\ InContext(u, pick_wizards[u])'
    <3>1. CASE pick_wizards[u] = None
      BY <1>2, <1>3, <3>1 DEF InContext
    <3>2. CASE pick_wizards[u] # None
      <4> DEFINE w == pick_wizards[u]
      <4>1. /\ w \in PickState /\ InRange(w)
            /\ IF context[u] = None THEN sweeping /\ w.idle > Expiry * PerMinute
                                    ELSE w.idle >= context[u]
        BY <2>1, <2>2, <3>2 DEF Wizards, InContext, Oldest
      <4>2. w.idle \in Ticks
        BY <4>1 DEF PickState
      <4>3. IF context'[u] = None THEN sweeping' /\ Later(w.idle) > Expiry * PerMinute
                                  ELSE Later(w.idle) >= context'[u]
        BY <2>1, <4>1, <4>2, LaterInContext
      <4> QED
        BY <1>2, <4>1, <4>3, LaterPick DEF InContext, Oldest
    <3> QED
      BY <3>1, <3>2
  <2>6. Requested(u)'
    BY <1>2, <2>2 DEF Requested
  <2> QED
    BY <2>1, <2>3, <2>4, <2>5, <2>6 DEF Wizards
<1>5. TypeOK'
  BY <1>1, <1>2, <1>4 DEF TypeOK, Tick
<1> QED
  BY <1>4, <1>5 DEF IInv

LEMMA SweepContextsStep ==
  ASSUME IInv, SweepContexts
  PROVE  IInv'
<1>1. TypeOK /\ \A u \in Users : Wizards(u) /\ Requested(u)
  BY DEF IInv
<1>2. /\ \A u \in Users : \/ context'[u] = context[u]
                          \/ /\ context'[u] = None /\ context[u] # None
                             /\ context[u] \div PerMinute > Expiry
      /\ ~sweeping /\ sweeping'
      /\ UNCHANGED <<chat, profile_wizards, pick_wizards, pc, at, request>>
  BY DEF SweepContexts
<1>3. TypeOK'
  BY <1>1 DEF TypeOK, SweepContexts
<1>4. ASSUME NEW u \in Users PROVE InContext(u, profile_wizards[u])' /\ InContext(u, pick_wizards[u])'
  <2>1. /\ InContext(u, profile_wizards[u]) /\ InContext(u, pick_wizards[u])
        /\ context[u] \in Ticks \cup {None}
        /\ profile_wizards[u] \in ProfileState \cup {None}
        /\ pick_wizards[u] \in PickState \cup {None}
    BY <1>1 DEF Wizards, TypeOK
  <2>2. CASE context'[u] = context[u]
    BY <1>2, <2>1, <2>2 DEF InContext
  <2>3. CASE context'[u] # context[u]
    <3>1. context[u] = Cap /\ context[u] # None /\ context'[u] = None
      BY <1>2, <2>1, <2>3, WholeMinutes
    <3>2. ASSUME NEW w, w # None => w.idle >= Cap /\ w.idle \in Ticks
          PROVE  Oldest(w)
      BY <3>2, Bounds DEF Oldest
    <3>3. Oldest(profile_wizards[u]) /\ Oldest(pick_wizards[u])
      BY <2>1, <3>1, <3>2 DEF InContext, ProfileState, PickState
    <3> QED
      BY <1>2, <3>1, <3>3 DEF InContext, Oldest
  <2> QED
    BY <2>2, <2>3
<1>5. \A u \in Users : Wizards(u)' /\ Requested(u)'
  BY <1>1, <1>2, <1>4 DEF Wizards, Requested
<1> QED
  BY <1>3, <1>5 DEF IInv

(* What the cleanup leaves is not the oldest, and so has a context.        *)
LEMMA SweepWizardsStep ==
  ASSUME IInv, SweepWizards
  PROVE  IInv'
<1>1. TypeOK /\ \A u \in Users : Wizards(u) /\ Requested(u)
  BY DEF IInv
<1>2. /\ \A u \in Users : /\ profile_wizards'[u] = Kept(profile_wizards[u])
                          /\ pick_wizards'[u] = Kept(pick_wizards[u])
      /\ UNCHANGED <<chat, context, pc, at, request>>
  BY DEF SweepWizards
<1>3. \A w : Kept(w) \in {w, None} /\ (Kept(w) # None => ~(w.idle > Expiry * PerMinute) /\ Kept(w) = w)
  BY DEF Kept
<1>4. TypeOK'
  BY <1>1, <1>2, <1>3 DEF TypeOK, SweepWizards
<1>5. ASSUME NEW u \in Users PROVE Wizards(u)' /\ Requested(u)'
  <2>1. Wizards(u) /\ Requested(u)
    BY <1>1
  <2> QED
    BY <1>2, <1>3, <2>1 DEF Wizards, Requested, InContext, Oldest
<1> QED
  BY <1>4, <1>5 DEF IInv

LEMMA RestartStep ==
  ASSUME IInv, Restart
  PROVE  IInv'
<1>1. TypeOK'
  BY DEF IInv, TypeOK, Restart
<1>2. \A u \in Users : Wizards(u)' /\ Requested(u)'
  BY DEF Restart, Wizards, Requested, InContext
<1> QED
  BY <1>1, <1>2 DEF IInv

----------------------------------------------------------------------------

LEMMA InitIInv == Init => IInv
<1> SUFFICES ASSUME Init PROVE IInv
  OBVIOUS
<1>1. TypeOK
  BY AllKeyboards DEF Init, TypeOK
<1>2. \A u \in Users : Wizards(u) /\ Requested(u)
  BY DEF Init, Wizards, Requested, InContext
<1> QED
  BY <1>1, <1>2 DEF IInv

LEMMA NextIInv == IInv /\ [Next]_vars => IInv'
<1> SUFFICES ASSUME IInv, [Next]_vars PROVE IInv'
  OBVIOUS
<1>1. CASE UNCHANGED vars
  BY <1>1 DEF vars, IInv, TypeOK, Wizards, Requested, InContext
<1>2. ASSUME NEW u \in Users, NewDialogue(u) \/ PickDialogue(u) \/ OtherWork(u) \/ Finish(u)
      PROVE  IInv'
  BY <1>2, NewDialogueStep, PickDialogueStep, OtherWorkStep, FinishStep
<1>3. CASE Tick \/ SweepContexts \/ SweepWizards \/ Restart
  BY <1>3, TickStep, SweepContextsStep, SweepWizardsStep, RestartStep
<1> QED
  BY <1>1, <1>2, <1>3 DEF Next

THEOREM Invariance == Spec => []IInv
  BY InitIInv, NextIInv, PTL DEF Spec

(* Messages keep their keyboards, and wizards and clocks their types: the  *)
(* bot shows no buttons that no handler knows.                             *)
THEOREM TypeCorrect == Spec => []TypeOK
<1>1. IInv => TypeOK
  BY DEF IInv
<1> QED
  BY <1>1, Invariance, PTL

(* Whatever old messages are pressed, in whatever order and with whatever  *)
(* edits failing, a chart's hour and minute come from one button, and they *)
(* and its city were entered after its birth date.                         *)
THEOREM AnswersAreTogether == Spec => []AnswersTogether
<1>1. IInv => AnswersTogether
  BY DEF IInv, Wizards, Requested, AnswersTogether
<1> QED
  BY <1>1, Invariance, PTL

(* No sequence of presses of days, on any calendars, makes a range that is *)
(* reversed or longer than MaxDays.                                        *)
THEOREM RangesAreBounded == Spec => []RangeBounded
<1>1. IInv => RangeBounded
  BY DEF IInv, Wizards, Requested, RangeBounded
<1> QED
  BY <1>1, Invariance, PTL

(* A wizard outlives its user's context only between the two halves of one *)
(* cleanup, so the ceiling on contexts is one on wizards.                  *)
THEOREM WizardsHaveContexts == Spec => []WizardsWithinContexts
<1>1. IInv => WizardsWithinContexts
  BY DEF IInv, Wizards, InContext, WizardsWithinContexts, Oldest
<1> QED
  BY <1>1, Invariance, PTL
=============================================================================
