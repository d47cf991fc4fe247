------------------------------ MODULE Dialogue ------------------------------
(***************************************************************************)
(* The dialogues of the bot: entering a birth date (/new) and choosing a   *)
(* range of days and an activity (/pick).  What has been entered so far is *)
(* kept in AppState.profile_wizards and pick_wizards, one entry per user,  *)
(* while the buttons are on messages in the chat.  The two part company:   *)
(* a user has several messages with buttons, an edit of a message may fail *)
(* (its result is ignored), entries expire and do not survive a restart;   *)
(* buttons stay.  Every handler runs in the user's lane (Admission.tla), so*)
(* a press or a text that finds the lane taken changes nothing; a press    *)
(* that ends a dialogue leaves the lane to the task it spawns.             *)
(*                                                                         *)
(* A message is its set of buttons, a button its decoded callback data;    *)
(* its text is left out.  In particular an hour is an hour: its button     *)
(* does not say which birth date the text above it names, and the handler  *)
(* puts it to whatever date the user's entry holds.                        *)
(* Birth dates, hours, minutes, cities and activities are opaque; the days *)
(* of /pick are numbers.  Time passes in ticks, PerMinute to the minute,   *)
(* for the clock of the contexts and that of the wizards alike.  A handler *)
(* cut off in an edit is one whose edit fails.  The other commands change  *)
(* no dialogue and are OtherWork.                                          *)
(***************************************************************************)
EXTENDS Integers

CONSTANTS
  Users, Genders, Dates, Hours, Minutes, Cities, Activities,
  Days,          \* days offered by the calendar of /pick
  MaxDays,       \* longest range; 14 in the code
  Slots,         \* bound: messages with buttons per user
  Expiry,        \* USER_CONTEXTS_EXPIRATION_MINUTES
  PerMinute,     \* ticks
  None

ASSUME DialogueAssumption ==
  /\ Days \subseteq Int
  /\ MaxDays \in Nat
  /\ Expiry \in Nat \ {0}
  /\ PerMinute \in Nat \ {0}
  /\ None \notin Genders \cup Dates \cup Hours \cup Minutes \cup Cities \cup Activities
  /\ None \notin Int \cup Slots

VARIABLES
  chat,              \* the buttons on each of the user's messages
  profile_wizards, pick_wizards,
  context,           \* ticks since UserContext.last_active; None without a context
  pc,                \* what holds the user's lane
  at,                \* the message it will edit
  request,           \* what is being calculated
  sweeping           \* the cleanup job has done the contexts, not yet the wizards
vars == <<chat, profile_wizards, pick_wizards, context, pc, at, request, sweeping>>

Ticks == 0 .. (Expiry + 1) * PerMinute    \* a tick later is the same as this

\* An hour or a city with the birth date that had been entered before it, and
\* a minute with the hour of its button: history, which no handler looks at.
Chosen(S) == [is : S, after : Dates \cup {None}]
Minute    == [is : Minutes, of : Hours]

ProfileState == [gender : Genders \cup {None}, birthdate : Dates \cup {None},
                 hour : Chosen(Hours) \cup {None}, minute : Minute \cup {None},
                 location : Chosen(Cities) \cup {None}, idle : Ticks]
PickState == [start_date : Days \cup {None}, end_date : Days \cup {None},
              activity : Activities \cup {None}, waiting_for_text : BOOLEAN, idle : Ticks]

NewProfile == [gender |-> None, birthdate |-> None, hour |-> None, minute |-> None,
               location |-> None, idle |-> 0]
NewPick == [start_date |-> None, end_date |-> None, activity |-> None,
            waiting_for_text |-> FALSE, idle |-> 0]

----------------------------------------------------------------------------
(* Keyboards                                                               *)

Button(do, with) == [do |-> do, with |-> with]

WarningButtons  == {Button("continue", None), Button("cancel", None)}
GenderButtons   == {Button("gender", g) : g \in Genders}
YearButtons     == {Button("year", None), Button("years", None)}
MonthButtons    == {Button("month", None), Button("years", None)}
BirthButtons    == {Button("birthdate", d) : d \in Dates}
                     \cup {Button("month", None), Button("year", None)}
HourButtons     == {Button("hour", h) : h \in Hours} \cup {Button("skip time", None)}
MinuteButtons(h) == {Button("minute", <<h, m>>) : m \in Minutes} \cup {Button("back", None)}
LocationButtons == {Button("location", l) : l \in Cities \cup {None}}
PickButtons     == {Button("day", d) : d \in Days} \cup {Button("turn", None)}
ActivityButtons == {Button("activity", a) : a \in Activities} \cup {Button("other", None)}

Keyboards == {{}, WarningButtons, GenderButtons, YearButtons, MonthButtons, BirthButtons,
              HourButtons, LocationButtons, PickButtons, ActivityButtons}
               \cup {MinuteButtons(h) : h \in Hours}

\* What the pages of the birth date calendar turn to.
Page(do) == CASE do = "years" -> YearButtons
              [] do = "year"  -> MonthButtons
              [] do = "month" -> BirthButtons

----------------------------------------------------------------------------

TypeOK ==
  /\ chat \in [Users -> [Slots -> Keyboards]]
  /\ profile_wizards \in [Users -> ProfileState \cup {None}]
  /\ pick_wizards \in [Users -> PickState \cup {None}]
  /\ context \in [Users -> Ticks \cup {None}]
  /\ pc \in [Users -> {"free", "lookup", "create", "pick", "picking", "other"}]
  /\ at \in [Users -> Slots \cup {None}]
  /\ request \in [Users -> ProfileState \cup PickState \cup {None}]
  /\ sweeping \in BOOLEAN

Init ==
  /\ chat = [u \in Users |-> [s \in Slots |-> {}]]
  /\ profile_wizards = [u \in Users |-> None]
  /\ pick_wizards = [u \in Users |-> None]
  /\ context = [u \in Users |-> None]
  /\ pc = [u \in Users |-> "free"]
  /\ at = [u \in Users |-> None]
  /\ request = [u \in Users |-> None]
  /\ sweeping = FALSE

----------------------------------------------------------------------------
(* Steps of handlers                                                       *)

\* The lane is taken, which refreshes the context, and left to task.
Enter(u, task, s) == /\ pc[u] = "free"
                     /\ context' = [context EXCEPT ![u] = 0]
                     /\ pc' = [pc EXCEPT ![u] = task]
                     /\ at' = [at EXCEPT ![u] = s]

\* A handler that does all its work itself.
Handle(u) == Enter(u, "free", None)

Release(u) == /\ pc' = [pc EXCEPT ![u] = "free"]
              /\ at' = [at EXCEPT ![u] = None]
              /\ request' = [request EXCEPT ![u] = None]

\* An edit whose result is ignored: it is made or not.
Show(u, s, buttons) == chat' \in {[chat EXCEPT ![u][s] = buttons], chat}

\* A new message, which may not arrive either.
Say(u, buttons) ==
  chat' \in {chat} \cup {[chat EXCEPT ![u][s] = buttons] : s \in {t \in Slots : chat[u][t] = {}}}

Pressed(u, s, do, with) == Button(do, with) \in chat[u][s]

\* entry(user_id).or_default(), and get_mut.
ProfileEntry(u) == IF profile_wizards[u] = None THEN NewProfile ELSE profile_wizards[u]
PickEntry(u) == IF pick_wizards[u] = None THEN NewPick ELSE pick_wizards[u]
Touched(w) == IF w = None THEN None ELSE [w EXCEPT !.idle = 0]

PutProfile(u, w) == profile_wizards' = [profile_wizards EXCEPT ![u] = w]
PutPick(u, w) == pick_wizards' = [pick_wizards EXCEPT ![u] = w]
Fresh(w) == [w EXCEPT !.idle = 0]

OnlyProfile == UNCHANGED <<pick_wizards, request, sweeping>>
OnlyPick == UNCHANGED <<profile_wizards, request, sweeping>>

----------------------------------------------------------------------------
(* /new                                                                    *)

\* There is a warning if a profile is found.
New(u) ==
  /\ Handle(u)
  /\ Say(u, WarningButtons) \/ Say(u, GenderButtons)
  /\ UNCHANGED profile_wizards /\ OnlyProfile

Continue(u, s) ==
  /\ Pressed(u, s, "continue", None) /\ Handle(u)
  /\ PutProfile(u, NewProfile)
  /\ Show(u, s, GenderButtons)
  /\ OnlyProfile

CancelNew(u, s) ==
  /\ Pressed(u, s, "cancel", None) /\ Handle(u)
  /\ PutProfile(u, None)
  /\ Show(u, s, {})
  /\ OnlyProfile

SelectGender(u, s, g) ==
  /\ Pressed(u, s, "gender", g) /\ Handle(u)
  /\ PutProfile(u, Fresh([ProfileEntry(u) EXCEPT !.gender = g]))
  /\ Show(u, s, YearButtons)
  /\ OnlyProfile

\* The pages of the calendar: years, months of a year, days of a month.
Browse(u, s, do) ==
  /\ Pressed(u, s, do, None) /\ Handle(u)
  /\ PutProfile(u, Touched(profile_wizards[u]))
  /\ Show(u, s, Page(do))
  /\ OnlyProfile

\* Mutant of SelectDate: what was entered before is kept.
SelectDateOnly(u, s, d) ==
  /\ Pressed(u, s, "birthdate", d) /\ Handle(u)
  /\ PutProfile(u, Fresh([ProfileEntry(u) EXCEPT !.birthdate = d]))
  /\ Show(u, s, HourButtons)
  /\ OnlyProfile

SelectDate(u, s, d) ==
  /\ Pressed(u, s, "birthdate", d) /\ Handle(u)
  /\ PutProfile(u, Fresh([ProfileEntry(u) EXCEPT !.birthdate = d, !.hour = None,
                                                 !.minute = None, !.location = None]))
  /\ Show(u, s, HourButtons)
  /\ OnlyProfile

Now(u, x) == [is |-> x, after |-> ProfileEntry(u).birthdate]

SetTime(u, h, m) == PutProfile(u, Fresh([ProfileEntry(u) EXCEPT !.hour = h, !.minute = m]))

\* Mutant of SelectHour: the minute stays as it was.
SelectHourOnly(u, s, h) ==
  /\ Pressed(u, s, "hour", h) /\ Handle(u)
  /\ SetTime(u, Now(u, h), ProfileEntry(u).minute)
  /\ Show(u, s, MinuteButtons(h))
  /\ OnlyProfile

SelectHour(u, s, h) ==
  /\ Pressed(u, s, "hour", h) /\ Handle(u)
  /\ SetTime(u, Now(u, h), None)
  /\ Show(u, s, MinuteButtons(h))
  /\ OnlyProfile

SelectMinute(u, s, h, m) ==
  /\ Pressed(u, s, "minute", <<h, m>>) /\ Handle(u)
  /\ SetTime(u, Now(u, h), [is |-> m, of |-> h])
  /\ Show(u, s, LocationButtons)
  /\ OnlyProfile

BackToHour(u, s) ==
  /\ Pressed(u, s, "back", None) /\ Handle(u)
  /\ PutProfile(u, Touched(profile_wizards[u]))
  /\ Show(u, s, HourButtons)
  /\ OnlyProfile

SkipTime(u, s) ==
  /\ Pressed(u, s, "skip time", None) /\ Handle(u)
  /\ SetTime(u, None, None)
  /\ Show(u, s, LocationButtons)
  /\ OnlyProfile

\* A city or skip; the task reads the user's row first.
SelectLocation(u, s, l) ==
  /\ Pressed(u, s, "location", l) /\ Enter(u, "lookup", s)
  /\ PutProfile(u, Fresh([ProfileEntry(u) EXCEPT !.location = IF l = None THEN None ELSE Now(u, l)]))
  /\ UNCHANGED chat /\ OnlyProfile

Complete(w) == /\ w # None
               /\ w.birthdate # None /\ w.gender # None
               /\ (w.hour = None) = (w.minute = None)

\* The entry is taken; a calculation starts if it was complete.
Analyze(u) ==
  /\ pc[u] = "lookup"
  /\ PutProfile(u, None)
  /\ Show(u, at[u], {})
  /\ IF Complete(profile_wizards[u])
     THEN /\ pc' = [pc EXCEPT ![u] = "create"]
          /\ request' = [request EXCEPT ![u] = profile_wizards[u]]
          /\ UNCHANGED at
     ELSE Release(u)
  /\ UNCHANGED <<pick_wizards, context, sweeping>>

----------------------------------------------------------------------------
(* /pick                                                                   *)

PickCommand(u) ==
  /\ Handle(u)
  /\ PutPick(u, NewPick)
  /\ Say(u, PickButtons)
  /\ OnlyPick

Turn(u, s) ==
  /\ Pressed(u, s, "turn", None) /\ Handle(u)
  /\ PutPick(u, Touched(pick_wizards[u]))
  /\ UNCHANGED chat /\ OnlyPick

\* Mutant of PickDay: an earlier day becomes the start.
PickDayEarlier(u, s, d) ==
  LET w == Fresh(PickEntry(u))
  IN /\ Pressed(u, s, "day", d) /\ Handle(u)
     /\ IF IF w.start_date = None THEN TRUE ELSE d < w.start_date
        THEN PutPick(u, [w EXCEPT !.start_date = d]) /\ UNCHANGED chat
        ELSE IF d - w.start_date \in 0..MaxDays
             THEN PutPick(u, [w EXCEPT !.end_date = d]) /\ Show(u, s, ActivityButtons)
             ELSE PutPick(u, w) /\ UNCHANGED chat
     /\ OnlyPick

\* The first day is the start; a later press is an end, if it fits the start.
PickDay(u, s, d) ==
  LET w == Fresh(PickEntry(u))
  IN /\ Pressed(u, s, "day", d) /\ Handle(u)
     /\ IF w.start_date = None
        THEN PutPick(u, [w EXCEPT !.start_date = d]) /\ UNCHANGED chat
        ELSE IF d - w.start_date \in 0..MaxDays
             THEN PutPick(u, [w EXCEPT !.end_date = d]) /\ Show(u, s, ActivityButtons)
             ELSE PutPick(u, w) /\ UNCHANGED chat
     /\ OnlyPick

SelectActivity(u, s, a) ==
  /\ Pressed(u, s, "activity", a) /\ Enter(u, "pick", s)
  /\ PutPick(u, Fresh([PickEntry(u) EXCEPT !.activity = a]))
  /\ UNCHANGED chat /\ OnlyPick

Other(u, s) ==
  /\ Pressed(u, s, "other", None) /\ Handle(u)
  /\ PutPick(u, Fresh([PickEntry(u) EXCEPT !.waiting_for_text = TRUE]))
  /\ Show(u, s, {})
  /\ OnlyPick

\* Text, if it is awaited, is an activity.
TypeActivity(u, a) ==
  /\ pick_wizards[u] # None /\ pick_wizards[u].waiting_for_text
  /\ Enter(u, "pick", None)
  /\ PutPick(u, Fresh([pick_wizards[u] EXCEPT !.activity = a, !.waiting_for_text = FALSE]))
  /\ UNCHANGED chat /\ OnlyPick

\* The entry is taken; the days are analysed if it was complete.
TakePick(u) ==
  LET w == pick_wizards[u]
  IN /\ pc[u] = "pick"
     /\ PutPick(u, None)
     /\ IF w # None /\ w.start_date # None /\ w.end_date # None /\ w.activity # None
        THEN /\ pc' = [pc EXCEPT ![u] = "picking"]
             /\ request' = [request EXCEPT ![u] = w]
             /\ IF at[u] = None THEN UNCHANGED chat ELSE Show(u, at[u], {})
             /\ UNCHANGED at
        ELSE Release(u) /\ UNCHANGED chat
     /\ UNCHANGED <<profile_wizards, context, sweeping>>

----------------------------------------------------------------------------
(* The rest of the system                                                  *)

\* Text that nobody awaits is a chat turn, a day of /date a reading.
OtherWork(u) ==
  /\ Enter(u, "other", None)
  /\ UNCHANGED <<chat, profile_wizards, pick_wizards, request, sweeping>>

\* A task ends or is cut off, by its deadline or by shutdown.
Finish(u) ==
  /\ pc[u] # "free"
  /\ Release(u)
  /\ UNCHANGED <<chat, profile_wizards, pick_wizards, context, sweeping>>

Later(age) == IF age = None \/ age + 1 \notin Ticks THEN age ELSE age + 1

LaterWizard(w) == IF w = None THEN None ELSE [w EXCEPT !.idle = Later(@)]

Tick == /\ context' = [u \in Users |-> Later(context[u])]
        /\ profile_wizards' = [u \in Users |-> LaterWizard(profile_wizards[u])]
        /\ pick_wizards' = [u \in Users |-> LaterWizard(pick_wizards[u])]
        /\ UNCHANGED <<chat, pc, at, request, sweeping>>

\* The cleanup job removes idle contexts, those of nobody who holds a lane,
\* and then idle wizards.  Ages of contexts are cut to whole minutes.
SweepContexts ==
  /\ ~sweeping /\ sweeping' = TRUE
  /\ context' = [u \in Users |-> IF /\ context[u] # None /\ pc[u] = "free"
                                    /\ context[u] \div PerMinute > Expiry
                                 THEN None ELSE context[u]]
  /\ UNCHANGED <<chat, profile_wizards, pick_wizards, pc, at, request>>

\* Mutant of Kept: a wizard outlives its context by a minute.
KeptLong(w) == IF w # None /\ w.idle > (Expiry + 1) * PerMinute THEN None ELSE w

Kept(w) == IF w # None /\ w.idle > Expiry * PerMinute THEN None ELSE w

SweepWizards ==
  /\ sweeping /\ sweeping' = FALSE
  /\ profile_wizards' = [u \in Users |-> Kept(profile_wizards[u])]
  /\ pick_wizards' = [u \in Users |-> Kept(pick_wizards[u])]
  /\ UNCHANGED <<chat, context, pc, at, request>>

\* The process starts again; messages and rows are what they were.
Restart ==
  /\ profile_wizards' = [u \in Users |-> None]
  /\ pick_wizards' = [u \in Users |-> None]
  /\ context' = [u \in Users |-> None]
  /\ pc' = [u \in Users |-> "free"]
  /\ at' = [u \in Users |-> None]
  /\ request' = [u \in Users |-> None]
  /\ sweeping' = FALSE
  /\ UNCHANGED chat

NewDialogue(u) ==
  \/ New(u) \/ Analyze(u)
  \/ \E s \in Slots :
       \/ Continue(u, s) \/ CancelNew(u, s) \/ BackToHour(u, s) \/ SkipTime(u, s)
       \/ \E g \in Genders : SelectGender(u, s, g)
       \/ \E do \in {"years", "year", "month"} : Browse(u, s, do)
       \/ \E d \in Dates : SelectDate(u, s, d)
       \/ \E h \in Hours : SelectHour(u, s, h)
       \/ \E h \in Hours, m \in Minutes : SelectMinute(u, s, h, m)
       \/ \E l \in Cities \cup {None} : SelectLocation(u, s, l)

PickDialogue(u) ==
  \/ PickCommand(u) \/ TakePick(u)
  \/ \E a \in Activities : TypeActivity(u, a)
  \/ \E s \in Slots : \/ Turn(u, s) \/ Other(u, s)
                      \/ \E d \in Days : PickDay(u, s, d)
                      \/ \E a \in Activities : SelectActivity(u, s, a)

Next == \/ \E u \in Users : NewDialogue(u) \/ PickDialogue(u) \/ OtherWork(u) \/ Finish(u)
        \/ Tick \/ SweepContexts \/ SweepWizards \/ Restart

Spec == Init /\ [][Next]_vars

----------------------------------------------------------------------------

Together(w) == /\ w.hour # None /\ w.minute # None => w.minute.of = w.hour.is
               /\ w.hour # None => w.hour.after = w.birthdate
               /\ w.location # None => w.location.after = w.birthdate

(* Whatever messages the answers come from, old ones included, and in      *)
(* whatever order: a chart's hour and minute are those of one button, and  *)
(* its time and place were entered after its birth date, so that nothing   *)
(* is carried over that was entered before (callbacks.rs:141-147, 196-215).*)
(* That the message they were pressed on named this date is not promised.  *)
AnswersTogether ==
  \A u \in Users :
    /\ profile_wizards[u] # None => Together(profile_wizards[u])
    /\ pc[u] = "create" => Together(request[u])

InRange(w) == w.end_date # None => w.start_date # None /\ w.end_date - w.start_date \in 0..MaxDays

(* Days are analysed from a start to an end that is not before it and not  *)
(* too far away, although either can be pressed again on any calendar that *)
(* is still in the chat (bot/callbacks.rs:377-410).                        *)
RangeBounded ==
  \A u \in Users : /\ pick_wizards[u] # None => InRange(pick_wizards[u])
                   /\ pc[u] = "picking" => InRange(request[u])

Oldest(w) == w # None => w.idle > Expiry * PerMinute

(* Nothing bounds the wizards but this: whoever has one has a context, of  *)
(* which there are at most MAX_CONTEXTS, except while the cleanup job is   *)
(* about to remove it (scheduler.rs:37-44, processing_guard.rs:14-24).     *)
WizardsWithinContexts ==
  \A u \in Users : context[u] = None =>
    \/ profile_wizards[u] = None /\ pick_wizards[u] = None
    \/ sweeping /\ Oldest(profile_wizards[u]) /\ Oldest(pick_wizards[u])
=============================================================================
