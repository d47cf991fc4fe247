-------------------------- MODULE AdmissionProofs --------------------------
(***************************************************************************)
(* Safety of Admission and of RateLimiter for any number of callers, users *)
(* and permits, and that the one is a client of the other.                 *)
(*                                                                         *)
(* Admission.  The inductive invariant adds to the properties only Shape:  *)
(* which labels a caller of each kind can stand at, and that it serves a   *)
(* user there.                                                             *)
(*                                                                         *)
(* RateLimiter.  A caller that has passed the size check carries a user    *)
(* that may not be in the table yet, so the table alone is not inductive;  *)
(* the users in the table or on their way into it (Known) are.  Only a     *)
(* size check that sees room can add to Known, and at that moment the      *)
(* table has at most RateCapacity - 1 entries and at most one user per     *)
(* caller is on its way.  The latest grants of a user fall into three      *)
(* groups: those of the current window, as many as its count; those of the *)
(* window before it, older than the current one and at most a limit of     *)
(* them; and those that are out of sight (Fits).                           *)
(*                                                                         *)
(* TimedAdmission.  Its steps are those of the limiter, so the bounds hold *)
(* for everything that admission lets through.                             *)
(***************************************************************************)
EXTENDS TimedAdmission, FiniteSetTheorems, FunctionTheorems, TLAPS

(* What the operations on the rate table preserve, for any table.          *)

LEMMA NoRatesType ==
  ASSUME rates = NoRates
  PROVE  RatesOK
<1>1. DOMAIN rates = {}
  BY DEF NoRates
<1>2. rates \in [{} -> RateEntry]
  BY DEF NoRates
<1> QED
  BY <1>1, <1>2 DEF RatesOK

(* A purge keeps well-formed entries and adds no user.                     *)
LEMMA PurgeKeepsType ==
  ASSUME RatesOK
  PROVE  /\ DOMAIN Purged \subseteq DOMAIN rates
         /\ Purged \in [DOMAIN Purged -> RateEntry]
  BY DEF RatesOK, Purged

(* The entry a call charges is well formed and inside its window.          *)
LEMMA CurrentWindowType ==
  ASSUME RatesOK, NEW u \in Users
  PROVE  CurrentWindow(u) \in RateEntry
  BY RateAssumption DEF RatesOK, CurrentWindow, RateEntry

LEMMA SetEntryType ==
  ASSUME RatesOK, NEW u \in Users, NEW entry \in RateEntry, SetEntry(u, entry)
  PROVE  RatesOK' /\ DOMAIN rates' = DOMAIN rates \cup {u}
  BY DEF RatesOK, SetEntry

(* Granting and refusing a call both leave a well-formed table in which    *)
(* the caller has an entry.                                                *)
LEMMA ChargeType ==
  ASSUME RatesOK, NEW u \in Users, Grant(u) \/ Refuse(u)
  PROVE  RatesOK' /\ DOMAIN rates' = DOMAIN rates \cup {u}
<1>1. CurrentWindow(u) \in RateEntry
  BY CurrentWindowType
<1>2. [CurrentWindow(u) EXCEPT !.count = @ + 1] \in RateEntry
  BY <1>1 DEF RateEntry
<1>3. CASE Grant(u)
  BY <1>2, <1>3, SetEntryType DEF Grant
<1>4. CASE Refuse(u)
  BY <1>1, <1>4, SetEntryType DEF Refuse
<1> QED
  BY <1>3, <1>4

LEMMA PurgeType ==
  ASSUME RatesOK, rates' = Purged
  PROVE  RatesOK' /\ DOMAIN rates' \subseteq DOMAIN rates
  BY PurgeKeepsType DEF RatesOK

(* Time passes: entries age, none appears or disappears.                   *)
LEMMA OlderType ==
  ASSUME RatesOK, Older
  PROVE  RatesOK' /\ DOMAIN rates' = DOMAIN rates
<1>1. DOMAIN rates' = DOMAIN rates
  BY DEF Older
<1>2. \A u \in DOMAIN rates :
        [rates[u] EXCEPT !.age = IF @ < Window THEN @ + 1 ELSE @] \in RateEntry
  BY RateAssumption DEF RatesOK, RateEntry
<1> QED
  BY <1>1, <1>2 DEF RatesOK, Older

----------------------------------------------------------------------------

ChartLabels == {"idle", "acquire", "running", "dropRequest"}
ReadLabels  == {"auth", "check", "acquire", "scan", "charge", "running", "dropRequest",
                "unwindRequest"}
WriteLabels == {"auth", "check", "acquire", "scan", "charge", "lane", "running",
                "streaming", "dropRequest", "dropLane", "unwindRequest"}
GuardLabels == {"contexts", "workCheck", "work", "check", "acquire", "scan", "charge",
                "lane", "mark", "running", "unmark", "dropWork", "dropRequest",
                "dropLane", "unwindRequest", "unwindWork"}

Shape == \A r \in Requests :
           /\ kind[r] = "chart" => pc[r] \in ChartLabels
           /\ kind[r] = "read"  => pc[r] \in ReadLabels  /\ user[r] \in Users
           /\ kind[r] = "write" => pc[r] \in WriteLabels /\ user[r] \in Users
           /\ kind[r] = "guard" => pc[r] \in GuardLabels /\ user[r] \in Users

Typed == TypeOK /\ Shape

LEMMA InitTyped == Init => Typed
<1> SUFFICES ASSUME Init PROVE Typed
  OBVIOUS
<1>1. TypeOK
  <2>1. RatesOK
    BY NoRatesType DEF Init
  <2>2. pc \in [Requests -> Labels] /\ kind \in [Requests -> AllKinds]
    BY DEF Init, Labels, AllKinds
  <2>3. user \in [Requests -> Users \cup {Nobody}]
    BY DEF Init
  <2>4. requestsFree \in 0..MaxRequests /\ workFree \in 0..MaxWork
    BY AdmissionAssumption DEF Init
  <2>5. /\ activeUsers \subseteq Users /\ contexts \subseteq Users
        /\ processing \subseteq Users /\ shutdown \in BOOLEAN
    BY DEF Init
  <2> QED
    BY <2>1, <2>2, <2>3, <2>4, <2>5 DEF TypeOK
<1>2. Shape
  BY DEF Init, Shape, ChartLabels
<1> QED
  BY <1>1, <1>2 DEF Typed

(* Every step of a caller is one of these: a move to another label, or a   *)
(* return to idle.  Either way only that caller's locals change.           *)
LEMMA GotoTyped ==
  ASSUME Typed, NEW r \in Requests, NEW label \in Labels, Goto(r, label),
         kind[r] = "chart" => label \in ChartLabels,
         kind[r] = "read"  => label \in ReadLabels,
         kind[r] = "write" => label \in WriteLabels,
         kind[r] = "guard" => label \in GuardLabels
  PROVE  /\ pc' \in [Requests -> Labels]
         /\ kind' \in [Requests -> AllKinds]
         /\ user' \in [Requests -> Users \cup {Nobody}]
         /\ Shape'
  BY DEF Typed, TypeOK, Shape, Goto

LEMMA LeaveTyped ==
  ASSUME Typed, NEW r \in Requests, Leave(r)
  PROVE  /\ pc' \in [Requests -> Labels]
         /\ kind' \in [Requests -> AllKinds]
         /\ user' \in [Requests -> Users \cup {Nobody}]
         /\ Shape'
  BY DEF Typed, TypeOK, Shape, Leave, ChartLabels, Labels, AllKinds

LEMMA ArriveTyped ==
  ASSUME Typed, NEW r \in Requests, Begin(r)
  PROVE  Typed'
<1>1. CASE ArriveHttp(r)
  BY <1>1 DEF ArriveHttp, Arrive, Typed, TypeOK, Shape, shared, RatesOK, AllKinds,
     Labels, ReadLabels, WriteLabels
<1>2. CASE ArriveChart(r)
  BY <1>2 DEF ArriveChart, Arrive, Typed, TypeOK, Shape, shared, RatesOK, AllKinds,
     Labels, ChartLabels
<1>3. CASE ArriveGuard(r)
  BY <1>3 DEF ArriveGuard, Arrive, Typed, TypeOK, Shape, shared, RatesOK, AllKinds,
     Labels, GuardLabels
<1> QED
  BY <1>1, <1>2, <1>3 DEF Begin

----------------------------------------------------------------------------
(* How a caller's step moves it in and out of the sets of holders.         *)

LEMMA GotoHolders ==
  ASSUME Typed, NEW r \in Requests, NEW label, Goto(r, label)
  PROVE  /\ SlotHolders' = IF label \in SlotLabels THEN SlotHolders \cup {r}
                           ELSE SlotHolders \ {r}
         /\ WorkHolders' = IF kind[r] = "guard" /\ label \in WorkLabels
                           THEN WorkHolders \cup {r} ELSE WorkHolders \ {r}
         /\ LaneOwners' = IF Exclusive(r) /\ label \in LaneLabels
                          THEN LaneOwners \cup {r} ELSE LaneOwners \ {r}
         /\ Marked' = IF kind[r] = "guard" /\ label \in MarkLabels
                      THEN Marked \cup {r} ELSE Marked \ {r}
         /\ user' = user
<1> USE DEF Typed, TypeOK, Goto
<1>1. \A s \in Requests : pc'[s] = (IF s = r THEN label ELSE pc[s]) /\ kind'[s] = kind[s]
  OBVIOUS
<1>2. \A s \in Requests : Exclusive(s)' = Exclusive(s)
  BY <1>1 DEF Exclusive
<1>3. SlotHolders' = IF label \in SlotLabels THEN SlotHolders \cup {r} ELSE SlotHolders \ {r}
  BY <1>1 DEF SlotHolders, SlotLabels
<1>4. WorkHolders' = IF kind[r] = "guard" /\ label \in WorkLabels
                     THEN WorkHolders \cup {r} ELSE WorkHolders \ {r}
  BY <1>1 DEF WorkHolders, WorkLabels
<1>5. LaneOwners' = IF Exclusive(r) /\ label \in LaneLabels
                    THEN LaneOwners \cup {r} ELSE LaneOwners \ {r}
  BY <1>1, <1>2 DEF LaneOwners, LaneLabels
<1>6. Marked' = IF kind[r] = "guard" /\ label \in MarkLabels
                THEN Marked \cup {r} ELSE Marked \ {r}
  BY <1>1 DEF Marked, MarkLabels
<1> QED
  BY <1>3, <1>4, <1>5, <1>6

LEMMA LeaveHolders ==
  ASSUME Typed, NEW r \in Requests, Leave(r)
  PROVE  /\ SlotHolders' = SlotHolders \ {r}
         /\ WorkHolders' = WorkHolders \ {r}
         /\ LaneOwners' = LaneOwners \ {r}
         /\ Marked' = Marked \ {r}
         /\ \A s \in Requests \ {r} : user'[s] = user[s]
<1> USE DEF Typed, TypeOK, Leave
<1>1. \A s \in Requests : /\ pc'[s] = (IF s = r THEN "idle" ELSE pc[s])
                         /\ kind'[s] = (IF s = r THEN "chart" ELSE kind[s])
                         /\ s # r => user'[s] = user[s]
  OBVIOUS
<1>2. \A s \in Requests \ {r} : Exclusive(s)' = Exclusive(s)
  BY <1>1 DEF Exclusive
<1>3. SlotHolders' = SlotHolders \ {r}
  BY <1>1 DEF SlotHolders, SlotLabels
<1>4. WorkHolders' = WorkHolders \ {r}
  BY <1>1 DEF WorkHolders, WorkLabels
<1>5. LaneOwners' = LaneOwners \ {r}
  BY <1>1, <1>2 DEF LaneOwners, LaneLabels
<1>6. Marked' = Marked \ {r}
  BY <1>1 DEF Marked, MarkLabels
<1> QED
  BY <1>1, <1>3, <1>4, <1>5, <1>6

(* Arriving is in none of them.                                            *)
LEMMA ArriveHolders ==
  ASSUME Typed, NEW r \in Requests, NEW label, NEW k, NEW u, Arrive(r, label, k, u),
         label \in {"auth", "acquire", "contexts"}, label = "acquire" => k = "chart"
  PROVE  /\ SlotHolders' = SlotHolders /\ WorkHolders' = WorkHolders
         /\ LaneOwners' = LaneOwners /\ Marked' = Marked
         /\ \A s \in LaneOwners : user'[s] = user[s]
         /\ UNCHANGED shared
<1> USE DEF Typed, TypeOK, Arrive
<1>1. /\ pc[r] = "idle" /\ pc'[r] = label /\ kind'[r] = k
      /\ \A s \in Requests \ {r} : pc'[s] = pc[s] /\ kind'[s] = kind[s] /\ user'[s] = user[s]
  OBVIOUS
<1>2. \A s \in Requests \ {r} : Exclusive(s)' = Exclusive(s)
  BY <1>1 DEF Exclusive
<1>3. SlotHolders' = SlotHolders
  BY <1>1 DEF SlotHolders, SlotLabels
<1>4. WorkHolders' = WorkHolders
  BY <1>1 DEF WorkHolders, WorkLabels
<1>5. LaneOwners' = LaneOwners
  BY <1>1, <1>2 DEF LaneOwners, LaneLabels
<1>6. Marked' = Marked
  BY <1>1 DEF Marked, MarkLabels
<1>7. \A s \in LaneOwners : user'[s] = user[s]
  BY <1>1 DEF LaneOwners, LaneLabels
<1> QED
  BY <1>3, <1>4, <1>5, <1>6, <1>7

----------------------------------------------------------------------------
(* The accounts the invariant keeps.                                       *)

Books == PermitsConserved /\ LanesTracked /\ SingleFlight /\ ContextInUse

IInv == Typed /\ Books

LEMMA HoldersFinite ==
  /\ IsFiniteSet(SlotHolders) /\ Cardinality(SlotHolders) \in Nat
  /\ IsFiniteSet(WorkHolders) /\ Cardinality(WorkHolders) \in Nat
<1>1. SlotHolders \subseteq Requests /\ WorkHolders \subseteq Requests
  BY DEF SlotHolders, WorkHolders
<1> QED
  BY <1>1, FS_Subset, FS_CardinalityType, AdmissionAssumption

(* A holder of a permit accounts for one that is not free.                 *)
LEMMA HeldNotFree ==
  ASSUME Typed, PermitsConserved, NEW r \in Requests
  PROVE  /\ r \in SlotHolders => requestsFree < MaxRequests
         /\ r \in WorkHolders => workFree < MaxWork
<1>1. r \in SlotHolders => Cardinality(SlotHolders) # 0
  BY HoldersFinite, FS_EmptySet
<1>2. r \in WorkHolders => Cardinality(WorkHolders) # 0
  BY HoldersFinite, FS_EmptySet
<1> QED
  BY <1>1, <1>2, HoldersFinite, AdmissionAssumption
     DEF PermitsConserved, Typed, TypeOK

LEMMA MarkedOwnLanes == Marked \subseteq LaneOwners
  BY DEF Marked, LaneOwners, Exclusive, MarkLabels, LaneLabels

(* A step that moves nobody across a boundary keeps the books.             *)
LEMMA BooksQuiet ==
  ASSUME Books,
         SlotHolders' = SlotHolders, WorkHolders' = WorkHolders,
         LaneOwners' = LaneOwners, Marked' = Marked,
         \A s \in LaneOwners : user'[s] = user[s],
         UNCHANGED <<requestsFree, workFree, activeUsers, processing>>,
         processing \subseteq contexts'
  PROVE  Books'
<1>1. PermitsConserved'
  BY DEF Books, PermitsConserved
<1>2. LanesTracked'
  BY DEF Books, LanesTracked
<1>3. SingleFlight'
  BY DEF Books, SingleFlight
<1>4. ContextInUse'
  BY MarkedOwnLanes DEF Books, ContextInUse
<1> QED
  BY <1>1, <1>2, <1>3, <1>4 DEF Books

(* A caller that takes or returns permits keeps the count.                 *)
LEMMA PermitsQuiet ==
  ASSUME PermitsConserved, UNCHANGED <<requestsFree, workFree>>,
         SlotHolders' = SlotHolders, WorkHolders' = WorkHolders
  PROVE  PermitsConserved'
  BY DEF PermitsConserved

(* Likewise for lanes and flags when only permits move.                    *)
LEMMA LanesQuiet ==
  ASSUME Books, LaneOwners' = LaneOwners, Marked' = Marked,
         \A s \in LaneOwners : user'[s] = user[s],
         UNCHANGED <<activeUsers, processing, contexts>>
  PROVE  LanesTracked' /\ SingleFlight' /\ ContextInUse'
<1>1. LanesTracked'
  BY DEF Books, LanesTracked
<1>2. SingleFlight'
  BY DEF Books, SingleFlight
<1>3. ContextInUse'
  BY MarkedOwnLanes DEF Books, ContextInUse
<1> QED
  BY <1>1, <1>2, <1>3
----------------------------------------------------------------------------
(* How a caller's step looks to the policy.                                *)

PolicyStep == [Policy!Next]_(Policy!vars)

Lanes == {<<user[r], r>> : r \in LaneOwners}

LEMMA PolicyStutters ==
  ASSUME SlotHolders' = SlotHolders, LaneOwners' = LaneOwners,
         \A s \in LaneOwners : user'[s] = user[s]
  PROVE  PolicyStep
<1>1. Lanes' = Lanes
  BY DEF Lanes
<1> QED
  BY <1>1 DEF PolicyStep, Policy!vars, Lanes

(* A permit is free only while fewer than MaxRequests are held.            *)
LEMMA PolicyEnters ==
  ASSUME Typed, PermitsConserved, requestsFree > 0, NEW r \in Requests,
         r \notin SlotHolders, SlotHolders' = SlotHolders \cup {r},
         LaneOwners' = LaneOwners, user' = user
  PROVE  PolicyStep
<1>1. Cardinality(SlotHolders) < MaxRequests
  BY HoldersFinite, AdmissionAssumption DEF PermitsConserved, Typed, TypeOK
<1>2. Lanes' = Lanes
  BY DEF Lanes
<1>3. Policy!Cardinality(SlotHolders) = Cardinality(SlotHolders)
  BY Zenon DEF Policy!Cardinality, Cardinality
<1>4. Policy!Enter(r)
  BY <1>1, <1>2, <1>3 DEF Policy!Enter, Lanes
<1> QED
  BY <1>4 DEF PolicyStep, Policy!Next

LEMMA PolicyExits ==
  ASSUME NEW r \in Requests, r \in SlotHolders, SlotHolders' = SlotHolders \ {r},
         LaneOwners' = LaneOwners, \A s \in LaneOwners : user'[s] = user[s]
  PROVE  PolicyStep
<1>1. Lanes' = Lanes
  BY DEF Lanes
<1>2. Policy!Exit(r)
  BY <1>1 DEF Policy!Exit, Lanes
<1> QED
  BY <1>2 DEF PolicyStep, Policy!Next

LEMMA PolicyOwns ==
  ASSUME NEW r \in Requests, user[r] \in Users, r \in SlotHolders, r \notin LaneOwners,
         \A s \in LaneOwners : user[s] # user[r],
         SlotHolders' = SlotHolders, LaneOwners' = LaneOwners \cup {r}, user' = user
  PROVE  PolicyStep
<1>1. Lanes' = Lanes \cup {<<user[r], r>>}
  BY DEF Lanes
<1>2. \A l \in Lanes : l[1] # user[r] /\ l[2] # r
  BY DEF Lanes
<1>3. Policy!Own(user[r], r)
  BY <1>1, <1>2 DEF Policy!Own, Lanes
<1> QED
  BY <1>3 DEF PolicyStep, Policy!Next

(* The lane is given up after the slot.                                    *)
LEMMA PolicyDisowns ==
  ASSUME NEW r \in Requests, user[r] \in Users, r \in LaneOwners, r \notin SlotHolders,
         SlotHolders' = SlotHolders, LaneOwners' = LaneOwners \ {r},
         \A s \in LaneOwners \ {r} : user'[s] = user[s]
  PROVE  PolicyStep
<1>1. Lanes' = Lanes \ {<<user[r], r>>}
  <2>1. Lanes' = {<<user[s], s>> : s \in LaneOwners \ {r}}
    BY DEF Lanes
  <2>2. ASSUME NEW s \in LaneOwners \ {r} PROVE <<user[s], s>> # <<user[r], r>>
    OBVIOUS
  <2> QED
    BY <2>1, <2>2 DEF Lanes
<1>2. <<user[r], r>> \in Lanes
  BY DEF Lanes
<1>3. Policy!Disown(user[r], r)
  BY <1>1, <1>2 DEF Policy!Disown, Lanes
<1> QED
  BY <1>3 DEF PolicyStep, Policy!Next

----------------------------------------------------------------------------
(* Steps that only move a caller.                                          *)

LabelAllowed(r, label) ==
  /\ kind[r] = "chart" => label \in ChartLabels
  /\ kind[r] = "read"  => label \in ReadLabels
  /\ kind[r] = "write" => label \in WriteLabels
  /\ kind[r] = "guard" => label \in GuardLabels

SameAccounts(r, label) ==
  /\ pc[r] \in SlotLabels <=> label \in SlotLabels
  /\ kind[r] = "guard" => (pc[r] \in WorkLabels <=> label \in WorkLabels)
  /\ kind[r] = "guard" => (pc[r] \in MarkLabels <=> label \in MarkLabels)
  /\ Exclusive(r) => (pc[r] \in LaneLabels <=> label \in LaneLabels)

\* r may move to label, and holds there what it holds now.
QuietTo(r, label) == label \in Labels /\ LabelAllowed(r, label) /\ SameAccounts(r, label)

\* r holds nothing.
EmptyHanded(r) == /\ pc[r] \notin SlotLabels /\ pc[r] \notin LaneLabels
                  /\ kind[r] = "guard" => pc[r] \notin WorkLabels

books == <<requestsFree, workFree, activeUsers, contexts, processing, shutdown>>

LEMMA MoveQuiet ==
  ASSUME IInv, NEW r \in Requests, NEW label, Goto(r, label), QuietTo(r, label),
         UNCHANGED books, RatesOK'
  PROVE  IInv' /\ PolicyStep
<1>1. Typed'
  BY GotoTyped DEF IInv, Typed, TypeOK, QuietTo, LabelAllowed, books
<1>2. /\ SlotHolders' = SlotHolders /\ WorkHolders' = WorkHolders
      /\ LaneOwners' = LaneOwners /\ Marked' = Marked /\ user' = user
  BY GotoHolders DEF IInv, QuietTo, SameAccounts, SlotHolders, WorkHolders, LaneOwners, Marked
<1>3. Books'
  BY <1>2, BooksQuiet DEF IInv, books, Books, ContextInUse
<1> QED
  BY <1>1, <1>2, <1>3, PolicyStutters DEF IInv

LEMMA LeaveQuiet ==
  ASSUME IInv, NEW r \in Requests, Leave(r), EmptyHanded(r), UNCHANGED books, RatesOK'
  PROVE  IInv' /\ PolicyStep
<1>1. Typed'
  BY LeaveTyped DEF IInv, Typed, TypeOK, books
<1>2. r \notin SlotHolders /\ r \notin WorkHolders /\ r \notin LaneOwners /\ r \notin Marked
  BY DEF EmptyHanded, SlotHolders, WorkHolders, LaneOwners, Marked, MarkLabels, LaneLabels
<1>3. /\ SlotHolders' = SlotHolders /\ WorkHolders' = WorkHolders
      /\ LaneOwners' = LaneOwners /\ Marked' = Marked
  BY <1>2, LeaveHolders DEF IInv
<1>4. \A s \in LaneOwners : user'[s] = user[s]
  BY <1>2, LeaveHolders DEF IInv, LaneOwners
<1>5. Books'
  BY <1>3, <1>4, BooksQuiet DEF IInv, books, Books, ContextInUse
<1> QED
  BY <1>1, <1>3, <1>4, <1>5, PolicyStutters DEF IInv

LEMMA StepArrive ==
  ASSUME IInv, NEW r \in Requests, Begin(r)
  PROVE  IInv' /\ PolicyStep
<1>1. Typed'
  BY ArriveTyped DEF IInv
<1>2. \E label, k, u : /\ Arrive(r, label, k, u)
                       /\ label \in {"auth", "acquire", "contexts"}
                       /\ label = "acquire" => k = "chart"
  <2>1. CASE ArriveHttp(r)
    BY <2>1 DEF ArriveHttp
  <2>2. CASE ArriveChart(r)
    BY <2>2 DEF ArriveChart
  <2>3. CASE ArriveGuard(r)
    BY <2>3 DEF ArriveGuard
  <2> QED
    BY <2>1, <2>2, <2>3 DEF Begin
<1>3. Books'
  BY <1>2, ArriveHolders, BooksQuiet DEF IInv, shared, Books, ContextInUse
<1>4. PolicyStep
  BY <1>2, ArriveHolders, PolicyStutters DEF IInv
<1> QED
  BY <1>1, <1>3, <1>4 DEF IInv

(* The moves that take and return nothing.                                 *)
LEMMA QuietMoves ==
  ASSUME IInv, NEW r \in Requests
  PROVE  /\ pc[r] = "auth" => QuietTo(r, "check")
         /\ pc[r] = "contexts" => QuietTo(r, "workCheck")
         /\ pc[r] = "workCheck" => QuietTo(r, "work")
         /\ pc[r] = "check" => QuietTo(r, "acquire")
         /\ pc[r] \in {"check", "acquire"} /\ kind[r] = "guard" => QuietTo(r, "unwindWork")
         /\ pc[r] = "scan" => QuietTo(r, "charge") /\ QuietTo(r, "unwindRequest")
         /\ pc[r] = "charge" => QuietTo(r, "unwindRequest")
         /\ pc[r] = "charge" /\ Exclusive(r) => QuietTo(r, "lane")
         /\ pc[r] = "charge" /\ ~Exclusive(r) => QuietTo(r, "running")
         /\ pc[r] = "lane" => QuietTo(r, "unwindRequest")
         /\ pc[r] = "running" /\ kind[r] = "write" => QuietTo(r, "streaming")
         /\ pc[r] \in {"running", "streaming"} /\ kind[r] = "guard" => QuietTo(r, "unmark")
         /\ pc[r] \in {"running", "streaming"} /\ kind[r] # "guard" => QuietTo(r, "dropRequest")
         /\ pc[r] \in {"auth", "contexts", "workCheck", "work"} => EmptyHanded(r)
         /\ pc[r] \in {"check", "acquire"} /\ kind[r] # "guard" => EmptyHanded(r)
<1>1. LabelAllowed(r, pc[r]) /\ kind[r] \in AllKinds
  BY DEF IInv, Typed, TypeOK, Shape, LabelAllowed
<1>2. CASE kind[r] = "chart"
  BY <1>1, <1>2 DEF QuietTo, EmptyHanded, LabelAllowed, SameAccounts, Exclusive, Labels,
     ChartLabels, SlotLabels, LaneLabels
<1>3. CASE kind[r] = "read"
  BY <1>1, <1>3 DEF QuietTo, EmptyHanded, LabelAllowed, SameAccounts, Exclusive, Labels,
     ReadLabels, SlotLabels, LaneLabels
<1>4. CASE kind[r] = "write"
  BY <1>1, <1>4 DEF QuietTo, EmptyHanded, LabelAllowed, SameAccounts, Exclusive, Labels,
     WriteLabels, SlotLabels, LaneLabels
<1>5. CASE kind[r] = "guard"
  BY <1>1, <1>5 DEF QuietTo, EmptyHanded, LabelAllowed, SameAccounts, Exclusive, Labels,
     GuardLabels, SlotLabels, LaneLabels, WorkLabels, MarkLabels
<1> QED
  BY <1>1, <1>2, <1>3, <1>4, <1>5 DEF AllKinds

LEMMA StepMove ==
  ASSUME IInv, NEW r \in Requests,
         \/ Authenticate(r) \/ CheckContexts(r) \/ CheckWork(r) \/ CheckShutdown(r)
         \/ ScanRates(r) \/ ChargeRate(r) \/ StartStream(r) \/ Finish(r)
  PROVE  IInv' /\ PolicyStep
<1>0. RatesOK
  BY DEF IInv, Typed, TypeOK
<1>1. UNCHANGED shared => UNCHANGED books /\ RatesOK'
  BY <1>0 DEF shared, books, RatesOK
<1>2. CASE Authenticate(r)
  BY <1>1, <1>2, QuietMoves, MoveQuiet, LeaveQuiet DEF Authenticate
<1>3. CASE CheckContexts(r)
  BY <1>1, <1>3, QuietMoves, MoveQuiet, LeaveQuiet DEF CheckContexts
<1>4. CASE CheckWork(r)
  BY <1>1, <1>4, QuietMoves, MoveQuiet, LeaveQuiet DEF CheckWork
<1>5. CASE CheckShutdown(r)
  BY <1>1, <1>5, QuietMoves, MoveQuiet, LeaveQuiet DEF CheckShutdown, Rejected
<1>6. CASE ScanRates(r)
  <2>1. RatesOK' /\ UNCHANGED books
    BY <1>0, <1>6, PurgeType DEF ScanRates, books
  <2> QED
    BY <1>6, <2>1, QuietMoves, MoveQuiet DEF ScanRates
<1>7. CASE ChargeRate(r)
  <2>1. user[r] \in Users
    BY <1>7 DEF ChargeRate, IInv, Typed, TypeOK, Shape, AllKinds, ChartLabels
  <2>2. RatesOK' /\ UNCHANGED books
    BY <1>0, <1>7, <2>1, ChargeType DEF ChargeRate, books
  <2> QED
    BY <1>7, <2>2, QuietMoves, MoveQuiet DEF ChargeRate
<1>8. CASE StartStream(r)
  BY <1>1, <1>8, QuietMoves, MoveQuiet DEF StartStream
<1>9. CASE Finish(r)
  BY <1>1, <1>9, QuietMoves, MoveQuiet DEF Finish
<1> QED
  BY <1>2, <1>3, <1>4, <1>5, <1>6, <1>7, <1>8, <1>9
----------------------------------------------------------------------------
(* Steps that take or return something.                                    *)

LEMMA StepTakeWork ==
  ASSUME IInv, NEW r \in Requests, TakeWork(r)
  PROVE  IInv' /\ PolicyStep
<1>0. pc[r] = "work" /\ kind[r] = "guard"
  BY DEF IInv, Typed, TypeOK, Shape, AllKinds, TakeWork, ChartLabels, ReadLabels, WriteLabels
<1>1. CASE workFree = 0 /\ UNCHANGED workFree /\ Leave(r)
  BY <1>0, <1>1, QuietMoves, LeaveQuiet DEF TakeWork, IInv, Typed, TypeOK, RatesOK, books
<1>2. CASE workFree > 0 /\ workFree' = workFree - 1 /\ Goto(r, "check")
  <2>1. Typed'
    BY <1>0, <1>2, GotoTyped, AdmissionAssumption DEF IInv, Typed, TypeOK, RatesOK, TakeWork,
       Labels, GuardLabels
  <2>2. /\ SlotHolders' = SlotHolders /\ LaneOwners' = LaneOwners /\ Marked' = Marked
        /\ WorkHolders' = WorkHolders \cup {r} /\ r \notin WorkHolders /\ user' = user
    BY <1>0, <1>2, GotoHolders DEF IInv, SlotHolders, WorkHolders, LaneOwners, Marked,
       SlotLabels, WorkLabels, LaneLabels, MarkLabels
  <2>3. Cardinality(WorkHolders') = Cardinality(WorkHolders) + 1
    BY <2>2, HoldersFinite, FS_AddElement
  <2>4. PermitsConserved'
    BY <1>2, <2>2, <2>3, HoldersFinite, AdmissionAssumption
       DEF TakeWork, IInv, Typed, TypeOK, Books, PermitsConserved
  <2> QED
    BY <2>1, <2>2, <2>4, LanesQuiet, PolicyStutters DEF IInv, Books, TakeWork
<1> QED
  BY <1>1, <1>2 DEF TakeWork

LEMMA StepTakeRequest ==
  ASSUME IInv, NEW r \in Requests, TakeRequest(r)
  PROVE  IInv' /\ PolicyStep
<1>0. /\ pc[r] = "acquire" /\ kind[r] \in AllKinds
      /\ UNCHANGED <<workFree, activeUsers, contexts, processing, shutdown, rates>>
  BY DEF IInv, Typed, TypeOK, TakeRequest
<1>1. CASE requestsFree = 0 /\ UNCHANGED requestsFree /\ Rejected(r)
  BY <1>0, <1>1, QuietMoves, MoveQuiet, LeaveQuiet
     DEF Rejected, IInv, Typed, TypeOK, RatesOK, books
<1>2. CASE /\ requestsFree > 0 /\ requestsFree' = requestsFree - 1
           /\ Goto(r, IF kind[r] = "chart" THEN "running" ELSE "scan")
  <2>1. Typed'
    <3>1. CASE kind[r] = "chart"
      BY <1>0, <1>2, <3>1, GotoTyped, AdmissionAssumption
         DEF IInv, Typed, TypeOK, RatesOK, Labels, ChartLabels
    <3>2. CASE kind[r] # "chart"
      BY <1>0, <1>2, <3>2, GotoTyped, AdmissionAssumption
         DEF IInv, Typed, TypeOK, RatesOK, Labels, ReadLabels, WriteLabels, GuardLabels
    <3> QED
      BY <3>1, <3>2
  <2>2. /\ SlotHolders' = SlotHolders \cup {r} /\ r \notin SlotHolders /\ user' = user
        /\ LaneOwners' = LaneOwners /\ Marked' = Marked /\ WorkHolders' = WorkHolders
    BY <1>0, <1>2, GotoHolders DEF IInv, SlotHolders, WorkHolders, LaneOwners, Marked,
       Exclusive, SlotLabels, WorkLabels, LaneLabels, MarkLabels
  <2>3. Cardinality(SlotHolders') = Cardinality(SlotHolders) + 1
    BY <2>2, HoldersFinite, FS_AddElement
  <2>4. PermitsConserved'
    BY <1>0, <1>2, <2>2, <2>3, HoldersFinite, AdmissionAssumption
       DEF IInv, Typed, TypeOK, Books, PermitsConserved
  <2> QED
    BY <1>0, <1>2, <2>1, <2>2, <2>4, LanesQuiet, PolicyEnters DEF IInv, Books
<1> QED
  BY <1>1, <1>2 DEF TakeRequest

LEMMA StepReturnWork ==
  ASSUME IInv, NEW r \in Requests, ReturnWork(r)
  PROVE  IInv' /\ PolicyStep
<1>0. /\ kind[r] = "guard" /\ pc[r] \in {"dropWork", "unwindWork"} /\ workFree' = workFree + 1
      /\ UNCHANGED <<requestsFree, activeUsers, contexts, processing, shutdown, rates>>
  BY DEF IInv, Typed, TypeOK, Shape, AllKinds, ReturnWork, ChartLabels, ReadLabels, WriteLabels
<1>1. r \in WorkHolders
  BY <1>0 DEF WorkHolders, WorkLabels
<1>2. workFree' \in 0..MaxWork
  BY <1>0, <1>1, HeldNotFree, AdmissionAssumption DEF IInv, Books, Typed, TypeOK
<1>3. CASE pc[r] = "dropWork" /\ Goto(r, "dropRequest")
  <2>1. Typed'
    BY <1>0, <1>2, <1>3, GotoTyped DEF IInv, Typed, TypeOK, RatesOK, Labels, GuardLabels
  <2>2. /\ WorkHolders' = WorkHolders \ {r} /\ user' = user
        /\ SlotHolders' = SlotHolders /\ LaneOwners' = LaneOwners /\ Marked' = Marked
    BY <1>0, <1>3, GotoHolders DEF IInv, SlotHolders, WorkHolders, LaneOwners, Marked,
       Exclusive, SlotLabels, WorkLabels, LaneLabels, MarkLabels
  <2>3. Cardinality(WorkHolders') = Cardinality(WorkHolders) - 1
    BY <1>1, <2>2, HoldersFinite, FS_RemoveElement
  <2>4. PermitsConserved'
    BY <1>0, <2>2, <2>3, HoldersFinite, AdmissionAssumption
       DEF IInv, Typed, TypeOK, Books, PermitsConserved
  <2> QED
    BY <1>0, <2>1, <2>2, <2>4, LanesQuiet, PolicyStutters DEF IInv, Books
<1>4. CASE pc[r] = "unwindWork" /\ Leave(r)
  <2>1. Typed'
    BY <1>0, <1>2, <1>4, LeaveTyped DEF IInv, Typed, TypeOK, RatesOK
  <2>2. /\ WorkHolders' = WorkHolders \ {r}
        /\ SlotHolders' = SlotHolders /\ LaneOwners' = LaneOwners /\ Marked' = Marked
        /\ \A s \in LaneOwners : user'[s] = user[s]
    BY <1>4, LeaveHolders DEF IInv, SlotHolders, LaneOwners, Marked,
       SlotLabels, LaneLabels, MarkLabels
  <2>3. Cardinality(WorkHolders') = Cardinality(WorkHolders) - 1
    BY <1>1, <2>2, HoldersFinite, FS_RemoveElement
  <2>4. PermitsConserved'
    BY <1>0, <2>2, <2>3, HoldersFinite, AdmissionAssumption
       DEF IInv, Typed, TypeOK, Books, PermitsConserved
  <2> QED
    BY <1>0, <2>1, <2>2, <2>4, LanesQuiet, PolicyStutters DEF IInv, Books
<1> QED
  BY <1>0, <1>3, <1>4 DEF ReturnWork

LEMMA StepReturnRequest ==
  ASSUME IInv, NEW r \in Requests, DropRequest(r) \/ UnwindRequest(r)
  PROVE  IInv' /\ PolicyStep
<1>0. /\ pc[r] \in {"dropRequest", "unwindRequest"} /\ requestsFree' = requestsFree + 1
      /\ UNCHANGED <<workFree, activeUsers, contexts, processing, shutdown, rates>>
      /\ kind[r] \in AllKinds
  BY DEF IInv, Typed, TypeOK, DropRequest, UnwindRequest
<1>1. r \in SlotHolders
  BY <1>0 DEF SlotHolders, SlotLabels
<1>2. requestsFree' \in 0..MaxRequests
  BY <1>0, <1>1, HeldNotFree, AdmissionAssumption DEF IInv, Books, Typed, TypeOK
<1>3. /\ \/ Goto(r, "dropLane") /\ pc[r] = "dropRequest" /\ Exclusive(r)
         \/ Goto(r, "unwindWork") /\ pc[r] = "unwindRequest" /\ kind[r] = "guard"
         \/ Leave(r) /\ pc[r] = "dropRequest" /\ ~Exclusive(r)
         \/ Leave(r) /\ pc[r] = "unwindRequest" /\ kind[r] # "guard"
  BY DEF DropRequest, UnwindRequest, Rejected
<1>4. Typed'
  <2>1. CASE Goto(r, "dropLane") /\ Exclusive(r)
    BY <1>0, <1>2, <2>1, GotoTyped DEF IInv, Typed, TypeOK, RatesOK, Labels, Exclusive,
       WriteLabels, GuardLabels
  <2>2. CASE Goto(r, "unwindWork") /\ kind[r] = "guard"
    BY <1>0, <1>2, <2>2, GotoTyped DEF IInv, Typed, TypeOK, RatesOK, Labels, GuardLabels
  <2>3. CASE Leave(r)
    BY <1>0, <1>2, <2>3, LeaveTyped DEF IInv, Typed, TypeOK, RatesOK
  <2> QED
    BY <1>3, <2>1, <2>2, <2>3
<1>5. /\ SlotHolders' = SlotHolders \ {r}
      /\ WorkHolders' = WorkHolders /\ LaneOwners' = LaneOwners /\ Marked' = Marked
      /\ \A s \in LaneOwners : user'[s] = user[s]
  <2>1. CASE Goto(r, "dropLane") /\ pc[r] = "dropRequest" /\ Exclusive(r)
    BY <2>1, GotoHolders DEF IInv, WorkHolders, LaneOwners, Marked,
       SlotLabels, WorkLabels, LaneLabels, MarkLabels
  <2>2. CASE Goto(r, "unwindWork") /\ pc[r] = "unwindRequest" /\ kind[r] = "guard"
    BY <2>2, GotoHolders DEF IInv, WorkHolders, LaneOwners, Marked,
       SlotLabels, WorkLabels, LaneLabels, MarkLabels
  <2>3. CASE Leave(r) /\ pc[r] = "dropRequest" /\ ~Exclusive(r)
    BY <2>3, LeaveHolders DEF IInv, WorkHolders, LaneOwners, Marked, Exclusive
  <2>4. CASE Leave(r) /\ pc[r] = "unwindRequest" /\ kind[r] # "guard"
    BY <2>4, LeaveHolders DEF IInv, WorkHolders, LaneOwners, Marked, LaneLabels
  <2> QED
    BY <1>3, <2>1, <2>2, <2>3, <2>4
<1>6. Cardinality(SlotHolders') = Cardinality(SlotHolders) - 1
  BY <1>1, <1>5, HoldersFinite, FS_RemoveElement
<1>7. PermitsConserved'
  BY <1>0, <1>5, <1>6, HoldersFinite, AdmissionAssumption
     DEF IInv, Typed, TypeOK, Books, PermitsConserved
<1> QED
  BY <1>0, <1>1, <1>4, <1>5, <1>7, LanesQuiet, PolicyExits DEF IInv, Books
----------------------------------------------------------------------------
(* Lanes and flags.                                                        *)

LEMMA StepTakeLane ==
  ASSUME IInv, NEW r \in Requests, TakeLane(r)
  PROVE  IInv' /\ PolicyStep
<1> DEFINE label == IF kind[r] = "guard" THEN "mark" ELSE "running"
<1>0. /\ pc[r] = "lane" /\ Exclusive(r) /\ user[r] \in Users
      /\ UNCHANGED <<requestsFree, workFree, contexts, processing, shutdown, rates>>
  BY DEF IInv, Typed, TypeOK, Shape, AllKinds, TakeLane, Exclusive,
     ChartLabels, ReadLabels
<1>1. CASE UNCHANGED activeUsers /\ Goto(r, "unwindRequest")
  BY <1>0, <1>1, QuietMoves, MoveQuiet DEF IInv, Typed, TypeOK, RatesOK, books
<1>2. CASE /\ user[r] \notin activeUsers
           /\ activeUsers' = activeUsers \cup {user[r]} /\ Goto(r, label)
  <2>1. label \in {"mark", "running"} /\ (kind[r] = "guard" => label = "mark")
    OBVIOUS
  <2> HIDE DEF label
  <2>a. /\ label \in Labels
        /\ kind[r] \in {"write", "guard"}
        /\ kind[r] = "write" => label \in WriteLabels
        /\ kind[r] = "guard" => label \in GuardLabels
    <3>1. kind[r] = "write" => label = "running"
      BY DEF label
    <3> QED
      BY <1>0, <2>1, <3>1 DEF Labels, Exclusive, WriteLabels, GuardLabels
  <2>b. RatesOK' /\ activeUsers' \subseteq Users
    BY <1>0, <1>2 DEF IInv, Typed, TypeOK, RatesOK
  <2>2. Typed'
    BY <1>0, <1>2, <2>a, <2>b, GotoTyped DEF IInv, Typed, TypeOK
  <2>3. /\ LaneOwners' = LaneOwners \cup {r} /\ user' = user
        /\ SlotHolders' = SlotHolders /\ WorkHolders' = WorkHolders /\ Marked' = Marked
    BY <1>0, <1>2, <2>1, GotoHolders DEF IInv, SlotHolders, WorkHolders, LaneOwners, Marked,
       SlotLabels, WorkLabels, LaneLabels, MarkLabels
  <2>4. \A s \in LaneOwners : user[s] # user[r]
    BY <1>2 DEF IInv, Books, LanesTracked
  <2>5. LanesTracked'
    BY <1>2, <2>3 DEF IInv, Books, LanesTracked
  <2>6. SingleFlight'
    BY <2>3, <2>4 DEF IInv, Books, SingleFlight
  <2>7. PermitsConserved'
    BY <1>0, <2>3, PermitsQuiet DEF IInv, Books
  <2>8. ContextInUse'
    BY <1>0, <2>3 DEF IInv, Books, ContextInUse
  <2>9. r \in SlotHolders /\ r \notin LaneOwners
    BY <1>0 DEF SlotHolders, LaneOwners, SlotLabels, LaneLabels
  <2>10. PolicyStep
    BY <1>0, <2>3, <2>4, <2>9, PolicyOwns
  <2> QED
    BY <2>2, <2>5, <2>6, <2>7, <2>8, <2>10 DEF IInv, Books
<1> QED
  BY <1>1, <1>2 DEF TakeLane

LEMMA StepDropLane ==
  ASSUME IInv, NEW r \in Requests, DropLane(r)
  PROVE  IInv' /\ PolicyStep
<1>0. /\ pc[r] = "dropLane" /\ Exclusive(r) /\ Leave(r)
      /\ activeUsers' = activeUsers \ {user[r]}
      /\ UNCHANGED <<requestsFree, workFree, contexts, processing, shutdown, rates>>
  BY DEF IInv, Typed, TypeOK, Shape, AllKinds, DropLane, Exclusive, ChartLabels, ReadLabels
<1>1. Typed'
  BY <1>0, LeaveTyped DEF IInv, Typed, TypeOK, RatesOK
<1>2. r \in LaneOwners
  BY <1>0 DEF LaneOwners, LaneLabels
<1>3. /\ LaneOwners' = LaneOwners \ {r} /\ SlotHolders' = SlotHolders
      /\ WorkHolders' = WorkHolders /\ Marked' = Marked
      /\ \A s \in LaneOwners \ {r} : user'[s] = user[s]
  BY <1>0, LeaveHolders DEF IInv, SlotHolders, WorkHolders, LaneOwners, Marked,
     SlotLabels, WorkLabels, MarkLabels
<1>4. \A s \in LaneOwners \ {r} : user[s] # user[r]
  BY <1>2 DEF IInv, Books, SingleFlight
<1>5. LanesTracked'
  BY <1>0, <1>2, <1>3, <1>4 DEF IInv, Books, LanesTracked
<1>6. SingleFlight'
  BY <1>3 DEF IInv, Books, SingleFlight
<1>7. PermitsConserved'
  BY <1>0, <1>3, PermitsQuiet DEF IInv, Books
<1>8. r \notin Marked
  BY <1>0 DEF Marked, MarkLabels
<1>9. \A s \in Marked : user'[s] = user[s]
  BY <1>3, <1>8, MarkedOwnLanes
<1>10. ContextInUse'
  BY <1>0, <1>3, <1>9 DEF IInv, Books, ContextInUse
<1>11. r \notin SlotHolders /\ user[r] \in Users
  BY <1>0 DEF SlotHolders, SlotLabels, IInv, Typed, Shape, Exclusive
<1>12. PolicyStep
  BY <1>2, <1>3, <1>11, PolicyDisowns
<1> QED
  BY <1>1, <1>5, <1>6, <1>7, <1>10, <1>12 DEF IInv, Books

LEMMA StepMarkContext ==
  ASSUME IInv, NEW r \in Requests, MarkContext(r)
  PROVE  IInv' /\ PolicyStep
<1>0. /\ pc[r] = "mark" /\ kind[r] = "guard" /\ user[r] \in Users /\ Goto(r, "running")
      /\ contexts' = contexts \cup {user[r]} /\ processing' = processing \cup {user[r]}
      /\ UNCHANGED <<requestsFree, workFree, activeUsers, shutdown, rates>>
  BY DEF IInv, Typed, TypeOK, Shape, AllKinds, MarkContext,
     ChartLabels, ReadLabels, WriteLabels
<1>1. Typed'
  BY <1>0, GotoTyped DEF IInv, Typed, TypeOK, RatesOK, Labels, GuardLabels
<1>2. /\ LaneOwners' = LaneOwners /\ SlotHolders' = SlotHolders
      /\ WorkHolders' = WorkHolders /\ Marked' = Marked \cup {r} /\ user' = user
  BY <1>0, GotoHolders DEF IInv, SlotHolders, WorkHolders, LaneOwners, Exclusive,
     SlotLabels, WorkLabels, LaneLabels, MarkLabels
<1>3. PermitsConserved'
  BY <1>0, <1>2, PermitsQuiet DEF IInv, Books
<1>4. LanesTracked' /\ SingleFlight'
  BY <1>0, <1>2 DEF IInv, Books, LanesTracked, SingleFlight
<1>5. ContextInUse'
  BY <1>0, <1>2 DEF IInv, Books, ContextInUse
<1> QED
  BY <1>1, <1>2, <1>3, <1>4, <1>5, PolicyStutters DEF IInv, Books

LEMMA StepUnmark ==
  ASSUME IInv, NEW r \in Requests, Unmark(r)
  PROVE  IInv' /\ PolicyStep
<1>0. /\ pc[r] = "unmark" /\ kind[r] = "guard" /\ Goto(r, "dropWork")
      /\ processing' = processing \ {user[r]}
      /\ UNCHANGED <<requestsFree, workFree, activeUsers, contexts, shutdown, rates>>
  BY DEF IInv, Typed, TypeOK, Shape, AllKinds, Unmark, ChartLabels, ReadLabels, WriteLabels
<1>1. Typed'
  BY <1>0, GotoTyped DEF IInv, Typed, TypeOK, RatesOK, Labels, GuardLabels
<1>2. /\ LaneOwners' = LaneOwners /\ SlotHolders' = SlotHolders
      /\ WorkHolders' = WorkHolders /\ Marked' = Marked \ {r} /\ user' = user
  BY <1>0, GotoHolders DEF IInv, SlotHolders, WorkHolders, LaneOwners, Exclusive,
     SlotLabels, WorkLabels, LaneLabels, MarkLabels
<1>3. PermitsConserved'
  BY <1>0, <1>2, PermitsQuiet DEF IInv, Books
<1>4. LanesTracked' /\ SingleFlight'
  BY <1>0, <1>2 DEF IInv, Books, LanesTracked, SingleFlight
<1>5. r \in Marked
  BY <1>0 DEF Marked, MarkLabels
<1>6. \A s \in Marked \ {r} : user[s] # user[r]
  BY <1>5, MarkedOwnLanes DEF IInv, Books, SingleFlight
<1>7. ContextInUse'
  BY <1>0, <1>2, <1>5, <1>6 DEF IInv, Books, ContextInUse
<1> QED
  BY <1>1, <1>2, <1>3, <1>4, <1>7, PolicyStutters DEF IInv, Books

LEMMA SameLocals ==
  ASSUME Typed, UNCHANGED local
  PROVE  /\ SlotHolders' = SlotHolders /\ WorkHolders' = WorkHolders
         /\ LaneOwners' = LaneOwners /\ Marked' = Marked /\ user' = user
  BY DEF local, SlotHolders, WorkHolders, LaneOwners, Marked, Exclusive

LEMMA StepContexts ==
  ASSUME IInv,
         \/ \E r \in Requests : TouchContext(r)
         \/ \E u \in Users : ExpireContext(u)
  PROVE  IInv' /\ PolicyStep
<1>1. /\ UNCHANGED <<local, requestsFree, workFree, activeUsers, processing, shutdown, rates>>
      /\ contexts' \subseteq Users /\ processing \subseteq contexts'
  BY DEF TouchContext, ExpireContext, IInv, Typed, TypeOK, Shape, Books, ContextInUse
<1>2. Typed'
  BY <1>1 DEF IInv, Typed, TypeOK, Shape, RatesOK, local
<1>3. PolicyStep
  BY <1>1, SameLocals, PolicyStutters DEF IInv
<1>4. Books'
  BY <1>1, SameLocals, BooksQuiet DEF IInv
<1> QED
  BY <1>2, <1>3, <1>4 DEF IInv

LEMMA StepEnvironment ==
  ASSUME IInv, Cancel \/ Tick
  PROVE  IInv' /\ PolicyStep
<1>1. /\ UNCHANGED <<local, requestsFree, workFree, activeUsers, contexts, processing>>
      /\ RatesOK' /\ shutdown' \in BOOLEAN
  BY OlderType DEF Cancel, Tick, IInv, Typed, TypeOK, RatesOK
<1>2. Typed'
  BY <1>1 DEF IInv, Typed, TypeOK, Shape, local
<1>3. PolicyStep
  BY <1>1, SameLocals, PolicyStutters DEF IInv
<1>4. Books'
  BY <1>1, SameLocals, BooksQuiet DEF IInv, Books, ContextInUse
<1> QED
  BY <1>2, <1>3, <1>4 DEF IInv

LEMMA StepStutter ==
  ASSUME IInv, UNCHANGED vars
  PROVE  IInv' /\ PolicyStep
<1>1. Typed'
  BY DEF IInv, Typed, TypeOK, Shape, RatesOK, vars, local, shared
<1>2. PolicyStep
  BY SameLocals, PolicyStutters DEF IInv, vars
<1>3. Books'
  BY SameLocals, BooksQuiet DEF IInv, Books, ContextInUse, vars, shared
<1> QED
  BY <1>1, <1>2, <1>3 DEF IInv

----------------------------------------------------------------------------
(* The theorems.                                                           *)

LEMMA InitIInv == Init => IInv
<1> SUFFICES ASSUME Init PROVE IInv
  OBVIOUS
<1>1. /\ SlotHolders = {} /\ WorkHolders = {} /\ LaneOwners = {} /\ Marked = {}
  BY DEF Init, SlotHolders, WorkHolders, LaneOwners, Marked, Exclusive,
     SlotLabels, WorkLabels, LaneLabels, MarkLabels
<1>2. Cardinality({}) = 0
  BY FS_EmptySet
<1>3. PermitsConserved
  BY <1>1, <1>2, AdmissionAssumption DEF Init, PermitsConserved
<1>4. LanesTracked /\ SingleFlight /\ ContextInUse
  BY <1>1 DEF Init, LanesTracked, SingleFlight, ContextInUse
<1> QED
  BY <1>3, <1>4, InitTyped DEF IInv, Books

LEMMA NextIInv == IInv /\ [Next]_vars => IInv' /\ PolicyStep
<1> SUFFICES ASSUME IInv, [Next]_vars PROVE IInv' /\ PolicyStep
  OBVIOUS
<1>1. ASSUME NEW r \in Requests, Begin(r) PROVE IInv' /\ PolicyStep
  BY <1>1, StepArrive
<1>2. ASSUME NEW r \in Requests, Proceed(r) \/ StartStream(r) PROVE IInv' /\ PolicyStep
  BY <1>2, StepMove, StepTakeWork, StepTakeRequest, StepReturnWork, StepReturnRequest,
     StepTakeLane, StepDropLane, StepMarkContext, StepUnmark DEF Proceed
<1>3. ASSUME NEW r \in Requests, TouchContext(r) PROVE IInv' /\ PolicyStep
  BY <1>3, StepContexts
<1>4. ASSUME NEW u \in Users, ExpireContext(u) PROVE IInv' /\ PolicyStep
  BY <1>4, StepContexts
<1>5. CASE Cancel \/ Tick
  BY <1>5, StepEnvironment
<1>6. CASE UNCHANGED vars
  BY <1>6, StepStutter
<1> QED
  BY <1>1, <1>2, <1>3, <1>4, <1>5, <1>6 DEF Next

(* The invariant of the proof: types, label shapes and all accounts.       *)
THEOREM Invariance == Spec => []IInv
  BY InitIInv, NextIInv, PTL DEF Spec

(* Every variable keeps its type.                                          *)
THEOREM TypeCorrect == Spec => []TypeOK
<1>1. IInv => TypeOK
  BY DEF IInv, Typed
<1> QED
  BY <1>1, Invariance, PTL

(* Permits of both semaphores are conserved on every path.                 *)
THEOREM PermitsAreConserved == Spec => []PermitsConserved
<1>1. IInv => PermitsConserved
  BY DEF IInv, Books
<1> QED
  BY <1>1, Invariance, PTL

(* active_users is exact.                                                  *)
THEOREM LanesAreTracked == Spec => []LanesTracked
<1>1. IInv => LanesTracked
  BY DEF IInv, Books
<1> QED
  BY <1>1, Invariance, PTL

(* One exclusive turn per user, for any number of callers.                 *)
THEOREM SingleFlightHolds == Spec => []SingleFlight
<1>1. IInv => SingleFlight
  BY DEF IInv, Books
<1> QED
  BY <1>1, Invariance, PTL

(* A context at work is marked and is never removed.                       *)
THEOREM ContextsInUseKept == Spec => []ContextInUse
<1>1. IInv => ContextInUse
  BY DEF IInv, Books
<1> QED
  BY <1>1, Invariance, PTL

LEMMA InitPolicy == Init => Policy!Init
<1> SUFFICES ASSUME Init PROVE Policy!Init
  OBVIOUS
<1>1. SlotHolders = {} /\ LaneOwners = {}
  BY DEF Init, SlotHolders, LaneOwners, Exclusive, SlotLabels, LaneLabels
<1> QED
  BY <1>1 DEF Policy!Init

(* Admission implements AdmissionPolicy: bounded slots, exclusive lanes,   *)
(* and a lane that outlives its slot.                                      *)
THEOREM ImplementsPolicy == Spec => PolicySpec
<1>1. IInv /\ [Next]_vars => [Policy!Next]_(Policy!vars)
  BY NextIInv DEF PolicyStep
<1> QED
  BY <1>1, InitPolicy, Invariance, PTL DEF Spec, PolicySpec, Policy!Spec

----------------------------------------------------------------------------
(* The rate limiter: how far the table can be overrun                      *)

Active == {c \in Callers : pending[c] # Idle}
OnTheWay == {pending[c].user : c \in Active}

(* A union has at most as many elements as its parts together.             *)
LEMMA UnionBound ==
  ASSUME NEW S, NEW T, IsFiniteSet(S), IsFiniteSet(T)
  PROVE  /\ IsFiniteSet(S \cup T)
         /\ Cardinality(S \cup T) <= Cardinality(S) + Cardinality(T)
<1> DEFINE m == Cardinality(S)
           n == Cardinality(T)
<1>1. m \in Nat /\ n \in Nat
  BY FS_CardinalityType
<1>2. PICK f : f \in Bijection(1..m, S)
  BY FS_CardinalityType DEF ExistsBijection
<1>3. PICK g : g \in Bijection(1..n, T)
  BY FS_CardinalityType DEF ExistsBijection
<1> DEFINE h == [i \in 1..(m + n) |-> IF i <= m THEN f[i] ELSE g[i - m]]
<1>4. /\ f \in [1..m -> S] /\ \A s \in S : \E i \in 1..m : f[i] = s
      /\ g \in [1..n -> T] /\ \A t \in T : \E i \in 1..n : g[i] = t
  BY <1>2, <1>3 DEF Bijection, Injection, Surjection
<1> HIDE DEF m, n
<1>5. h \in [1..(m + n) -> S \cup T]
  <2>1. ASSUME NEW i \in 1..(m + n) PROVE h[i] \in S \cup T
    <3>1. CASE i <= m
      BY <1>1, <1>4, <3>1
    <3>2. CASE ~(i <= m)
      <4>1. i - m \in 1..n
        BY <1>1, <3>2
      <4> QED
        BY <1>4, <3>2, <4>1
    <3> QED
      BY <3>1, <3>2
  <2> QED
    BY <2>1
<1>6. ASSUME NEW x \in S \cup T PROVE \E i \in 1..(m + n) : h[i] = x
  <2>1. CASE x \in S
    <3>1. PICK i \in 1..m : f[i] = x
      BY <1>4, <2>1
    <3>2. i \in 1..(m + n) /\ i <= m
      BY <1>1
    <3> QED
      BY <3>1, <3>2
  <2>2. CASE x \in T
    <3>1. PICK j \in 1..n : g[j] = x
      BY <1>4, <2>2
    <3>2. j + m \in 1..(m + n) /\ ~(j + m <= m) /\ (j + m) - m = j
      BY <1>1
    <3> QED
      BY <3>1, <3>2
  <2> QED
    BY <2>1, <2>2
<1>7. h \in Surjection(1..(m + n), S \cup T)
  BY <1>5, <1>6 DEF Surjection
<1> HIDE DEF h
<1>8. IsFiniteSet(1..(m + n)) /\ m + n \in Nat
  BY <1>1, FS_Interval
<1> QED
  BY <1>7, <1>8, FS_Surjection, FS_SurjCardinalityBound DEF m, n, ExistsSurjection

(* At most one user per caller is on its way into the table.               *)
LEMMA OnTheWayBound ==
  ASSUME NEW p, NEW A \in SUBSET Callers
  PROVE  /\ IsFiniteSet({p[c].user : c \in A})
         /\ Cardinality({p[c].user : c \in A}) \in Nat
         /\ Cardinality({p[c].user : c \in A}) <= Cardinality(Callers)
<1> DEFINE T == {p[c].user : c \in A}
           f == [c \in A |-> p[c].user]
<1>1. f \in Surjection(A, T)
  BY DEF Surjection
<1>2. IsFiniteSet(A) /\ Cardinality(A) <= Cardinality(Callers)
  BY LimiterAssumption, FS_Subset
<1> HIDE DEF f
<1>3. IsFiniteSet(T) /\ Cardinality(T) <= Cardinality(A)
  BY <1>1, <1>2, FS_Surjection
<1> HIDE DEF T
<1>4. /\ Cardinality(T) \in Nat /\ Cardinality(A) \in Nat
      /\ Cardinality(Callers) \in Nat
  BY <1>2, <1>3, LimiterAssumption, FS_CardinalityType
<1>5. IsFiniteSet(T) /\ Cardinality(T) \in Nat /\ Cardinality(T) <= Cardinality(Callers)
  BY <1>2, <1>3, <1>4
<1> QED
  BY <1>5 DEF T

----------------------------------------------------------------------------

LInv == /\ RatesOK
        /\ pending \in [Callers -> Calls \cup {Idle}]
        /\ KnownBounded

Bound == RateCapacity + Cardinality(Callers) - 1

LEMMA BoundType == Bound \in Nat /\ Cardinality(Callers) \in Nat \ {0}
  BY LimiterAssumption, RateAssumption, FS_CardinalityType, FS_EmptySet DEF Bound

LEMMA KnownIsUnion == Known = DOMAIN rates \cup OnTheWay
  BY DEF Known, OnTheWay, Active

LEMMA KnownFinite ==
  ASSUME RatesOK
  PROVE  /\ IsFiniteSet(DOMAIN rates) /\ Cardinality(DOMAIN rates) \in Nat
         /\ IsFiniteSet(Known) /\ Cardinality(Known) \in Nat
<1>1. IsFiniteSet(DOMAIN rates)
  BY RateAssumption, FS_Subset DEF RatesOK
<1>2. IsFiniteSet(OnTheWay)
  BY OnTheWayBound DEF OnTheWay, Active
<1> QED
  BY <1>1, <1>2, KnownIsUnion, UnionBound, FS_CardinalityType

(* A step that makes no user known keeps the bound.                        *)
LEMMA KnownShrinks ==
  ASSUME LInv, Known' \subseteq Known
  PROVE  KnownBounded'
<1>1. /\ Cardinality(Known') <= Cardinality(Known) /\ Cardinality(Known) \in Nat
      /\ Cardinality(Known') \in Nat
  BY KnownFinite, FS_Subset, FS_CardinalityType DEF LInv
<1> QED
  BY <1>1, BoundType DEF LInv, KnownBounded, Bound

LEMMA InitLInv == LimiterInit => LInv
<1> SUFFICES ASSUME LimiterInit PROVE LInv
  OBVIOUS
<1>1. RatesOK
  BY NoRatesType DEF LimiterInit
<1>2. pending \in [Callers -> Calls \cup {Idle}]
  BY DEF LimiterInit
<1>3. Known = {}
  BY DEF LimiterInit, Known, NoRates
<1>4. KnownBounded
  BY <1>3, FS_EmptySet, BoundType DEF KnownBounded, Bound
<1> QED
  BY <1>1, <1>2, <1>4 DEF LInv

LEMMA StepScan ==
  ASSUME LInv, NEW c \in Callers, NEW u \in Users, NEW limit \in LimitOf[u],
         Scan(c, u, limit)
  PROVE  LInv'
<1>1. RatesOK' /\ DOMAIN rates' \subseteq DOMAIN rates /\ rates' = Purged
  BY PurgeType DEF LInv, Scan
<1>2. pending' \in [Callers -> Calls \cup {Idle}]
  <2>1. [user |-> u, limit |-> limit] \in Calls
    BY DEF Calls
  <2> QED
    BY <2>1 DEF LInv, Scan
<1>3. CASE ~HasRoom(u)
  <2>1. Known' \subseteq Known
    BY <1>1, <1>3 DEF Scan, Known
  <2> QED
    BY <1>1, <1>2, <2>1, KnownShrinks DEF LInv
<1>4. CASE u \in DOMAIN Purged
  <2>1. ASSUME NEW d \in Callers, pending'[d] # Idle
        PROVE  pending'[d].user \in Known
    <3>1. CASE d = c
      BY <1>1, <1>4, <3>1 DEF LInv, Scan, HasRoom, Known
    <3>2. CASE d # c
      BY <2>1, <3>2 DEF LInv, Scan, Known
    <3> QED
      BY <3>1, <3>2
  <2>2. Known' \subseteq Known
    BY <1>1, <2>1 DEF Known
  <2> QED
    BY <1>1, <1>2, <2>2, KnownShrinks DEF LInv
<1>5. CASE Cardinality(DOMAIN Purged) < RateCapacity
  <2>1. /\ IsFiniteSet(DOMAIN rates') /\ Cardinality(DOMAIN rates') \in Nat
        /\ Cardinality(DOMAIN rates') < RateCapacity
    BY <1>1, <1>5, KnownFinite, FS_Subset, FS_CardinalityType DEF LInv
  <2>2. /\ IsFiniteSet(OnTheWay') /\ Cardinality(OnTheWay') \in Nat
        /\ Cardinality(OnTheWay') <= Cardinality(Callers)
    BY OnTheWayBound DEF OnTheWay, Active
  <2>3. Known' = DOMAIN rates' \cup OnTheWay'
    BY KnownIsUnion DEF Known, OnTheWay, Active
  <2>4. /\ Cardinality(Known') <= Cardinality(DOMAIN rates') + Cardinality(OnTheWay')
        /\ Cardinality(Known') \in Nat
    BY <2>1, <2>2, <2>3, UnionBound, FS_CardinalityType
  <2>5. KnownBounded'
    BY <2>1, <2>2, <2>4, BoundType, RateAssumption DEF KnownBounded
  <2> QED
    BY <1>1, <1>2, <2>5 DEF LInv
<1> QED
  BY <1>3, <1>4, <1>5 DEF HasRoom

LEMMA StepCharge ==
  ASSUME LInv, NEW c \in Callers, Charge(c)
  PROVE  LInv'
<1>1. pending[c] \in Calls /\ pending[c].user \in Users /\ pending[c] # Idle
  BY DEF LInv, Charge, Calls
<1>2. RatesOK' /\ DOMAIN rates' = DOMAIN rates \cup {pending[c].user}
  BY <1>1, ChargeType DEF LInv, Charge
<1>3. pending' = [pending EXCEPT ![c] = Idle]
  BY DEF Charge
<1>4. pending' \in [Callers -> Calls \cup {Idle}]
  BY <1>3 DEF LInv
<1>5. \A d \in Callers : pending'[d] # Idle => pending'[d] = pending[d]
  BY <1>3 DEF LInv
<1>6. Known' \subseteq Known
  BY <1>1, <1>2, <1>5 DEF Known
<1> QED
  BY <1>2, <1>4, <1>6, KnownShrinks DEF LInv

LEMMA StepTick ==
  ASSUME LInv, LimiterTick
  PROVE  LInv'
<1>1. RatesOK' /\ DOMAIN rates' = DOMAIN rates /\ pending' = pending
  BY OlderType DEF LInv, LimiterTick
<1>2. Known' = Known
  BY <1>1 DEF Known
<1> QED
  BY <1>1, <1>2, KnownShrinks DEF LInv

LEMMA NextLInv == LInv /\ [LimiterNext]_limiterVars => LInv'
<1> SUFFICES ASSUME LInv, [LimiterNext]_limiterVars PROVE LInv'
  OBVIOUS
<1>1. CASE UNCHANGED limiterVars
  BY <1>1, KnownShrinks DEF LInv, limiterVars, RatesOK, Known
<1> QED
  BY <1>1, StepScan, StepCharge, StepTick DEF LimiterNext

(* The table, and the calls on their way into it, never exceed capacity by *)
(* more than the callers racing for the last slot.                         *)
THEOREM TableBounded == LimiterSpec => []KnownBounded
<1>1. LInv => KnownBounded
  BY DEF LInv
<1> QED
  BY <1>1, InitLInv, NextLInv, PTL DEF LimiterSpec

(* The unlocked size check of allow_at lets the table grow past            *)
(* RATE_LIMIT_CAPACITY by fewer entries than there are callers.            *)
THEOREM OverrunIsBounded == LimiterSpec => []OverrunBounded
<1>1. LInv => OverrunBounded
  <2> SUFFICES ASSUME LInv PROVE OverrunBounded
    OBVIOUS
  <2>1. DOMAIN rates \subseteq Known
    BY DEF Known
  <2>2. Cardinality(DOMAIN rates) <= Cardinality(Known)
    BY <2>1, KnownFinite, FS_Subset DEF LInv
  <2> QED
    BY <2>2, KnownFinite, BoundType DEF LInv, KnownBounded, OverrunBounded, Bound
<1> QED
  BY <1>1, InitLInv, NextLInv, PTL DEF LimiterSpec
----------------------------------------------------------------------------
(* Bursts                                                                  *)

LEMMA LimitType ==
  ASSUME NEW u \in Users
  PROVE  MaxLimit(u) \in Nat /\ \A l \in LimitOf[u] : l <= MaxLimit(u)
<1>1. \E l \in LimitOf[u] : \A m \in LimitOf[u] : m <= l
  BY LimiterAssumption
<1>2. MaxLimit(u) \in LimitOf[u] /\ \A l \in LimitOf[u] : l <= MaxLimit(u)
  BY <1>1 DEF MaxLimit
<1> QED
  BY <1>2, LimiterAssumption

RecentOK == /\ DOMAIN recent = Users
            /\ \A u \in Users : recent[u] \in [Grants(u) -> 0..Window]

\* The grants of u against a window of this age in which count were made.
Matches(u, age, count) ==
  /\ count <= MaxLimit(u)
  /\ \A i \in Grants(u) :
       /\ i > count => recent[u][i] > age \/ recent[u][i] = Window
       /\ i > count + MaxLimit(u) => recent[u][i] = Window

\* A window that is over was charged for the last time before this tick.
Settled(u) == \A i \in Grants(u) : recent[u][i] # 0

Fits(u) ==
  IF u \in DOMAIN rates
  THEN /\ Matches(u, rates[u].age, rates[u].count)
       /\ Expired(u) => Settled(u)
  ELSE Settled(u) /\ Matches(u, 0, 0)

BInv == /\ RatesOK
        /\ pending \in [Callers -> Calls \cup {Idle}]
        /\ RecentOK
        /\ \A u \in Users : Fits(u)

(* A window that is over may be replaced by a new one, or forgotten.       *)
LEMMA ExpiredFits ==
  ASSUME RatesOK, RecentOK, NEW u \in Users, Fits(u), u \in DOMAIN rates, Expired(u)
  PROVE  Settled(u) /\ Matches(u, 0, 0)
<1>1. /\ Settled(u) /\ rates[u].age = Window /\ rates[u].count \in Nat
      /\ Matches(u, Window, rates[u].count)
  BY DEF Fits, Expired, RatesOK, RateEntry
<1>2. recent[u] \in [Grants(u) -> 0..Window] /\ MaxLimit(u) \in Nat
  BY LimitType DEF RecentOK
<1>3. \A i \in Grants(u) : recent[u][i] > 0 /\ recent[u][i] \in 0..Window
  <2> TAKE i \in Grants(u)
  <2>1. recent[u][i] \in 0..Window
    BY <1>2
  <2> QED
    BY <1>1, <2>1, RateAssumption DEF Settled
<1>4. \A i \in Grants(u) : i > MaxLimit(u) => recent[u][i] = Window
  <2> TAKE i \in Grants(u)
  <2> HAVE i > MaxLimit(u)
  <2>1. i \in Nat /\ rates[u].count <= MaxLimit(u)
    BY <1>1, <1>2 DEF Matches, Grants
  <2>2. i > rates[u].count
    BY <2>1, <1>1, <1>2
  <2>3. recent[u][i] > Window \/ recent[u][i] = Window
    BY <2>2, <1>1 DEF Matches
  <2>4. recent[u][i] \in 0..Window
    BY <1>3
  <2> QED
    BY <2>3, <2>4, RateAssumption
<1> QED
  BY <1>1, <1>2, <1>3, <1>4 DEF Matches

(* So a call finds its user's grants in keeping with the window it is      *)
(* charged to.                                                             *)
LEMMA CurrentFits ==
  ASSUME RatesOK, RecentOK, NEW u \in Users, Fits(u)
  PROVE  /\ CurrentWindow(u) \in RateEntry /\ CurrentWindow(u).age # Window
         /\ Matches(u, CurrentWindow(u).age, CurrentWindow(u).count)
<1>1. CurrentWindow(u) \in RateEntry
  BY CurrentWindowType
<1>2. CASE u \in DOMAIN rates /\ ~Expired(u)
  <2>1. CurrentWindow(u) = rates[u]
    BY <1>2 DEF CurrentWindow
  <2> QED
    BY <1>1, <1>2, <2>1 DEF Fits, Expired
<1>3. CASE ~(u \in DOMAIN rates /\ ~Expired(u))
  <2>1. CurrentWindow(u) = [age |-> 0, count |-> 0]
    BY <1>3 DEF CurrentWindow
  <2>2. Matches(u, 0, 0)
    BY <1>3, ExpiredFits DEF Fits
  <2> QED
    BY <1>1, <2>1, <2>2, RateAssumption
<1> QED
  BY <1>2, <1>3

LEMMA InitBInv == LimiterInit => BInv
<1> SUFFICES ASSUME LimiterInit PROVE BInv
  OBVIOUS
<1>1. RatesOK /\ pending \in [Callers -> Calls \cup {Idle}]
  BY NoRatesType DEF LimiterInit
<1>2. RecentOK
  BY RateAssumption DEF LimiterInit, RecentOK
<1>3. ASSUME NEW u \in Users PROVE Fits(u)
  <2>1. u \notin DOMAIN rates /\ \A i \in Grants(u) : recent[u][i] = Window
    BY DEF LimiterInit, NoRates
  <2> QED
    BY <2>1, LimitType, RateAssumption DEF Fits, Settled, Matches
<1> QED
  BY <1>1, <1>2, <1>3 DEF BInv

LEMMA ScanBurst ==
  ASSUME BInv, NEW c \in Callers, NEW u \in Users, NEW limit \in LimitOf[u],
         Scan(c, u, limit)
  PROVE  BInv'
<1>1. RatesOK' /\ rates' = Purged /\ recent' = recent
  BY PurgeType DEF BInv, Scan
<1>2. pending' \in [Callers -> Calls \cup {Idle}]
  <2>1. [user |-> u, limit |-> limit] \in Calls
    BY DEF Calls
  <2> QED
    BY <2>1 DEF BInv, Scan
<1>3. RecentOK'
  BY <1>1 DEF BInv, RecentOK, Grants, MaxLimit
<1>4. ASSUME NEW v \in Users PROVE Fits(v)'
  <2>1. Settled(v)' = Settled(v) /\ \A a, n : Matches(v, a, n)' = Matches(v, a, n)
    BY <1>1 DEF Settled, Matches
  <2>2. CASE v \in DOMAIN rates'
    <3>1. v \in DOMAIN rates /\ rates'[v] = rates[v]
      BY <1>1, <2>2 DEF Purged
    <3> QED
      BY <1>1, <2>2, <3>1 DEF BInv, Fits, Expired, Settled, Matches
  <2>3. CASE v \notin DOMAIN rates'
    <3>1. v \notin DOMAIN rates \/ (v \in DOMAIN rates /\ Expired(v))
      BY <1>1, <2>3 DEF Purged
    <3>2. Settled(v) /\ Matches(v, 0, 0)
      BY <3>1, ExpiredFits DEF BInv, Fits
    <3> QED
      BY <1>1, <2>3, <3>2 DEF Fits, Settled, Matches
  <2> QED
    BY <2>2, <2>3
<1> QED
  BY <1>1, <1>2, <1>3, <1>4 DEF BInv

LEMMA ChargeBurst ==
  ASSUME BInv, NEW c \in Callers, Charge(c)
  PROVE  BInv'
<1>a. PICK u : u = pending[c].user
  OBVIOUS
<1>b. PICK w : w = CurrentWindow(u)
  OBVIOUS
<1>1. u \in Users /\ pending[c].limit \in LimitOf[u]
  BY <1>a DEF BInv, Charge, Calls
<1>2. /\ w \in RateEntry /\ w.age # Window /\ Matches(u, w.age, w.count)
      /\ MaxLimit(u) \in Nat /\ \A l \in LimitOf[u] : l <= MaxLimit(u) /\ l \in Nat
      /\ recent[u] \in [Grants(u) -> 0..Window]
  BY <1>b, <1>1, CurrentFits, LimitType, LimiterAssumption DEF BInv, RecentOK
<1>3. pending' \in [Callers -> Calls \cup {Idle}]
  BY DEF BInv, Charge
<1>4. RatesOK' /\ DOMAIN rates' = DOMAIN rates \cup {u}
  BY <1>a, <1>1, ChargeType DEF BInv, Charge
<1>5. CASE WithinLimit(u, pending[c].limit) /\ Grant(u)
           /\ recent' = [recent EXCEPT ![u] =
                           [i \in Grants(u) |-> IF i = 1 THEN 0 ELSE @[i - 1]]]
  <2>1. /\ \A v \in Users \ {u} : recent'[v] = recent[v]
        /\ DOMAIN recent' = Users
        /\ recent'[u] = [i \in Grants(u) |-> IF i = 1 THEN 0 ELSE recent[u][i - 1]]
    BY <1>1, <1>5 DEF BInv, RecentOK
  <2>2. /\ rates'[u] = [w EXCEPT !.count = @ + 1]
        /\ \A v \in DOMAIN rates \ {u} : rates'[v] = rates[v]
    BY <1>b, <1>5 DEF Grant, SetEntry
  <2>3. \A i \in Grants(u) : i \in Nat /\ (i # 1 => i - 1 \in Grants(u))
    BY <1>2 DEF Grants
  <2>4. recent'[u] \in [Grants(u) -> 0..Window]
    BY <1>2, <2>1, <2>3, RateAssumption
  <2>5. w.count + 1 <= MaxLimit(u) /\ w.count \in Nat /\ w.age \in 0..Window
    BY <1>b, <1>1, <1>2, <1>5 DEF WithinLimit, RateEntry
  <2>6. ASSUME NEW i \in Grants(u)
        PROVE  /\ i > w.count + 1 => recent'[u][i] > w.age \/ recent'[u][i] = Window
               /\ i > w.count + 1 + MaxLimit(u) => recent'[u][i] = Window
    <3>1. CASE i = 1
      BY <1>2, <2>5, <3>1
    <3>2. CASE i # 1
      <4>1. i - 1 \in Grants(u) /\ i \in Nat /\ recent'[u][i] = recent[u][i - 1]
        BY <2>1, <2>3, <3>2
      <4> QED
        BY <1>2, <2>5, <4>1 DEF Matches
    <3> QED
      BY <3>1, <3>2
  <2>7. RecentOK'
    BY <2>1, <2>4 DEF BInv, RecentOK, Grants, MaxLimit
  <2>8. Fits(u)'
    <3>1. rates'[u].age = w.age /\ rates'[u].count = w.count + 1 /\ u \in DOMAIN rates'
      BY <1>2, <1>4, <2>2 DEF RateEntry
    <3>2. Matches(u, w.age, w.count + 1)'
      BY <2>5, <2>6 DEF Matches, Grants, MaxLimit
    <3>3. ~Expired(u)'
      BY <1>2, <3>1 DEF Expired
    <3> QED
      BY <3>1, <3>2, <3>3 DEF Fits, Matches
  <2>9. ASSUME NEW v \in Users \ {u} PROVE Fits(v)'
    <3>1. /\ recent'[v] = recent[v] /\ (v \in DOMAIN rates' <=> v \in DOMAIN rates)
          /\ v \in DOMAIN rates => rates'[v] = rates[v]
      BY <1>4, <2>1, <2>2
    <3>2. Fits(v)
      BY DEF BInv
    <3> QED
      BY <3>1, <3>2 DEF Fits, Expired, Settled, Matches, Grants, MaxLimit
  <2> QED
    BY <1>3, <1>4, <2>7, <2>8, <2>9 DEF BInv
<1>6. CASE Refuse(u) /\ recent' = recent
  <2>1. /\ rates'[u] = w /\ u \in DOMAIN rates'
        /\ \A v \in DOMAIN rates \ {u} : rates'[v] = rates[v]
    BY <1>b, <1>6 DEF Refuse, SetEntry
  <2>2. RecentOK'
    BY <1>6 DEF BInv, RecentOK, Grants, MaxLimit
  <2>3. Fits(u)'
    BY <1>2, <1>6, <2>1 DEF Fits, Expired, Matches, Grants, MaxLimit
  <2>4. ASSUME NEW v \in Users \ {u} PROVE Fits(v)'
    <3>1. /\ (v \in DOMAIN rates' <=> v \in DOMAIN rates)
          /\ v \in DOMAIN rates => rates'[v] = rates[v]
      BY <1>4, <2>1
    <3> QED
      BY <1>6, <3>1 DEF BInv, Fits, Expired, Settled, Matches, Grants, MaxLimit
  <2> QED
    BY <1>3, <1>4, <2>2, <2>3, <2>4 DEF BInv
<1> QED
  BY <1>a, <1>5, <1>6 DEF Charge, RecordGrant

LEMMA TickBurst ==
  ASSUME BInv, LimiterTick
  PROVE  BInv'
<1>1. RatesOK' /\ DOMAIN rates' = DOMAIN rates /\ pending' = pending
  BY OlderType DEF BInv, LimiterTick
<1>2. /\ DOMAIN recent' = Users
      /\ \A u \in Users : recent'[u] = [i \in Grants(u) |->
           IF recent[u][i] < Window THEN recent[u][i] + 1 ELSE Window]
  BY DEF LimiterTick, RecordTick
<1>3. \A u \in Users : \A i \in Grants(u) :
        /\ recent[u][i] \in 0..Window
        /\ recent'[u][i] = IF recent[u][i] < Window THEN recent[u][i] + 1 ELSE Window
  BY <1>2 DEF BInv, RecentOK
<1>4. \A u \in Users : recent'[u] \in [Grants(u) -> 0..Window]
  BY <1>2, <1>3, RateAssumption
<1>5. RecentOK'
  BY <1>2, <1>4 DEF RecentOK, Grants, MaxLimit
<1>6. ASSUME NEW u \in Users PROVE Fits(u)'
  <2>1. Settled(u)'
    <3>1. \A i \in Grants(u) : recent'[u][i] # 0
      BY <1>3, RateAssumption
    <3> QED
      BY <3>1 DEF Settled, Grants, MaxLimit
  <2>2. CASE u \in DOMAIN rates
    <3>1. /\ rates'[u].age = (IF rates[u].age < Window THEN rates[u].age + 1 ELSE rates[u].age)
          /\ rates'[u].count = rates[u].count
          /\ rates[u].age \in 0..Window /\ rates[u].count \in Nat
      BY <2>2 DEF BInv, RatesOK, RateEntry, LimiterTick, Older
    <3>2. Matches(u, rates[u].age, rates[u].count) /\ MaxLimit(u) \in Nat
      BY <2>2, LimitType DEF BInv, Fits
    <3>3. \A i \in Grants(u) :
            /\ i > rates'[u].count => recent'[u][i] > rates'[u].age \/ recent'[u][i] = Window
            /\ i > rates'[u].count + MaxLimit(u) => recent'[u][i] = Window
      BY <1>3, <3>1, <3>2, RateAssumption DEF Matches
    <3>4. Matches(u, rates[u].age, rates[u].count)'
      BY <3>1, <3>2, <3>3 DEF Matches, Grants, MaxLimit
    <3> QED
      BY <1>1, <2>1, <2>2, <3>4 DEF Fits
  <2>3. CASE u \notin DOMAIN rates
    <3>1. Matches(u, 0, 0) /\ MaxLimit(u) \in Nat
      BY <2>3, LimitType DEF BInv, Fits
    <3>2. \A i \in Grants(u) :
            /\ recent'[u][i] > 0
            /\ i > 0 + MaxLimit(u) => recent'[u][i] = Window
      BY <1>3, <3>1, RateAssumption DEF Matches
    <3>3. Matches(u, 0, 0)'
      BY <3>1, <3>2 DEF Matches, Grants, MaxLimit
    <3> QED
      BY <1>1, <2>1, <2>3, <3>3 DEF Fits
  <2> QED
    BY <2>2, <2>3
<1> QED
  BY <1>1, <1>5, <1>6 DEF BInv

LEMMA NextBInv == BInv /\ [LimiterNext]_limiterVars => BInv'
<1> SUFFICES ASSUME BInv, [LimiterNext]_limiterVars PROVE BInv'
  OBVIOUS
<1>1. CASE UNCHANGED limiterVars
  BY <1>1 DEF BInv, limiterVars, RatesOK, RecentOK, Fits, Expired, Settled, Matches, Grants, MaxLimit
<1> QED
  BY <1>1, ScanBurst, ChargeBurst, TickBurst DEF LimiterNext

(* The table, the calls on their way and the history are well formed.      *)
THEOREM LimiterTypesCorrect == LimiterSpec => []LimiterTypeOK
<1>1. BInv => LimiterTypeOK
  BY DEF BInv, RecentOK, LimiterTypeOK
<1> QED
  BY <1>1, InitBInv, NextBInv, PTL DEF LimiterSpec

(* However many threads call allow_at, with whatever limits, and whenever  *)
(* the table is purged: no span of one window length sees more than twice  *)
(* the user's limit.                                                       *)
THEOREM BurstIsBounded == LimiterSpec => []BurstBounded
<1>1. BInv => BurstBounded
  <2> SUFFICES ASSUME BInv, NEW u \in Users
               PROVE  recent[u][2 * MaxLimit(u) + 1] = Window
    BY DEF BurstBounded
  <2>1. MaxLimit(u) \in Nat /\ 2 * MaxLimit(u) + 1 \in Grants(u)
    BY LimitType DEF Grants
  <2>2. CASE u \in DOMAIN rates
    <3>1. Matches(u, rates[u].age, rates[u].count) /\ rates[u].count \in Nat
      BY <2>2 DEF BInv, Fits, RatesOK, RateEntry
    <3> QED
      BY <2>1, <3>1 DEF Matches
  <2>3. CASE u \notin DOMAIN rates
    BY <2>1, <2>3 DEF BInv, Fits, Matches
  <2> QED
    BY <2>2, <2>3
<1> QED
  BY <1>1, InitBInv, NextBInv, PTL DEF LimiterSpec

----------------------------------------------------------------------------
(* Admission with its history of grants                                    *)

(* Only the charge itself is made at the label "charge", so that recording *)
(* grants there, and ages with the clock, leaves every step as it was.     *)
LEMMA NextIsSplit == Next <=> Uncharged \/ (\E r \in Requests : ChargeRate(r)) \/ Tick
<1>1. ASSUME NEW r \in Requests, pc[r] = "charge"
      PROVE  Begin(r) \/ Proceed(r) \/ TouchContext(r) \/ StartStream(r) => ChargeRate(r)
  BY <1>1 DEF Begin, ArriveHttp, ArriveChart, ArriveGuard, Arrive, Proceed, Authenticate,
     CheckContexts, CheckWork, TakeWork, CheckShutdown, TakeRequest, ScanRates, TakeLane,
     MarkContext, Finish, Unmark, ReturnWork, DropRequest, UnwindRequest, DropLane,
     TouchContext, StartStream
<1>2. ASSUME NEW r \in Requests, ChargeRate(r) PROVE Proceed(r)
  BY <1>2 DEF Proceed
<1>3. Next => Uncharged \/ (\E r \in Requests : ChargeRate(r)) \/ Tick
  BY <1>1 DEF Next, Uncharged
<1>4. Uncharged \/ (\E r \in Requests : ChargeRate(r)) \/ Tick => Next
  BY <1>2 DEF Next, Uncharged
<1> QED
  BY <1>3, <1>4

LEMMA TimedStep == [TimedNext]_timedVars => [Next]_vars
  BY NextIsSplit DEF TimedNext, timedVars

LEMMA TimedIsAdmission == TimedSpec => Spec
<1>1. TimedInit => Init
  BY DEF TimedInit
<1> QED
  BY <1>1, TimedStep, PTL DEF TimedSpec, Spec

(* The call that a caller at "charge" has under way.                       *)
LEMMA CallUnderWay ==
  ASSUME Composed, Typed, NEW r \in Requests, pc[r] \in {"scan", "charge"}
  PROVE  /\ user[r] \in Users
         /\ Limit(r) \in LimitOf[user[r]]
         /\ [user |-> user[r], limit |-> Limit(r)] # Idle
<1>1. user[r] \in Users
  BY DEF Typed, TypeOK, AllKinds, Shape, ChartLabels
<1>2. Limit(r) \in LimitOf[user[r]]
  BY <1>1 DEF Composed, Limit
<1>3. "limit" \in DOMAIN [user |-> user[r], limit |-> Limit(r)] /\ "limit" \notin DOMAIN Idle
  BY DEF Idle
<1> QED
  BY <1>1, <1>2, <1>3

(* A move between other labels, a return and an arrival change no call.    *)
LEMMA SameCalls ==
  ASSUME Typed, NEW r \in Requests, pc[r] # "charge",
         \/ \E label \in Labels \ {"charge"} : Goto(r, label)
         \/ Leave(r)
         \/ Begin(r)
  PROVE  UnderWay' = UnderWay
<1>1. /\ pc'[r] # "charge"
      /\ \A s \in Requests \ {r} : /\ pc'[s] = pc[s]
                                   /\ kind'[s] = kind[s] /\ user'[s] = user[s]
  BY DEF Typed, TypeOK, Goto, Leave, Begin, ArriveHttp, ArriveChart, ArriveGuard, Arrive
<1>2. \A s \in Requests \ {r} : Limit(s)' = Limit(s)
  BY <1>1 DEF Limit
<1> QED
  BY <1>1, <1>2 DEF UnderWay

(* What an uncharged step does to the table and the calls under way.       *)
LEMMA UnchargedStep ==
  ASSUME Composed, Typed, pending = UnderWay, pending' = UnderWay', Uncharged,
         UNCHANGED recent
  PROVE  [LimiterNext]_limiterVars
<1> USE DEF limiterVars
<1>1. ASSUME NEW r \in Requests, ScanRates(r), pc[r] # "charge"
      PROVE  LimiterNext
  <2>1. /\ pc[r] = "scan" /\ rates' = Purged
        /\ Goto(r, IF HasRoom(user[r]) THEN "charge" ELSE "unwindRequest")
    BY <1>1 DEF ScanRates
  <2>2. pending[r] = Idle
    BY <2>1 DEF UnderWay
  <2>3. CASE HasRoom(user[r])
    <3>1. pc' = [pc EXCEPT ![r] = "charge"] /\ kind' = kind /\ user' = user
      BY <2>1, <2>3 DEF Goto
    <3>2. \A s \in Requests : Limit(s)' = Limit(s)
      BY <3>1 DEF Limit
    <3>3. pending' = [pending EXCEPT ![r] = [user |-> user[r], limit |-> Limit(r)]]
      BY <3>1, <3>2 DEF UnderWay, Typed, TypeOK
    <3> QED
      BY <2>1, <2>2, <2>3, <3>3, CallUnderWay DEF LimiterNext, Scan, Composed
  <2>4. CASE ~HasRoom(user[r])
    <3>1. pending' = pending
      BY <2>1, <2>4, SameCalls DEF Labels
    <3> QED
      BY <2>1, <2>2, <2>4, <3>1, CallUnderWay DEF LimiterNext, Scan, Composed
  <2> QED
    BY <2>3, <2>4
<1>2. ASSUME NEW r \in Requests, pc[r] # "charge", ~ScanRates(r),
             Begin(r) \/ Proceed(r) \/ TouchContext(r) \/ StartStream(r)
      PROVE  UNCHANGED limiterVars
  <2>1. rates' = rates
    BY <1>2 DEF Begin, ArriveHttp, ArriveChart, ArriveGuard, Arrive, shared, Proceed,
       Authenticate, CheckContexts, CheckWork, TakeWork, CheckShutdown, TakeRequest,
       ChargeRate, TakeLane, MarkContext, Finish, Unmark, ReturnWork, DropRequest,
       UnwindRequest, DropLane, TouchContext, StartStream
  <2>2. CASE TouchContext(r)
    BY <2>1, <2>2 DEF TouchContext, local, UnderWay, Limit
  <2>3. CASE ~TouchContext(r)
    <3>1. Begin(r) \/ Leave(r) \/ \E label \in Labels \ {"charge"} : Goto(r, label)
      BY <1>2, <2>3 DEF Proceed, Authenticate, CheckContexts, CheckWork, TakeWork,
         CheckShutdown, TakeRequest, ChargeRate, TakeLane, MarkContext, Finish, Unmark,
         ReturnWork, DropRequest, UnwindRequest, DropLane, StartStream, Rejected, Labels
    <3> QED
      BY <1>2, <2>1, <3>1, SameCalls
  <2> QED
    BY <2>2, <2>3
<1>3. CASE (\E u \in Users : ExpireContext(u)) \/ Cancel
  BY <1>3 DEF ExpireContext, Cancel, local, UnderWay, Limit
<1> QED
  BY <1>1, <1>2, <1>3 DEF Uncharged

LEMMA ChargedStep ==
  ASSUME Composed, Typed, pending = UnderWay, pending' = UnderWay',
         NEW r \in Requests, ChargeRate(r),
         IF WithinLimit(user[r], Limit(r)) THEN RecordGrant(user[r]) ELSE UNCHANGED recent
  PROVE  LimiterNext
<1>1. /\ pc[r] = "charge"
      /\ \/ WithinLimit(user[r], Limit(r)) /\ Grant(user[r])
         \/ ~WithinLimit(user[r], Limit(r)) /\ Refuse(user[r])
      /\ \E label \in Labels \ {"charge"} : Goto(r, label)
  BY DEF ChargeRate, Labels
<1>2. pending[r] = [user |-> user[r], limit |-> Limit(r)] /\ pending[r] # Idle
  BY <1>1, CallUnderWay DEF UnderWay
<1>3. PICK label \in Labels \ {"charge"} : Goto(r, label)
  BY <1>1
<1>4. /\ \A s \in Requests : pc'[s] = IF s = r THEN label ELSE pc[s]
      /\ kind' = kind /\ user' = user
  BY <1>3 DEF Goto, Typed, TypeOK
<1>5. \A s \in Requests : Limit(s)' = Limit(s)
  BY <1>4 DEF Limit
<1>6. pending' = [pending EXCEPT ![r] = Idle]
  BY <1>4, <1>5 DEF UnderWay
<1>7. Charge(r)
  BY <1>1, <1>2, <1>6 DEF Charge
<1> QED
  BY <1>7 DEF LimiterNext, Composed

LEMMA TimedNextLimits ==
  Composed /\ Typed /\ pending = UnderWay /\ [TimedNext]_timedVars
    => [LimiterNext]_limiterVars /\ (pending = UnderWay)'
<1> SUFFICES ASSUME Composed, Typed, pending = UnderWay, [TimedNext]_timedVars
             PROVE  [LimiterNext]_limiterVars /\ pending' = UnderWay'
  OBVIOUS
<1>1. CASE UNCHANGED timedVars
  BY <1>1 DEF timedVars, vars, local, shared, limiterVars, UnderWay, Limit
<1>2. CASE TimedNext
  <2>1. pending' = UnderWay'
    BY <1>2 DEF TimedNext
  <2>2. CASE Uncharged /\ UNCHANGED recent
    BY <2>1, <2>2, UnchargedStep
  <2>3. ASSUME NEW r \in Requests, ChargeRate(r),
               IF WithinLimit(user[r], Limit(r)) THEN RecordGrant(user[r])
                                                 ELSE UNCHANGED recent
        PROVE  LimiterNext
    BY <2>1, <2>3, ChargedStep
  <2>4. CASE Tick /\ RecordTick
    <3>1. pending' = pending
      BY <2>1, <2>4 DEF Tick, local, UnderWay, Limit
    <3> QED
      BY <2>1, <2>4, <3>1 DEF Tick, LimiterNext, LimiterTick
  <2> QED
    BY <1>2, <2>1, <2>2, <2>3, <2>4 DEF TimedNext
<1> QED
  BY <1>1, <1>2

(* HTTP requests, Telegram updates and scheduled readings, each with the   *)
(* limit of its own path, are callers of one and the same rate limiter.    *)
THEOREM AdmissionIsLimited == Composed => (TimedSpec => LimiterSpec)
<1> SUFFICES ASSUME Composed PROVE TimedSpec => LimiterSpec
  OBVIOUS
<1>1. TimedInit => LimiterInit /\ pending = UnderWay
  BY DEF TimedInit, Init, LimiterInit, UnderWay, Composed
<1>2. IInv => Typed
  BY DEF IInv
<1>3. Typed /\ pending = UnderWay /\ [TimedNext]_timedVars
        => [LimiterNext]_limiterVars /\ (pending = UnderWay)'
  BY TimedNextLimits
<1> QED
  BY <1>1, <1>2, <1>3, TimedIsAdmission, Invariance, PTL DEF TimedSpec, LimiterSpec

(* So whatever mixture of paths a user's work comes in on, admission lets  *)
(* through no more than twice the user's larger limit in a window length.  *)
THEOREM AdmittedBurstIsBounded == Composed => (TimedSpec => []BurstBounded)
  BY AdmissionIsLimited, BurstIsBounded, PTL

(* And the callers of Admission bound how far the table can be overrun.    *)
THEOREM AdmissionOverrunIsBounded == Composed => (TimedSpec => []OverrunBounded)
  BY AdmissionIsLimited, OverrunIsBounded, PTL
=============================================================================
