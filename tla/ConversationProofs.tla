------------------------ MODULE ConversationProofs ------------------------
(***************************************************************************)
(* What turns keep about a user, for any number of turns, profiles and     *)
(* messages and any size of the context and of the cache's queue.          *)
(*                                                                         *)
(* TypeOK needs to know when a message is in hand (InHand).  Grounded      *)
(* follows from the lane (Exclusive).  InvalidationHolds needs to know     *)
(* where an answer can still come from: a job that runs does so under its  *)
(* request (Attached), so with the stored pillars, and the Clear that a    *)
(* creation waits for is the last of the queue (ClearWaits).               *)
(*                                                                         *)
(* NoDuplicates and RepliesKept follow single messages: one in hand is in  *)
(* one hand, not in the cache or on its way there and, before it is        *)
(* pushed, not in memory (Apart); none is twice in one place (CachedOnce,  *)
(* Singles, Distinct); an accepted one is somewhere (Kept), and after the  *)
(* drain nothing is in a hand (Quiet).                                     *)
(***************************************************************************)
EXTENDS Conversation, SequenceTheorems, TLAPS

Exclusive == \A t, u \in Turns : pc[t] # "idle" /\ pc[u] # "idle" => t = u

InHand ==
  \A t \in Turns :
    /\ Len(seen[t]) <= MaxContext
    /\ pc[t] = "save" => left[t] # <<>>
    /\ left[t] # <<>> => pc[t] = "save" \/ job[t] \in {"analysis", "push", "save"}
    /\ job[t] # "none" => pc[t] \in {"idle", "stream"}

----------------------------------------------------------------------------
(* Newest(s, n) is made of elements of s, at most n of them.  push_turn    *)
(* and recent_turns rest on it.                                            *)
LEMMA NewestElements ==
  ASSUME NEW S, NEW s \in Seq(S), NEW n \in Nat
  PROVE  /\ Newest(s, n) \in Seq(S)
         /\ Len(Newest(s, n)) <= n
         /\ \A i \in DOMAIN Newest(s, n) : \E j \in DOMAIN s : Newest(s, n)[i] = s[j]
<1>1. CASE Len(s) <= n
  BY <1>1 DEF Newest
<1>2. CASE ~(Len(s) <= n)
  <2> DEFINE r == SubSeq(s, Len(s) - n + 1, Len(s))
  <2>1. Newest(s, n) = r
    BY <1>2 DEF Newest, LastOf
  <2>2. Len(s) \in Nat /\ Len(s) - n + 1 \in 1 .. Len(s) + 1
    BY <1>2
  <2>3. /\ r \in Seq(S)
        /\ DOMAIN r = 1 .. n
        /\ Len(r) = n
        /\ \A i \in 1 .. n : r[i] = s[Len(s) - n + i]
    BY <2>2
  <2>4. \A i \in 1 .. n : Len(s) - n + i \in DOMAIN s
    BY <1>2
  <2> HIDE DEF r
  <2>5. \A i \in DOMAIN r : \E j \in DOMAIN s : r[i] = s[j]
    BY <2>3, <2>4
  <2> QED BY <2>1, <2>3, <2>5
<1> QED BY <1>1, <1>2

(* What n new messages from pillars b are.                                 *)
LEMMA FreshMessages ==
  ASSUME messages \in Nat, NEW n \in Nat, NEW b \in Pillars
  PROVE  /\ Fresh(n, b) \in Seq(Message)
         /\ Len(Fresh(n, b)) = n
         /\ \A i \in DOMAIN Fresh(n, b) : Fresh(n, b)[i].basis = b
         /\ Ids(Fresh(n, b)) \subseteq Nat \ {0}
BY DEF Fresh, Message, Ids, Pillars

(* push_turn keeps a context within its limit.                             *)
LEMMA PushTurnElements ==
  ASSUME NEW a \in Seq(Message), NEW b \in Seq(Message)
  PROVE  /\ PushTurn(a, b) \in Seq(Message)
         /\ Len(PushTurn(a, b)) <= MaxContext
         /\ \A i \in DOMAIN PushTurn(a, b) :
              \/ \E j \in DOMAIN a : PushTurn(a, b)[i] = a[j]
              \/ \E j \in DOMAIN b : PushTurn(a, b)[i] = b[j]
<1>1. a \o b \in Seq(Message) /\ MaxContext \in Nat
  BY ConversationAssumption
<1>2. \A j \in DOMAIN (a \o b) : \/ \E k \in DOMAIN a : (a \o b)[j] = a[k]
                                 \/ \E k \in DOMAIN b : (a \o b)[j] = b[k]
  <2> TAKE j \in DOMAIN (a \o b)
  <2>1. CASE j <= Len(a)
    BY <2>1
  <2>2. CASE ~(j <= Len(a))
    <3>1. j - Len(a) \in DOMAIN b /\ (a \o b)[j] = b[j - Len(a)]
      BY <2>2
    <3> QED BY <3>1
  <2> QED BY <2>1, <2>2
<1> DEFINE c == a \o b
         r == Newest(c, MaxContext)
<1>3. /\ r \in Seq(Message)
      /\ Len(r) <= MaxContext
      /\ \A i \in DOMAIN r : \E j \in DOMAIN c : r[i] = c[j]
  <2>1. c \in Seq(Message) /\ MaxContext \in Nat
    BY <1>1
  <2> HIDE DEF c
  <2> QED BY <2>1, NewestElements
<1>4. PushTurn(a, b) = r
  BY DEF PushTurn
<1>5. \A j \in DOMAIN c : \/ \E k \in DOMAIN a : c[j] = a[k]
                          \/ \E k \in DOMAIN b : c[j] = b[k]
  BY <1>2
<1> HIDE DEF c, r
<1>6. \A i \in DOMAIN r : \/ \E j \in DOMAIN a : r[i] = a[j]
                          \/ \E j \in DOMAIN b : r[i] = b[j]
  <2> TAKE i \in DOMAIN r
  <2>1. PICK j \in DOMAIN c : r[i] = c[j]
    BY <1>3
  <2>2. \/ \E k \in DOMAIN a : c[j] = a[k]
        \/ \E k \in DOMAIN b : c[j] = b[k]
    BY <1>5
  <2> QED BY <2>1, <2>2, Zenon
<1> QED BY <1>3, <1>4, <1>6

----------------------------------------------------------------------------
(* The shape of the state                                                  *)

(* What Enqueue does to the queue and to the debt.                         *)
LEMMA EnqueueTypes ==
  ASSUME pending \in Seq(Op), Len(pending) <= MaxPending, owed \subseteq Nat \ {0},
         NEW msg \in Message, Enqueue(msg)
  PROVE  pending' \in Seq(Op) /\ Len(pending') <= MaxPending /\ owed' \subseteq Nat \ {0}
<1>1. MaxPending \in Nat
  BY ConversationAssumption
<1> DEFINE op == [kind |-> "save", msg |-> msg]
<1>2. op \in Op
  BY DEF Op
<1>3. CASE Running /\ Room
  <2>1. pending' = Append(pending, op) /\ owed' = owed
    BY <1>3 DEF Enqueue
  <2>2. Len(pending) < MaxPending
    BY <1>3 DEF Room
  <2> HIDE DEF op
  <2> QED BY <1>1, <1>2, <2>1, <2>2
<1>4. CASE ~(Running /\ Room)
  BY <1>4 DEF Enqueue
<1> QED BY <1>3, <1>4

Shape == TypeOK /\ InHand /\ Exclusive /\ Grounded

LEMMA InitShape == Init => Shape
<1> SUFFICES ASSUME Init PROVE Shape
  OBVIOUS
<1>1. /\ row \in [pillars : Pillars, analysis : Pillars, summary : Pillars, chart : Pillars]
      /\ basis \in [Turns -> Pillars]
  BY ConversationAssumption DEF Init, Pillars
<1>2. /\ ctx \in [loaded : BOOLEAN, msgs : Seq(Message)] /\ Len(ctx.msgs) <= MaxContext
      /\ pending \in Seq(Op) /\ Len(pending) <= MaxPending
      /\ rows \in Seq(Message)
  BY ConversationAssumption DEF Init, Absent
<1>3. /\ pc \in [Turns -> Labels] /\ kind \in [Turns -> Kinds] /\ job \in [Turns -> Stages]
      /\ seen \in [Turns -> Seq(Message)] /\ left \in [Turns -> Seq(Message)]
  BY DEF Init, Kinds, Labels, Stages
<1>4. TypeOK
  BY <1>1, <1>2, <1>3 DEF Init, TypeOK
<1>5. InHand /\ Exclusive /\ Grounded
  BY ConversationAssumption DEF Init, InHand, Exclusive, Grounded
<1> QED BY <1>4, <1>5 DEF Shape

LEMMA RequestShape ==
  ASSUME Shape, NEW t \in Turns, Request(t)
  PROVE  Shape'
<1> USE DEF store, turn, history
<1>0. TypeOK /\ InHand /\ Exclusive /\ Grounded
  BY DEF Shape
<1>1. ASSUME NEW k \in Kinds, Start(t, k) PROVE Shape'
  <2>1. TypeOK'
    BY <1>1, <1>0 DEF Start, Goto, Kinds, Labels, TypeOK
  <2>2. InHand'
    BY <1>1, <1>0 DEF Start, Goto, LaneFree, TypeOK, InHand
  <2>3. Exclusive' /\ Grounded'
    BY <1>1, <1>0 DEF Start, Goto, LaneFree, Exclusive, Grounded
  <2> QED BY <2>1, <2>2, <2>3 DEF Shape
<1>2. CASE GiveUp(t)
  <2>1. TypeOK'
    BY <1>2, <1>0 DEF GiveUp, Goto, Labels, TypeOK
  <2>2. InHand'
    BY <1>2, <1>0, SMTT(30) DEF GiveUp, Goto, InHand
  <2>3. Exclusive' /\ Grounded'
    BY <1>2, <1>0 DEF GiveUp, Goto, Exclusive, Grounded
  <2> QED BY <2>1, <2>2, <2>3 DEF Shape
<1>3. CASE UpsertBazi(t)
  <2>1. TypeOK'
    <3>1. row.pillars + 1 \in Pillars /\ 0 \in Pillars
      <4>1. row.pillars \in 0..MaxPillars
        BY <1>0 DEF TypeOK, Pillars
      <4>2. row.pillars < MaxPillars
        BY <1>3 DEF UpsertBazi
      <4> QED BY <4>1, <4>2, ConversationAssumption DEF Pillars
    <3>2. /\ row' \in [pillars : Pillars, analysis : Pillars, summary : Pillars, chart : Pillars]
          /\ basis' \in [Turns -> Pillars]
      BY <1>3, <1>0, <3>1 DEF UpsertBazi, TypeOK
    <3>3. pc' \in [Turns -> Labels]
      BY <1>3, <1>0 DEF UpsertBazi, Goto, Labels, TypeOK
    <3> QED BY <1>3, <1>0, <3>2, <3>3 DEF UpsertBazi, TypeOK
  <2>2. InHand'
    BY <1>3, <1>0 DEF UpsertBazi, Goto, InHand
  <2>3. Exclusive' /\ Grounded'
    BY <1>3, <1>0, ConversationAssumption
       DEF UpsertBazi, Goto, TypeOK, Exclusive, Grounded
  <2> QED BY <2>1, <2>2, <2>3 DEF Shape
<1>4. CASE ReadProfile(t)
  <2>1. TypeOK'
    BY <1>4, <1>0 DEF ReadProfile, Goto, Labels, Kinds, TypeOK
  <2>2. InHand'
    BY <1>4, <1>0 DEF ReadProfile, Goto, TypeOK, Kinds, InHand
  <2>3. Exclusive' /\ Grounded'
    BY <1>4, <1>0 DEF ReadProfile, Goto, TypeOK, Exclusive, Grounded
  <2> QED BY <2>1, <2>2, <2>3 DEF Shape
<1>5. CASE WipeContext(t)
  <2>1. TypeOK'
    BY <1>5, <1>0, ConversationAssumption DEF WipeContext, Goto, Labels, TypeOK
  <2>2. InHand'
    BY <1>5, <1>0 DEF WipeContext, Goto, InHand
  <2>3. Exclusive' /\ Grounded'
    BY <1>5, <1>0 DEF WipeContext, Goto, Exclusive, Grounded
  <2> QED BY <2>1, <2>2, <2>3 DEF Shape
<1>6. CASE ClearCache(t)
  <2>1. TypeOK'
    BY <1>6, <1>0, ConversationAssumption DEF ClearCache, Goto, Room, Op, Labels, TypeOK
  <2>2. InHand'
    BY <1>6, <1>0 DEF ClearCache, Goto, InHand
  <2>3. Exclusive' /\ Grounded'
    BY <1>6, <1>0 DEF ClearCache, Goto, Exclusive, Grounded
  <2> QED BY <2>1, <2>2, <2>3 DEF Shape
<1>7. CASE ClearReturns(t)
  <2>1. TypeOK'
    BY <1>7, <1>0 DEF ClearReturns, Goto, Labels, TypeOK
  <2>2. InHand'
    BY <1>7, <1>0 DEF ClearReturns, Goto, InHand
  <2>3. Exclusive' /\ Grounded'
    BY <1>7, <1>0 DEF ClearReturns, Goto, Exclusive, Grounded
  <2> QED BY <2>1, <2>2, <2>3 DEF Shape
<1>8. CASE PutChart(t)
  <2>1. TypeOK'
    BY <1>8, <1>0 DEF PutChart, Goto, Labels, TypeOK
  <2>2. InHand'
    BY <1>8, <1>0 DEF PutChart, Goto, InHand
  <2>3. Exclusive' /\ Grounded'
    BY <1>8, <1>0 DEF PutChart, Goto, TypeOK, Exclusive, Grounded
  <2> QED BY <2>1, <2>2, <2>3 DEF Shape
<1>9. CASE Hydrate(t)
  <2>1. TypeOK'
    <3>1. Newest(rows, MaxContext) \in Seq(Message)
      BY <1>0, NewestElements, ConversationAssumption DEF TypeOK
    <3>2. seen' = seen \/ seen' = [seen EXCEPT ![t] = Newest(rows, MaxContext)]
      BY <1>9 DEF Hydrate
    <3>3. seen' \in [Turns -> Seq(Message)]
      BY <1>0, <3>1, <3>2 DEF TypeOK
    <3>4. pc' \in [Turns -> Labels]
      BY <1>9, <1>0 DEF Hydrate, Goto, Labels, TypeOK
    <3> QED BY <1>9, <1>0, <3>3, <3>4 DEF Hydrate, TypeOK
  <2>2. InHand'
    <3>1. Len(Newest(rows, MaxContext)) <= MaxContext
      BY <1>0, NewestElements, ConversationAssumption DEF TypeOK
    <3>2. \A u \in Turns : Len(seen'[u]) <= MaxContext
      BY <1>9, <1>0, <3>1 DEF Hydrate, TypeOK, InHand
    <3>3. \A u \in Turns \ {t} : pc'[u] = pc[u]
      BY <1>9, <1>0 DEF Hydrate, Goto, TypeOK
    <3>4. pc'[t] \in {"push", "fill"} /\ job[t] = "none" /\ left[t] = <<>>
      BY <1>9, <1>0 DEF Hydrate, Goto, TypeOK, InHand
    <3>5. left' = left /\ job' = job
      BY <1>9 DEF Hydrate
    <3> QED BY <1>0, <3>2, <3>3, <3>4, <3>5 DEF InHand
  <2>3. Exclusive' /\ Grounded'
    <3>1. \A u \in Turns : pc'[u] \notin {"idle", "start"} <=> pc[u] \notin {"idle", "start"}
      BY <1>9, <1>0 DEF Hydrate, Goto, TypeOK
    <3>2. \A u \in Turns : pc'[u] # "idle" <=> pc[u] # "idle"
      BY <1>9, <1>0 DEF Hydrate, Goto, TypeOK
    <3>3. basis' = basis /\ row' = row
      BY <1>9 DEF Hydrate
    <3> QED BY <1>0, <3>1, <3>2, <3>3 DEF Exclusive, Grounded
  <2> QED BY <2>1, <2>2, <2>3 DEF Shape
<1>10. CASE FillContext(t)
  <2>1. TypeOK'
    BY <1>10, <1>0, ConversationAssumption DEF FillContext, Goto, Labels, InHand, TypeOK
  <2>2. InHand'
    BY <1>10, <1>0, ConversationAssumption DEF FillContext, Goto, TypeOK, InHand
  <2>3. Exclusive' /\ Grounded'
    BY <1>10, <1>0 DEF FillContext, Goto, Exclusive, Grounded
  <2> QED BY <2>1, <2>2, <2>3 DEF Shape
<1>11. CASE PushMessage(t)
  <2>1. TypeOK'
    <3> DEFINE new == Fresh(1, basis[t])
    <3>1. new \in Seq(Message) /\ Ids(new) \subseteq Nat \ {0}
      BY <1>0, FreshMessages DEF TypeOK
    <3>2. /\ ctx' = [ctx EXCEPT !.msgs = PushTurn(@, new)]
          /\ left' = [left EXCEPT ![t] = new]
          /\ owed' = owed \cup Ids(new)
      BY <1>11 DEF PushMessage
    <3> HIDE DEF new
    <3>3. /\ ctx' \in [loaded : BOOLEAN, msgs : Seq(Message)] /\ Len(ctx'.msgs) <= MaxContext
          /\ left' \in [Turns -> Seq(Message)]
          /\ owed' \subseteq Nat \ {0}
      BY <1>0, <3>1, <3>2, PushTurnElements DEF TypeOK
    <3>4. pc' \in [Turns -> Labels] /\ messages' \in Nat
      BY <1>11, <1>0 DEF PushMessage, Goto, Labels, TypeOK
    <3> QED BY <1>11, <1>0, <3>3, <3>4 DEF PushMessage, TypeOK
  <2>2. InHand'
    <3>0. basis[t] \in Pillars /\ messages \in Nat
      BY <1>0 DEF TypeOK
    <3>a. Len(Fresh(1, basis[t])) = 1 /\ Len(<<>>) = 0
      BY <3>0, FreshMessages
    <3>1. Len(Fresh(1, basis[t])) = 1 /\ Fresh(1, basis[t]) # <<>>
      BY <3>a
    <3>2. /\ \A u \in Turns \ {t} : pc'[u] = pc[u] /\ left'[u] = left[u]
          /\ pc'[t] = "save" /\ left'[t] # <<>> /\ job[t] = "none"
      BY <1>11, <1>0, <3>1 DEF PushMessage, Goto, TypeOK, InHand
    <3>3. job' = job /\ seen' = seen
      BY <1>11 DEF PushMessage
    <3> QED BY <1>0, <3>2, <3>3 DEF InHand
  <2>3. Exclusive' /\ Grounded'
    BY <1>11, <1>0 DEF PushMessage, Goto, Exclusive, Grounded
  <2> QED BY <2>1, <2>2, <2>3 DEF Shape
<1>12. CASE SaveMessage(t)
  <2>1. TypeOK'
    BY <1>12, <1>0, EnqueueTypes DEF SaveMessage, Goto, Labels, InHand, TypeOK
  <2>2. InHand'
    BY <1>12, <1>0 DEF SaveMessage, Goto, TypeOK, InHand
  <2>3. Exclusive' /\ Grounded'
    BY <1>12, <1>0 DEF SaveMessage, Goto, Exclusive, Grounded
  <2> QED BY <2>1, <2>2, <2>3 DEF Shape
<1>13. CASE Answer(t)
  <2>1. TypeOK'
    BY <1>13, <1>0 DEF Answer, Goto, Stage, Labels, Stages, TypeOK
  <2>2. InHand'
    BY <1>13, <1>0 DEF Answer, Goto, Stage, TypeOK, InHand
  <2>3. Exclusive' /\ Grounded'
    BY <1>13, <1>0 DEF Answer, Goto, Exclusive, Grounded
  <2> QED BY <2>1, <2>2, <2>3 DEF Shape
<1>14. CASE AnswerScheduled(t)
  <2>1. TypeOK'
    BY <1>14, <1>0 DEF AnswerScheduled, Goto, Labels, TypeOK
  <2>2. InHand'
    BY <1>14, <1>0 DEF AnswerScheduled, Goto, InHand
  <2>3. Exclusive' /\ Grounded'
    BY <1>14, <1>0 DEF AnswerScheduled, Goto, Exclusive, Grounded
  <2> QED BY <2>1, <2>2, <2>3 DEF Shape
<1>15. CASE Deliver(t)
  <2>1. TypeOK'
    <3>1. Fresh(1, basis[t])[1] \in Message
      BY <1>0, FreshMessages DEF TypeOK
    <3> DEFINE op == [kind |-> "save", msg |-> Fresh(1, basis[t])[1]]
    <3>2. op \in Op
      BY <3>1 DEF Op
    <3>3. \/ Room /\ pending' = Append(pending, op) /\ owed' = owed \cup {messages + 1}
          \/ UNCHANGED <<pending, owed>>
      BY <1>15 DEF Deliver
    <3> HIDE DEF op
    <3>4. pending' \in Seq(Op) /\ Len(pending') <= MaxPending /\ owed' \subseteq Nat \ {0}
      <4>1. CASE Room /\ pending' = Append(pending, op) /\ owed' = owed \cup {messages + 1}
        BY <1>0, <3>2, <4>1, ConversationAssumption DEF TypeOK, Room
      <4>2. CASE UNCHANGED <<pending, owed>>
        BY <1>0, <4>2 DEF TypeOK
      <4> QED BY <3>3, <4>1, <4>2
    <3>5. pc' \in [Turns -> Labels] /\ messages' \in Nat
      BY <1>15, <1>0 DEF Deliver, Goto, Labels, TypeOK
    <3> QED BY <1>15, <1>0, <3>4, <3>5 DEF Deliver, TypeOK
  <2>2. InHand'
    BY <1>15, <1>0 DEF Deliver, Goto, InHand
  <2>3. Exclusive' /\ Grounded'
    BY <1>15, <1>0 DEF Deliver, Goto, Exclusive, Grounded
  <2> QED BY <2>1, <2>2, <2>3 DEF Shape
<1>16. CASE Return(t)
  <2>1. TypeOK'
    BY <1>16, <1>0 DEF Return, Goto, Stage, Labels, Stages, TypeOK
  <2>2. InHand'
    BY <1>16, <1>0 DEF Return, Goto, Stage, TypeOK, InHand
  <2>3. Exclusive' /\ Grounded'
    BY <1>16, <1>0 DEF Return, Goto, Exclusive, Grounded
  <2> QED BY <2>1, <2>2, <2>3 DEF Shape
<1>17. CASE Abandon(t)
  <2>1. TypeOK'
    BY <1>17, <1>0 DEF Abandon, Goto, Labels, TypeOK
  <2>2. InHand'
    BY <1>17, <1>0, ConversationAssumption DEF Abandon, Goto, TypeOK, Awaits, InHand
  <2>3. Exclusive' /\ Grounded'
    BY <1>17, <1>0 DEF Abandon, Goto, Exclusive, Grounded
  <2> QED BY <2>1, <2>2, <2>3 DEF Shape
<1> QED BY <1>1, <1>2, <1>3, <1>4, <1>5, <1>6, <1>7, <1>8, <1>9, <1>10,
           <1>11, <1>12, <1>13, <1>14, <1>15, <1>16, <1>17 DEF Request

LEMMA JobShape ==
  ASSUME Shape, NEW t \in Turns, Job(t)
  PROVE  Shape'
<1> USE DEF store, turn, history
<1>0. TypeOK /\ InHand /\ Exclusive /\ Grounded
  BY DEF Shape
<1>1. CASE Collect(t)
  <2>1. TypeOK'
    <3>1. Replies(t) \in Seq(Message) /\ Len(Replies(t)) \in Nat /\ Ids(Replies(t)) \subseteq Nat \ {0}
      <4>1. messages \in Nat /\ basis[t] \in Pillars
        BY <1>0 DEF TypeOK
      <4> QED
        BY <4>1, FreshMessages DEF Replies
    <3> DEFINE new == Replies(t)
    <3>2. /\ left' = [left EXCEPT ![t] = new]
          /\ owed' = owed \cup Ids(new)
          /\ messages' = messages + Len(new)
      BY <1>1 DEF Collect
    <3>4. new \in Seq(Message) /\ Len(new) \in Nat /\ Ids(new) \subseteq Nat \ {0}
      BY <3>1
    <3> HIDE DEF new
    <3>5. /\ left' \in [Turns -> Seq(Message)] /\ owed' \subseteq Nat \ {0}
          /\ messages' \in Nat
      <4>1. left \in [Turns -> Seq(Message)] /\ owed \subseteq Nat \ {0} /\ messages \in Nat
        BY <1>0 DEF TypeOK
      <4>2. left' \in [Turns -> Seq(Message)]
        BY <3>2, <3>4, <4>1
      <4>3. owed' \subseteq Nat \ {0}
        BY <3>2, <3>4, <4>1, Zenon
      <4>4. messages' \in Nat
        BY <3>2, <3>4, <4>1
      <4> QED BY <4>2, <4>3, <4>4
    <3>3. job' \in [Turns -> Stages]
      BY <1>1, <1>0 DEF Collect, Stage, Stages, TypeOK
    <3> QED BY <1>1, <1>0, <3>5, <3>3 DEF Collect, TypeOK
  <2>2. InHand'
    BY <1>1, <1>0, FreshMessages DEF Collect, Stage, TypeOK, Replies, InHand
  <2>3. Exclusive' /\ Grounded'
    BY <1>1, <1>0 DEF Collect, Exclusive, Grounded
  <2> QED BY <2>1, <2>2, <2>3 DEF Shape
<1>2. CASE CollectFails(t)
  <2>1. TypeOK'
    BY <1>2, <1>0 DEF CollectFails, Stage, Stages, TypeOK
  <2>2. InHand'
    BY <1>2, <1>0 DEF CollectFails, Stage, TypeOK, InHand
  <2>3. Exclusive' /\ Grounded'
    BY <1>2, <1>0 DEF CollectFails, Exclusive, Grounded
  <2> QED BY <2>1, <2>2, <2>3 DEF Shape
<1>3. CASE SaveAnalysis(t)
  <2>1. TypeOK'
    BY <1>3, <1>0 DEF SaveAnalysis, Stage, Stages, TypeOK
  <2>2. InHand'
    BY <1>3, <1>0 DEF SaveAnalysis, Stage, TypeOK, InHand
  <2>3. Exclusive' /\ Grounded'
    BY <1>3, <1>0 DEF SaveAnalysis, TypeOK, Exclusive, Grounded
  <2> QED BY <2>1, <2>2, <2>3 DEF Shape
<1>4. CASE PushReply(t)
  <2>1. TypeOK'
    BY <1>4, <1>0, PushTurnElements DEF PushReply, Stage, Stages, TypeOK
  <2>2. InHand'
    BY <1>4, <1>0 DEF PushReply, Stage, TypeOK, InHand
  <2>3. Exclusive' /\ Grounded'
    BY <1>4, <1>0 DEF PushReply, Exclusive, Grounded
  <2> QED BY <2>1, <2>2, <2>3 DEF Shape
<1>5. CASE SaveReply(t)
  <2>1. TypeOK'
    BY <1>5, <1>0, EnqueueTypes DEF SaveReply, TypeOK
  <2>2. InHand'
    BY <1>5, <1>0 DEF SaveReply, TypeOK, InHand
  <2>3. Exclusive' /\ Grounded'
    BY <1>5, <1>0 DEF SaveReply, Exclusive, Grounded
  <2> QED BY <2>1, <2>2, <2>3 DEF Shape
<1>6. CASE ReplySaved(t)
  <2>1. TypeOK'
    BY <1>6, <1>0 DEF ReplySaved, Stage, Stages, TypeOK
  <2>2. InHand'
    BY <1>6, <1>0 DEF ReplySaved, Stage, TypeOK, InHand
  <2>3. Exclusive' /\ Grounded'
    BY <1>6, <1>0 DEF ReplySaved, Exclusive, Grounded
  <2> QED BY <2>1, <2>2, <2>3 DEF Shape
<1>7. CASE SaveSummary(t)
  <2>1. TypeOK'
    BY <1>7, <1>0 DEF SaveSummary, Stage, Stages, TypeOK
  <2>2. InHand'
    BY <1>7, <1>0 DEF SaveSummary, Stage, TypeOK, InHand
  <2>3. Exclusive' /\ Grounded'
    BY <1>7, <1>0 DEF SaveSummary, TypeOK, Exclusive, Grounded
  <2> QED BY <2>1, <2>2, <2>3 DEF Shape
<1>8. CASE JobEnds(t)
  <2>1. TypeOK'
    BY <1>8, <1>0 DEF JobEnds, Stage, Stages, TypeOK
  <2>2. InHand'
    BY <1>8, <1>0 DEF JobEnds, Stage, TypeOK, InHand
  <2>3. Exclusive' /\ Grounded'
    BY <1>8, <1>0 DEF JobEnds, Exclusive, Grounded
  <2> QED BY <2>1, <2>2, <2>3 DEF Shape
<1> QED BY <1>1, <1>2, <1>3, <1>4, <1>5, <1>6, <1>7, <1>8 DEF Job

LEMMA ProcessShape ==
  ASSUME Shape, Process
  PROVE  Shape'
<1> USE DEF store, turn, history
<1>0. TypeOK /\ InHand /\ Exclusive /\ Grounded
  BY DEF Shape
<1>1. CASE Commit
  <2>1. TypeOK'
    <3>1. Head(pending) \in Op /\ Tail(pending) \in Seq(Op) /\ Len(Tail(pending)) <= MaxPending
      BY <1>1, <1>0, ConversationAssumption DEF Commit, TypeOK
    <3>2. Head(pending).kind = "save" => Head(pending).msg \in Message
      BY <3>1 DEF Op
    <3>3. rows' \in Seq(Message) /\ owed' \subseteq Nat \ {0}
      <4>1. CASE Head(pending).kind = "save"
        <5>1. rows' = Append(rows, Head(pending).msg) /\ owed' = owed
          BY <1>1, <4>1 DEF Commit
        <5> QED BY <1>0, <3>2, <4>1, <5>1 DEF TypeOK
      <4>2. CASE Head(pending).kind # "save"
        <5>1. rows' = <<>> /\ owed' = owed \ Ids(rows)
          BY <1>1, <4>2 DEF Commit
        <5>2. owed \subseteq Nat \ {0}
          BY <1>0 DEF TypeOK
        <5>3. owed' \subseteq Nat \ {0}
          BY <5>1, <5>2, Zenon
        <5>4. rows' \in Seq(Message)
          BY <5>1
        <5> QED BY <5>3, <5>4
      <4> QED BY <4>1, <4>2
    <3> QED BY <1>1, <1>0, <3>1, <3>3 DEF Commit, TypeOK
  <2>2. InHand'
    BY <1>1, <1>0 DEF Commit, InHand
  <2>3. Exclusive' /\ Grounded'
    BY <1>1, <1>0 DEF Commit, Exclusive, Grounded
  <2> QED BY <2>1, <2>2, <2>3 DEF Shape
<1>2. CASE Rollback
  <2>1. TypeOK'
    <3>1. Tail(pending) \in Seq(Op) /\ Len(Tail(pending)) <= MaxPending
      BY <1>2, <1>0, ConversationAssumption DEF Rollback, TypeOK
    <3>2. owed \subseteq Nat \ {0} /\ clearLost \in BOOLEAN
      BY <1>0 DEF TypeOK
    <3>3. owed' \subseteq Nat \ {0} /\ clearLost' \in BOOLEAN
      <4>1. CASE Head(pending).kind = "save"
        BY <1>2, <3>2, <4>1 DEF Rollback
      <4>2. CASE Head(pending).kind # "save"
        BY <1>2, <3>2, <4>2 DEF Rollback
      <4> QED BY <4>1, <4>2
    <3>4. /\ UNCHANGED <<row, ctx, rows, turn, phase, messages, interrupted>>
          /\ pending' = Tail(pending)
      BY <1>2 DEF Rollback
    <3> QED BY <1>0, <3>1, <3>3, <3>4 DEF TypeOK
  <2>2. InHand'
    BY <1>2, <1>0 DEF Rollback, InHand
  <2>3. Exclusive' /\ Grounded'
    BY <1>2, <1>0 DEF Rollback, Exclusive, Grounded
  <2> QED BY <2>1, <2>2, <2>3 DEF Shape
<1>3. CASE Expire
  <2>1. TypeOK'
    BY <1>3, <1>0, ConversationAssumption DEF Expire, Absent, TypeOK
  <2>2. InHand'
    BY <1>3, <1>0 DEF Expire, InHand
  <2>3. Exclusive' /\ Grounded'
    BY <1>3, <1>0 DEF Expire, Exclusive, Grounded
  <2> QED BY <2>1, <2>2, <2>3 DEF Shape
<1>4. CASE Shutdown
  <2>1. TypeOK'
    BY <1>4, <1>0 DEF Shutdown, TypeOK
  <2>2. InHand'
    BY <1>4, <1>0 DEF Shutdown, InHand
  <2>3. Exclusive' /\ Grounded'
    BY <1>4, <1>0 DEF Shutdown, Exclusive, Grounded
  <2> QED BY <2>1, <2>2, <2>3 DEF Shape
<1>5. CASE FlushCache
  <2>1. TypeOK'
    BY <1>5, <1>0 DEF FlushCache, TypeOK
  <2>2. InHand'
    BY <1>5, <1>0 DEF FlushCache, InHand
  <2>3. Exclusive' /\ Grounded'
    BY <1>5, <1>0 DEF FlushCache, Exclusive, Grounded
  <2> QED BY <2>1, <2>2, <2>3 DEF Shape
<1>6. CASE Stop
  <2>1. TypeOK'
    BY <1>6, <1>0, ConversationAssumption DEF Stop, Absent, TypeOK
  <2>2. InHand'
    BY <1>6, <1>0 DEF Stop, InHand
  <2>3. Exclusive' /\ Grounded'
    BY <1>6, <1>0 DEF Stop, Exclusive, Grounded
  <2> QED BY <2>1, <2>2, <2>3 DEF Shape
<1>7. CASE Crash
  <2>1. TypeOK'
    <3>1. /\ ctx' \in [loaded : BOOLEAN, msgs : Seq(Message)] /\ Len(ctx'.msgs) <= MaxContext
          /\ pending' \in Seq(Op) /\ Len(pending') <= MaxPending
      BY <1>7, ConversationAssumption DEF Crash, Absent
    <3>2. /\ pc' \in [Turns -> Labels] /\ job' \in [Turns -> Stages]
          /\ seen' \in [Turns -> Seq(Message)] /\ left' \in [Turns -> Seq(Message)]
      BY <1>7 DEF Crash, Labels, Stages
    <3>3. interrupted' \in BOOLEAN /\ owed' \subseteq Nat \ {0}
      BY <1>7, <1>0 DEF Crash, TypeOK, ClearDue, CutsOff
    <3> QED BY <1>7, <1>0, <3>1, <3>2, <3>3 DEF Crash, TypeOK
  <2>2. InHand'
    BY <1>7, <1>0, ConversationAssumption DEF Crash, InHand
  <2>3. Exclusive' /\ Grounded'
    BY <1>7, <1>0 DEF Crash, Exclusive, Grounded
  <2> QED BY <2>1, <2>2, <2>3 DEF Shape
<1>8. CASE Boot
  <2>1. TypeOK'
    BY <1>8, <1>0 DEF Boot, TypeOK
  <2>2. InHand'
    BY <1>8, <1>0 DEF Boot, InHand
  <2>3. Exclusive' /\ Grounded'
    BY <1>8, <1>0 DEF Boot, Exclusive, Grounded
  <2> QED BY <2>1, <2>2, <2>3 DEF Shape
<1> QED BY <1>1, <1>2, <1>3, <1>4, <1>5, <1>6, <1>7, <1>8 DEF Process

LEMMA ShapeInv == Spec => []Shape
<1>1. Init => Shape
  BY InitShape
<1>2. Shape /\ [Next]_vars => Shape'
  <2> SUFFICES ASSUME Shape, [Next]_vars PROVE Shape'
    OBVIOUS
  <2>1. CASE Next
    BY <2>1, RequestShape, JobShape, ProcessShape DEF Next
  <2>2. CASE UNCHANGED vars
    BY <2>2 DEF vars, store, turn, history, Shape, TypeOK, InHand, Exclusive, Grounded
  <2> QED BY <2>1, <2>2
<1> QED BY <1>1, <1>2, PTL DEF Spec

(* The variables have their types; memory stays within MAX_CONTEXT_MESSAGES*)
(* (state.rs:68-84) and the cache's queue within its capacity.             *)
THEOREM TypesCorrect == Spec => []TypeOK
BY ShapeInv, PTL DEF Shape

(* Every turn works from the stored pillars while its request holds the    *)
(* lane (conversation.rs:136-177, almanac.rs:38-107,                       *)
(* bazi_service.rs:77-116).                                                *)
THEOREM TurnsGrounded == Spec => []Grounded
BY ShapeInv, PTL DEF Shape

----------------------------------------------------------------------------
(* Nothing of the old profile is left behind.                              *)

Roles ==
  \A t \in Turns : pc[t] \in {"hydrate", "fill", "push", "save"} => kind[t] = "chat"

Mine == \A t \in Turns : \A i \in DOMAIN left[t] : left[t][i].basis = basis[t]

\* Without interruption a job runs under its request, hence under the lane.
Attached == ~interrupted => \A t \in Turns : job[t] \notin {"none", "done"} => pc[t] = "stream"

Derived == ~interrupted => /\ row.analysis \in {0, row.pillars}
                           /\ row.summary \in {0, row.pillars}

Sound == ~interrupted /\ ~clearLost
OfRow(s) == \A i \in DOMAIN s : s[i].basis = row.pillars
Wiping(labels) == \E t \in Turns : kind[t] = "profile" /\ pc[t] \in labels

MemoryClean == Sound => Wiping({"wipe"}) \/ OfRow(ctx.msgs)
SeenClean == Sound => \A t \in Turns : pc[t] = "fill" => OfRow(seen[t])

QueueOfRow ==
  \A i \in DOMAIN pending : pending[i].kind = "save" => pending[i].msg.basis = row.pillars
CacheClean == Sound => Wiping({"wipe", "clear", "barrier"}) \/ (OfRow(rows) /\ QueueOfRow)

\* A creation that waits for its Clear has it at the end of the queue: its
\* lane keeps everybody else from adding to it.
ClearLast(t) == /\ pending # <<>>
                /\ pending[Len(pending)].kind = "clear"
                /\ pending[Len(pending)].by = t
ClearWaits ==
  Sound => \A t \in Turns : kind[t] = "profile" /\ pc[t] = "barrier" =>
             ClearLast(t) \/ (OfRow(rows) /\ QueueOfRow)

Traces == /\ Roles /\ Mine /\ Attached /\ Derived
          /\ MemoryClean /\ SeenClean /\ CacheClean /\ ClearWaits

Functions == /\ pc \in [Turns -> Labels] /\ kind \in [Turns -> Kinds]
             /\ job \in [Turns -> Stages] /\ basis \in [Turns -> Pillars]
             /\ seen \in [Turns -> Seq(Message)] /\ left \in [Turns -> Seq(Message)]
             /\ ctx \in [loaded : BOOLEAN, msgs : Seq(Message)]
             /\ pending \in Seq(Op) /\ rows \in Seq(Message)
             /\ row \in [pillars : Pillars, analysis : Pillars, summary : Pillars, chart : Pillars]

(* What taking one element off a sequence, or adding one, leaves of it.    *)
LEMMA TailElements ==
  ASSUME NEW S, NEW q \in Seq(S), q # <<>>
  PROVE  /\ \A i \in DOMAIN Tail(q) : i + 1 \in DOMAIN q /\ Tail(q)[i] = q[i + 1]
         /\ Tail(q) # <<>> => Len(Tail(q)) + 1 = Len(q) /\ Len(Tail(q)) \in DOMAIN Tail(q)
         /\ Tail(q) = <<>> => Len(q) = 1
         /\ 1 \in DOMAIN q /\ Head(q) = q[1]
<1>1. Len(q) \in Nat \ {0} /\ DOMAIN q = 1 .. Len(q)
  OBVIOUS
<1>2. /\ Tail(q) \in Seq(S) /\ Len(Tail(q)) = Len(q) - 1
      /\ \A i \in 1 .. Len(q) - 1 : Tail(q)[i] = q[i + 1]
  OBVIOUS
<1>3. DOMAIN Tail(q) = 1 .. Len(q) - 1
  BY <1>1, <1>2
<1>4. \A i \in DOMAIN Tail(q) : i + 1 \in DOMAIN q /\ Tail(q)[i] = q[i + 1]
  BY <1>1, <1>2, <1>3
<1>5. Tail(q) # <<>> => Len(Tail(q)) \in DOMAIN Tail(q)
  BY <1>1, <1>2, <1>3
<1>6. Tail(q) = <<>> => Len(q) = 1
  <2>1. Len(<<>>) = 0
    OBVIOUS
  <2>2. Tail(q) = <<>> => Len(Tail(q)) = 0
    BY <2>1, Zenon
  <2> QED BY <1>1, <1>2, <2>2
<1>7. 1 \in DOMAIN q /\ Head(q) = q[1]
  BY <1>1
<1> QED BY <1>1, <1>2, <1>4, <1>5, <1>6, <1>7

LEMMA AppendElements ==
  ASSUME NEW S, NEW q \in Seq(S), NEW e \in S
  PROVE  /\ Append(q, e) # <<>>
         /\ Append(q, e)[Len(Append(q, e))] = e
         /\ \A i \in DOMAIN Append(q, e) :
              (i \in DOMAIN q /\ Append(q, e)[i] = q[i]) \/ Append(q, e)[i] = e
OBVIOUS

\* A message of the stored pillars keeps the queue to them.
LEMMA AppendOfRow ==
  ASSUME pending \in Seq(Op), QueueOfRow, row' = row, NEW m \in Message,
         m.basis = row.pillars, pending' = Append(pending, [kind |-> "save", msg |-> m])
  PROVE  QueueOfRow'
<1> DEFINE op == [kind |-> "save", msg |-> m]
<1>1. op \in Op /\ op.msg.basis = row.pillars
  BY DEF Op
<1>2. pending' = Append(pending, op)
  OBVIOUS
<1> HIDE DEF op
<1> QED BY <1>1, <1>2, AppendElements DEF QueueOfRow

LEMMA RequestTraces ==
  ASSUME Shape, Traces, NEW t \in Turns, Request(t)
  PROVE  Traces'
<1> USE DEF store, turn, history
<1>0. /\ Functions /\ InHand /\ Exclusive /\ Grounded
      /\ Roles /\ Mine /\ Attached /\ Derived
      /\ MemoryClean /\ SeenClean /\ CacheClean /\ ClearWaits
  BY DEF Shape, TypeOK, Functions, Traces
<1>1. ASSUME NEW k \in Kinds, Start(t, k) PROVE Traces'
  <2>1. Roles' /\ Mine' /\ Attached' /\ Derived'
    BY <1>1, <1>0 DEF Start, Goto, LaneFree, Functions, Roles, Mine, Attached, Derived
  <2>2. MemoryClean' /\ SeenClean'
    BY <1>1, <1>0
       DEF Start, Goto, LaneFree, Functions, Kinds, MemoryClean, SeenClean, Sound, OfRow,
           Wiping
  <2>3. CacheClean' /\ ClearWaits'
    BY <1>1, <1>0
       DEF Start, Goto, LaneFree, Functions, CacheClean, ClearWaits, Sound, OfRow,
           Wiping, QueueOfRow, ClearLast
  <2> QED BY <2>1, <2>2, <2>3 DEF Traces
<1>2. CASE GiveUp(t)
  <2>1. Roles' /\ Mine' /\ Attached' /\ Derived'
    BY <1>2, <1>0 DEF GiveUp, Goto, Functions, Roles, Mine, Attached, Derived
  <2>2. MemoryClean' /\ SeenClean'
    BY <1>2, <1>0
       DEF GiveUp, Goto, Functions, MemoryClean, SeenClean, Sound, OfRow, Wiping
  <2>3. CacheClean' /\ ClearWaits'
    BY <1>2, <1>0
       DEF GiveUp, Goto, Functions, CacheClean, ClearWaits, Sound, OfRow, Wiping,
           QueueOfRow, ClearLast
  <2> QED BY <2>1, <2>2, <2>3 DEF Traces
<1>3. CASE UpsertBazi(t)
  <2>1. Roles' /\ Mine' /\ Attached' /\ Derived'
    <3>1. job[t] = "none" /\ left[t] = <<>>
      BY <1>3, <1>0 DEF UpsertBazi, InHand, Functions, Stages
    <3>2. \A u \in Turns : job[u] \in {"none", "done"} \/ interrupted
      BY <1>3, <1>0 DEF UpsertBazi, InHand, Exclusive, Attached, Functions
    <3>3. row'.analysis = 0 /\ row'.summary = 0
      BY <1>3, <1>0 DEF UpsertBazi, Functions
    <3>4. Roles'
      BY <1>3, <1>0 DEF UpsertBazi, Goto, Functions, Roles
    <3>5. Mine'
      BY <1>3, <1>0, <3>1 DEF UpsertBazi, Functions, Mine
    <3>6. Attached' /\ Derived'
      BY <1>3, <3>2, <3>3 DEF UpsertBazi, Attached, Derived
    <3> QED BY <3>4, <3>5, <3>6
  <2>2. MemoryClean' /\ SeenClean'
    BY <1>3, <1>0
       DEF UpsertBazi, Goto, Functions, Exclusive, MemoryClean, SeenClean, Sound, OfRow,
           Wiping
  <2>3. CacheClean' /\ ClearWaits'
    BY <1>3, <1>0
       DEF UpsertBazi, Goto, Functions, Exclusive, CacheClean, ClearWaits, Sound, OfRow,
           Wiping, QueueOfRow, ClearLast
  <2> QED BY <2>1, <2>2, <2>3 DEF Traces
<1>4. CASE ReadProfile(t)
  <2>1. Roles' /\ Mine' /\ Attached' /\ Derived'
    <3>1. job[t] = "none" /\ left[t] = <<>>
      BY <1>4, <1>0 DEF ReadProfile, InHand, Functions, Stages
    <3>2. Mine'
      BY <1>4, <1>0, <3>1 DEF ReadProfile, Functions, Mine
    <3>3. kind[t] = "chat" \/ pc'[t] \in {"wipe", "call"}
      BY <1>4, <1>0 DEF ReadProfile, Goto, Functions, Kinds
    <3>4. Roles'
      BY <1>4, <1>0, <3>3 DEF ReadProfile, Goto, Functions, Roles
    <3>5. Attached' /\ Derived'
      BY <1>4, <1>0 DEF ReadProfile, Goto, Functions, Attached, Derived
    <3> QED BY <3>2, <3>4, <3>5
  <2>2. MemoryClean' /\ SeenClean'
    BY <1>4, <1>0
       DEF ReadProfile, Goto, Functions, Kinds, MemoryClean, SeenClean, Sound, OfRow,
           Wiping
  <2>3. CacheClean' /\ ClearWaits'
    BY <1>4, <1>0
       DEF ReadProfile, Goto, Functions, Kinds, CacheClean, ClearWaits, Sound, OfRow,
           Wiping, QueueOfRow, ClearLast
  <2> QED BY <2>1, <2>2, <2>3 DEF Traces
<1>5. CASE WipeContext(t)
  <2>1. Roles' /\ Mine' /\ Attached' /\ Derived'
    BY <1>5, <1>0 DEF WipeContext, Goto, Functions, Roles, Mine, Attached, Derived
  <2>2. MemoryClean' /\ SeenClean'
    BY <1>5, <1>0
       DEF WipeContext, Goto, Functions, MemoryClean, SeenClean, Sound, OfRow, Wiping
  <2>3. CacheClean' /\ ClearWaits'
    BY <1>5, <1>0
       DEF WipeContext, Goto, Functions, Exclusive, CacheClean, ClearWaits, Sound, OfRow,
           Wiping, QueueOfRow, ClearLast
  <2> QED BY <2>1, <2>2, <2>3 DEF Traces
<1>6. CASE ClearCache(t)
  <2>1. Roles' /\ Mine' /\ Attached' /\ Derived'
    BY <1>6, <1>0 DEF ClearCache, Goto, Functions, Roles, Mine, Attached, Derived
  <2>2. MemoryClean' /\ SeenClean'
    BY <1>6, <1>0
       DEF ClearCache, Goto, Functions, MemoryClean, SeenClean, Sound, OfRow, Wiping
  <2>3. CacheClean' /\ ClearWaits'
    <3>1. pc' = [pc EXCEPT ![t] = "barrier"] /\ kind' = kind /\ rows' = rows /\ row' = row
      BY <1>6 DEF ClearCache, Goto
    <3>2. /\ pending' # <<>>
          /\ pending'[Len(pending')].kind = "clear"
          /\ pending'[Len(pending')].by = t
          /\ \A i \in DOMAIN pending' :
               pending'[i].kind = "save" => i \in DOMAIN pending /\ pending'[i] = pending[i]
      <4> DEFINE op == [kind |-> "clear", by |-> t]
      <4>1. op \in Op /\ op.kind = "clear" /\ op.by = t
        BY DEF Op
      <4>2. pending' = Append(pending, op)
        BY <1>6 DEF ClearCache
      <4> HIDE DEF op
      <4>3. pending \in Seq(Op)
        BY <1>0 DEF Functions
      <4> QED BY <4>1, <4>2, <4>3, AppendElements
    <3>3. \A u \in Turns : pc'[u] = "barrier" => u = t
      BY <1>0, <3>1, <1>6 DEF ClearCache, Exclusive, Functions
    <3>4. ClearWaits'
      BY <3>2, <3>3 DEF ClearWaits, ClearLast
    <3>5. CacheClean'
      <4>1. CASE kind[t] = "profile"
        BY <1>0, <3>1, <4>1 DEF CacheClean, Wiping, Functions
      <4>2. CASE kind[t] # "profile"
        <5>1. ~Wiping({"wipe", "clear", "barrier"})
          BY <1>6, <1>0, <4>2 DEF ClearCache, Wiping, Exclusive
        <5>2. QueueOfRow => QueueOfRow'
          BY <3>1, <3>2 DEF QueueOfRow
        <5> QED BY <1>6, <1>0, <3>1, <5>1, <5>2 DEF ClearCache, history, CacheClean, Sound, OfRow
      <4> QED BY <4>1, <4>2
    <3> QED BY <3>4, <3>5
  <2> QED BY <2>1, <2>2, <2>3 DEF Traces
<1>7. CASE ClearReturns(t)
  <2>1. Roles' /\ Mine' /\ Attached' /\ Derived'
    BY <1>7, <1>0 DEF ClearReturns, Goto, Functions, Roles, Mine, Attached, Derived
  <2>2. MemoryClean' /\ SeenClean'
    BY <1>7, <1>0
       DEF ClearReturns, Goto, Functions, MemoryClean, SeenClean, Sound, OfRow, Wiping
  <2>3. CacheClean' /\ ClearWaits'
    BY <1>7, <1>0
       DEF ClearReturns, Goto, Functions, Exclusive, CacheClean, ClearWaits, Sound,
           OfRow, Wiping, QueueOfRow, ClearLast
  <2> QED BY <2>1, <2>2, <2>3 DEF Traces
<1>8. CASE PutChart(t)
  <2>1. Roles' /\ Mine' /\ Attached' /\ Derived'
    BY <1>8, <1>0 DEF PutChart, Goto, Functions, Roles, Mine, Attached, Derived
  <2>2. MemoryClean' /\ SeenClean'
    BY <1>8, <1>0
       DEF PutChart, Goto, Functions, MemoryClean, SeenClean, Sound, OfRow, Wiping
  <2>3. CacheClean' /\ ClearWaits'
    BY <1>8, <1>0
       DEF PutChart, Goto, Functions, CacheClean, ClearWaits, Sound, OfRow, Wiping,
           QueueOfRow, ClearLast
  <2> QED BY <2>1, <2>2, <2>3 DEF Traces
<1>9. CASE Hydrate(t)
  <2>1. Roles' /\ Mine' /\ Attached' /\ Derived'
    BY <1>9, <1>0 DEF Hydrate, Goto, Functions, Roles, Mine, Attached, Derived
  <2>2. MemoryClean' /\ SeenClean'
    <3>1. /\ ctx' = ctx /\ row' = row /\ kind' = kind
          /\ interrupted' = interrupted /\ clearLost' = clearLost
      BY <1>9 DEF Hydrate
    <3>2. MemoryClean'
      BY <1>9, <1>0, <3>1 DEF Hydrate, Goto, Functions, MemoryClean, Sound, OfRow, Wiping
    <3>3. ~Wiping({"wipe", "clear", "barrier"})
      BY <1>9, <1>0 DEF Hydrate, Wiping, Exclusive
    <3> DEFINE r == Newest(rows, MaxContext)
    <3>4. \A i \in DOMAIN r : \E j \in DOMAIN rows : r[i] = rows[j]
      <4>1. rows \in Seq(Message) /\ MaxContext \in Nat
        BY <1>0, ConversationAssumption DEF Functions
      <4> QED BY <4>1, NewestElements
    <3>5. Sound => OfRow(r)
      <4> HIDE DEF r
      <4> QED BY <1>0, <3>3, <3>4 DEF CacheClean, OfRow
    <3>6. \/ seen' = seen /\ pc' = [pc EXCEPT ![t] = "push"]
          \/ seen' = [seen EXCEPT ![t] = r]
      BY <1>9 DEF Hydrate, Goto
    <3> HIDE DEF r
    <3>7. \A u \in Turns \ {t} : pc'[u] = pc[u]
      BY <1>9, <1>0 DEF Hydrate, Goto, Functions
    <3>8. SeenClean'
      <4> SUFFICES ASSUME Sound', NEW u \in Turns, pc'[u] = "fill"
                   PROVE  \A i \in DOMAIN seen'[u] : seen'[u][i].basis = row'.pillars
        BY DEF SeenClean, OfRow
      <4>1. Sound
        BY <3>1 DEF Sound
      <4>2. CASE u = t
        <5>1. seen'[u] = r
          BY <1>9, <1>0, <3>6, <4>2 DEF Functions
        <5> QED BY <3>1, <3>5, <4>1, <5>1 DEF OfRow
      <4>3. CASE u # t
        <5>1. seen'[u] = seen[u] /\ pc[u] = "fill"
          BY <1>0, <3>6, <3>7, <4>3 DEF Functions
        <5> QED BY <1>0, <3>1, <4>1, <5>1 DEF SeenClean, OfRow
      <4> QED BY <4>2, <4>3
    <3> QED BY <3>2, <3>8
  <2>3. CacheClean' /\ ClearWaits'
    BY <1>9, <1>0
       DEF Hydrate, Goto, Functions, Exclusive, CacheClean, ClearWaits, Sound, OfRow,
           Wiping, QueueOfRow, ClearLast
  <2> QED BY <2>1, <2>2, <2>3 DEF Traces
<1>10. CASE FillContext(t)
  <2>1. Roles' /\ Mine' /\ Attached' /\ Derived'
    BY <1>10, <1>0 DEF FillContext, Goto, Functions, Roles, Mine, Attached, Derived
  <2>2. MemoryClean' /\ SeenClean'
    BY <1>10, <1>0
       DEF FillContext, Goto, Functions, Exclusive, MemoryClean, SeenClean, Sound, OfRow,
           Wiping
  <2>3. CacheClean' /\ ClearWaits'
    BY <1>10, <1>0
       DEF FillContext, Goto, Functions, CacheClean, ClearWaits, Sound, OfRow, Wiping,
           QueueOfRow, ClearLast
  <2> QED BY <2>1, <2>2, <2>3 DEF Traces
<1>11. CASE PushMessage(t)
  <2>1. Roles' /\ Mine' /\ Attached' /\ Derived'
    <3>1. basis[t] \in Pillars /\ messages \in Nat
      BY <1>0 DEF Functions, Shape, TypeOK
    <3> DEFINE new == Fresh(1, basis[t])
    <3>2. \A i \in DOMAIN new : new[i].basis = basis[t]
      BY <3>1, FreshMessages
    <3>3. left' = [left EXCEPT ![t] = new] /\ basis' = basis
      BY <1>11 DEF PushMessage
    <3> HIDE DEF new
    <3>4. Mine'
      BY <1>0, <3>2, <3>3 DEF Functions, Mine
    <3>5. Roles' /\ Attached' /\ Derived'
      BY <1>11, <1>0 DEF PushMessage, Goto, Functions, Roles, Attached, Derived
    <3> QED BY <3>4, <3>5
  <2>2. MemoryClean' /\ SeenClean'
    <3>1. basis[t] \in Pillars /\ messages \in Nat
      BY <1>0 DEF Functions, Shape, TypeOK
    <3> DEFINE new == Fresh(1, basis[t])
    <3>2. new \in Seq(Message) /\ \A i \in DOMAIN new : new[i].basis = basis[t]
      BY <3>1, FreshMessages
    <3>3. ctx' = [ctx EXCEPT !.msgs = PushTurn(@, new)] /\ row' = row /\ kind' = kind
      BY <1>11 DEF PushMessage
    <3> HIDE DEF new
    <3>4. Sound => OfRow(new) /\ ~Wiping({"wipe"})
      <4>1. basis[t] = row.pillars
        BY <1>11, <1>0 DEF PushMessage, Grounded
      <4>2. ~Wiping({"wipe"})
        BY <1>11, <1>0 DEF PushMessage, Wiping, Exclusive
      <4> QED BY <3>2, <4>1, <4>2 DEF OfRow
    <3> DEFINE r == PushTurn(ctx.msgs, new)
    <3>5. \A i \in DOMAIN r : \/ \E j \in DOMAIN ctx.msgs : r[i] = ctx.msgs[j]
                              \/ \E j \in DOMAIN new : r[i] = new[j]
      BY <3>2, <1>0, PushTurnElements DEF Functions
    <3>6. ctx'.msgs = r
      BY <3>3, <1>0 DEF Functions
    <3> HIDE DEF r
    <3>7. Sound => OfRow(r)
      BY <1>0, <3>4, <3>5 DEF MemoryClean, OfRow
    <3>8. MemoryClean'
      BY <1>11, <3>3, <3>6, <3>7 DEF PushMessage, MemoryClean, Sound, OfRow
    <3>9. SeenClean'
      BY <1>11, <1>0 DEF PushMessage, Goto, SeenClean, Sound, OfRow, Functions
    <3> QED BY <3>8, <3>9
  <2>3. CacheClean' /\ ClearWaits'
    BY <1>11, <1>0
       DEF PushMessage, Goto, Functions, CacheClean, ClearWaits, Sound, OfRow, Wiping,
           QueueOfRow, ClearLast
  <2> QED BY <2>1, <2>2, <2>3 DEF Traces
<1>12. CASE SaveMessage(t)
  <2>1. Roles' /\ Mine' /\ Attached' /\ Derived'
    BY <1>12, <1>0 DEF SaveMessage, Goto, Functions, Roles, Mine, Attached, Derived
  <2>2. MemoryClean' /\ SeenClean'
    BY <1>12, <1>0
       DEF SaveMessage, Goto, Functions, MemoryClean, SeenClean, Sound, OfRow, Wiping
  <2>3. CacheClean' /\ ClearWaits'
    <3>1. left[t] # <<>> /\ Head(left[t]) \in Message /\ Head(left[t]).basis = basis[t]
      BY <1>12, <1>0 DEF SaveMessage, InHand, Mine, Functions
    <3>2. basis[t] = row.pillars /\ pc[t] = "save"
      BY <1>12, <1>0 DEF SaveMessage, Grounded
    <3>3. /\ rows' = rows /\ row' = row /\ kind' = kind
          /\ interrupted' = interrupted /\ clearLost' = clearLost
      BY <1>12 DEF SaveMessage
    <3>4. \/ pending' = pending
          \/ \E m \in Message : /\ m.basis = basis[t]
                                /\ pending' = Append(pending, [kind |-> "save", msg |-> m])
      BY <1>12, <3>1 DEF SaveMessage, Enqueue
    <3>5. Sound => (QueueOfRow => QueueOfRow')
      <4> SUFFICES ASSUME Sound, QueueOfRow PROVE QueueOfRow'
        OBVIOUS
      <4>1. CASE pending' = pending
        BY <3>3, <4>1 DEF QueueOfRow
      <4>2. CASE pending' # pending
        <5>1. PICK m \in Message : /\ m.basis = basis[t]
                                   /\ pending' = Append(pending, [kind |-> "save", msg |-> m])
          BY <3>4, <4>2
        <5>2. pending \in Seq(Op)
          BY <1>0 DEF Functions
        <5> QED BY <3>2, <3>3, <5>1, <5>2, AppendOfRow
      <4> QED BY <4>1, <4>2
    <3>6. Sound => ~Wiping({"wipe", "clear", "barrier"}) /\ ~Wiping({"wipe", "clear", "barrier"})'
      BY <1>12, <1>0, <3>2 DEF SaveMessage, Goto, Wiping, Exclusive, Functions
    <3>7. CacheClean'
      BY <1>0, <3>3, <3>5, <3>6 DEF CacheClean, Sound, OfRow
    <3>8. ClearWaits'
      BY <3>3, <3>6 DEF ClearWaits, Wiping, Sound
    <3> QED BY <3>7, <3>8
  <2> QED BY <2>1, <2>2, <2>3 DEF Traces
<1>13. CASE Answer(t)
  <2>1. Roles' /\ Mine' /\ Attached' /\ Derived'
    BY <1>13, <1>0 DEF Answer, Goto, Stage, Functions, Roles, Mine, Attached, Derived
  <2>2. MemoryClean' /\ SeenClean'
    BY <1>13, <1>0
       DEF Answer, Goto, Stage, Functions, MemoryClean, SeenClean, Sound, OfRow, Wiping
  <2>3. CacheClean' /\ ClearWaits'
    BY <1>13, <1>0
       DEF Answer, Goto, Stage, Functions, CacheClean, ClearWaits, Sound, OfRow, Wiping,
           QueueOfRow, ClearLast
  <2> QED BY <2>1, <2>2, <2>3 DEF Traces
<1>14. CASE AnswerScheduled(t)
  <2>1. Roles' /\ Mine' /\ Attached' /\ Derived'
    BY <1>14, <1>0 DEF AnswerScheduled, Goto, Functions, Roles, Mine, Attached, Derived
  <2>2. MemoryClean' /\ SeenClean'
    BY <1>14, <1>0
       DEF AnswerScheduled, Goto, Functions, MemoryClean, SeenClean, Sound, OfRow, Wiping
  <2>3. CacheClean' /\ ClearWaits'
    BY <1>14, <1>0
       DEF AnswerScheduled, Goto, Functions, CacheClean, ClearWaits, Sound, OfRow,
           Wiping, QueueOfRow, ClearLast
  <2> QED BY <2>1, <2>2, <2>3 DEF Traces
<1>15. CASE Deliver(t)
  <2>1. Roles' /\ Mine' /\ Attached' /\ Derived'
    BY <1>15, <1>0 DEF Deliver, Goto, Functions, Roles, Mine, Attached, Derived
  <2>2. MemoryClean' /\ SeenClean'
    BY <1>15, <1>0
       DEF Deliver, Goto, Functions, MemoryClean, SeenClean, Sound, OfRow, Wiping
  <2>3. CacheClean' /\ ClearWaits'
    <3>1. Fresh(1, basis[t])[1] \in Message /\ Fresh(1, basis[t])[1].basis = basis[t]
      <4>1. basis[t] \in Pillars /\ messages \in Nat
        BY <1>0 DEF Functions, Shape, TypeOK
      <4> QED BY <4>1 DEF Fresh, Message, Pillars
    <3>2. basis[t] = row.pillars /\ pc[t] = "deliver"
      BY <1>15, <1>0 DEF Deliver, Grounded
    <3>3. /\ rows' = rows /\ row' = row /\ kind' = kind
          /\ interrupted' = interrupted /\ clearLost' = clearLost
      BY <1>15 DEF Deliver
    <3>4. \/ pending' = pending
          \/ \E m \in Message : /\ m.basis = basis[t]
                                /\ pending' = Append(pending, [kind |-> "save", msg |-> m])
      BY <1>15, <3>1 DEF Deliver
    <3>5. Sound => (QueueOfRow => QueueOfRow')
      <4> SUFFICES ASSUME Sound, QueueOfRow PROVE QueueOfRow'
        OBVIOUS
      <4>1. CASE pending' = pending
        BY <3>3, <4>1 DEF QueueOfRow
      <4>2. CASE pending' # pending
        <5>1. PICK m \in Message : /\ m.basis = basis[t]
                                   /\ pending' = Append(pending, [kind |-> "save", msg |-> m])
          BY <3>4, <4>2
        <5>2. pending \in Seq(Op)
          BY <1>0 DEF Functions
        <5> QED BY <3>2, <3>3, <5>1, <5>2, AppendOfRow
      <4> QED BY <4>1, <4>2
    <3>6. Sound => ~Wiping({"wipe", "clear", "barrier"}) /\ ~Wiping({"wipe", "clear", "barrier"})'
      BY <1>15, <1>0, <3>2 DEF Deliver, Goto, Wiping, Exclusive, Functions
    <3>7. CacheClean'
      BY <1>0, <3>3, <3>5, <3>6 DEF CacheClean, Sound, OfRow
    <3>8. ClearWaits'
      BY <3>3, <3>6 DEF ClearWaits, Wiping, Sound
    <3> QED BY <3>7, <3>8
  <2> QED BY <2>1, <2>2, <2>3 DEF Traces
<1>16. CASE Return(t)
  <2>1. Roles' /\ Mine' /\ Attached' /\ Derived'
    BY <1>16, <1>0 DEF Return, Goto, Stage, Functions, Roles, Mine, Attached, Derived
  <2>2. MemoryClean' /\ SeenClean'
    BY <1>16, <1>0
       DEF Return, Goto, Stage, Functions, MemoryClean, SeenClean, Sound, OfRow, Wiping
  <2>3. CacheClean' /\ ClearWaits'
    BY <1>16, <1>0
       DEF Return, Goto, Stage, Functions, CacheClean, ClearWaits, Sound, OfRow, Wiping,
           QueueOfRow, ClearLast
  <2> QED BY <2>1, <2>2, <2>3 DEF Traces
<1>17. CASE Abandon(t)
  <2>1. Roles' /\ Mine' /\ Attached' /\ Derived'
    <3>1. /\ pc' = [pc EXCEPT ![t] = "idle"] /\ kind' = kind /\ job' = job /\ left' = left /\ basis' = basis
          /\ row' = row /\ interrupted' = (interrupted \/ CutsOff(t))
      BY <1>17 DEF Abandon, Goto
    <3>2. Roles' /\ Mine' /\ Derived'
      BY <1>0, <3>1 DEF Functions, Roles, Mine, Derived
    <3>3. Attached'
      BY <1>0, <3>1 DEF Functions, Attached, CutsOff
    <3> QED BY <3>2, <3>3
  <2>2. MemoryClean' /\ SeenClean'
    BY <1>17, <1>0
       DEF Abandon, Goto, CutsOff, Awaits, Functions, MemoryClean, SeenClean, Sound,
           OfRow, Wiping
  <2>3. CacheClean' /\ ClearWaits'
    BY <1>17, <1>0
       DEF Abandon, Goto, CutsOff, Awaits, Functions, CacheClean, ClearWaits, Sound,
           OfRow, Wiping, QueueOfRow, ClearLast
  <2> QED BY <2>1, <2>2, <2>3 DEF Traces
<1> QED BY <1>1, <1>2, <1>3, <1>4, <1>5, <1>6, <1>7, <1>8, <1>9, <1>10,
           <1>11, <1>12, <1>13, <1>14, <1>15, <1>16, <1>17 DEF Request

LEMMA JobTraces ==
  ASSUME Shape, Traces, NEW t \in Turns, Job(t)
  PROVE  Traces'
<1> USE DEF store, turn, history
<1>0. /\ Functions /\ InHand /\ Exclusive /\ Grounded
      /\ Roles /\ Mine /\ Attached /\ Derived
      /\ MemoryClean /\ SeenClean /\ CacheClean /\ ClearWaits
  BY DEF Shape, TypeOK, Functions, Traces
<1>1. CASE Collect(t)
  <2>1. Roles' /\ Mine' /\ Attached' /\ Derived'
    <3>1. basis[t] \in Pillars /\ messages \in Nat
      BY <1>0 DEF Functions, Shape, TypeOK
    <3> DEFINE new == Replies(t)
    <3>2. \A i \in DOMAIN new : new[i].basis = basis[t]
      BY <3>1, FreshMessages DEF Replies
    <3>3. left' = [left EXCEPT ![t] = new] /\ basis' = basis
      BY <1>1 DEF Collect
    <3> HIDE DEF new
    <3>4. Mine'
      BY <1>0, <3>2, <3>3 DEF Functions, Mine
    <3>5. Roles' /\ Attached' /\ Derived'
      BY <1>1, <1>0 DEF Collect, Stage, Functions, Roles, Attached, Derived
    <3> QED BY <3>4, <3>5
  <2>2. MemoryClean' /\ SeenClean'
    BY <1>1, <1>0
       DEF Collect, Stage, Replies, Functions, MemoryClean, SeenClean, Sound, OfRow,
           Wiping
  <2>3. CacheClean' /\ ClearWaits'
    BY <1>1, <1>0
       DEF Collect, Stage, Replies, Functions, CacheClean, ClearWaits, Sound, OfRow,
           Wiping, QueueOfRow, ClearLast
  <2> QED BY <2>1, <2>2, <2>3 DEF Traces
<1>2. CASE CollectFails(t)
  <2>1. Roles' /\ Mine' /\ Attached' /\ Derived'
    BY <1>2, <1>0 DEF CollectFails, Stage, Functions, Roles, Mine, Attached, Derived
  <2>2. MemoryClean' /\ SeenClean'
    BY <1>2, <1>0
       DEF CollectFails, Stage, Functions, MemoryClean, SeenClean, Sound, OfRow, Wiping
  <2>3. CacheClean' /\ ClearWaits'
    BY <1>2, <1>0
       DEF CollectFails, Stage, Functions, CacheClean, ClearWaits, Sound, OfRow, Wiping,
           QueueOfRow, ClearLast
  <2> QED BY <2>1, <2>2, <2>3 DEF Traces
<1>3. CASE SaveAnalysis(t)
  <2>1. Roles' /\ Mine' /\ Attached' /\ Derived'
    BY <1>3, <1>0
       DEF SaveAnalysis, Stage, Functions, Grounded, Roles, Mine, Attached, Derived
  <2>2. MemoryClean' /\ SeenClean'
    BY <1>3, <1>0
       DEF SaveAnalysis, Stage, Functions, MemoryClean, SeenClean, Sound, OfRow, Wiping
  <2>3. CacheClean' /\ ClearWaits'
    BY <1>3, <1>0
       DEF SaveAnalysis, Stage, Functions, CacheClean, ClearWaits, Sound, OfRow, Wiping,
           QueueOfRow, ClearLast
  <2> QED BY <2>1, <2>2, <2>3 DEF Traces
<1>4. CASE PushReply(t)
  <2>1. Roles' /\ Mine' /\ Attached' /\ Derived'
    BY <1>4, <1>0 DEF PushReply, Stage, Functions, Roles, Mine, Attached, Derived
  <2>2. MemoryClean' /\ SeenClean'
    <3>1. left[t] \in Seq(Message)
      BY <1>0 DEF Functions
    <3> DEFINE new == left[t]
    <3>2. new \in Seq(Message) /\ \A i \in DOMAIN new : new[i].basis = basis[t]
      BY <1>0, <3>1 DEF Mine
    <3>3. ctx' = [ctx EXCEPT !.msgs = PushTurn(@, new)] /\ row' = row /\ kind' = kind
      BY <1>4 DEF PushReply
    <3> HIDE DEF new
    <3>4. Sound => OfRow(new) /\ ~Wiping({"wipe"})
      <4> SUFFICES ASSUME Sound PROVE OfRow(new) /\ ~Wiping({"wipe"})
        OBVIOUS
      <4>1. pc[t] = "stream"
        BY <1>4, <1>0 DEF PushReply, Attached, Sound
      <4>2. basis[t] = row.pillars
        BY <1>0, <4>1 DEF Grounded
      <4>3. ~Wiping({"wipe"})
        BY <1>0, <4>1 DEF Wiping, Exclusive
      <4> QED BY <3>2, <4>2, <4>3 DEF OfRow
    <3> DEFINE r == PushTurn(ctx.msgs, new)
    <3>5. \A i \in DOMAIN r : \/ \E j \in DOMAIN ctx.msgs : r[i] = ctx.msgs[j]
                              \/ \E j \in DOMAIN new : r[i] = new[j]
      BY <3>2, <1>0, PushTurnElements DEF Functions
    <3>6. ctx'.msgs = r
      BY <3>3, <1>0 DEF Functions
    <3> HIDE DEF r
    <3>7. Sound => OfRow(r)
      BY <1>0, <3>4, <3>5 DEF MemoryClean, OfRow
    <3>8. MemoryClean'
      BY <1>4, <3>3, <3>6, <3>7 DEF PushReply, MemoryClean, Sound, OfRow
    <3>9. SeenClean'
      BY <1>4, <1>0 DEF PushReply, SeenClean, Sound, OfRow, Functions
    <3> QED BY <3>8, <3>9
  <2>3. CacheClean' /\ ClearWaits'
    BY <1>4, <1>0
       DEF PushReply, Stage, Functions, CacheClean, ClearWaits, Sound, OfRow, Wiping,
           QueueOfRow, ClearLast
  <2> QED BY <2>1, <2>2, <2>3 DEF Traces
<1>5. CASE SaveReply(t)
  <2>1. Roles' /\ Mine' /\ Attached' /\ Derived'
    BY <1>5, <1>0 DEF SaveReply, Functions, Roles, Mine, Attached, Derived
  <2>2. MemoryClean' /\ SeenClean'
    BY <1>5, <1>0 DEF SaveReply, Functions, MemoryClean, SeenClean, Sound, OfRow, Wiping
  <2>3. CacheClean' /\ ClearWaits'
    <3>1. left[t] # <<>> /\ Head(left[t]) \in Message /\ Head(left[t]).basis = basis[t]
      BY <1>5, <1>0 DEF SaveReply, Mine, Functions
    <3>2. Sound => basis[t] = row.pillars /\ pc[t] = "stream"
      BY <1>5, <1>0 DEF SaveReply, Attached, Sound, Grounded
    <3>3. /\ rows' = rows /\ row' = row /\ kind' = kind
          /\ interrupted' = interrupted /\ clearLost' = clearLost
      BY <1>5 DEF SaveReply
    <3>4. \/ pending' = pending
          \/ \E m \in Message : /\ m.basis = basis[t]
                                /\ pending' = Append(pending, [kind |-> "save", msg |-> m])
      BY <1>5, <3>1 DEF SaveReply, Enqueue
    <3>5. Sound => (QueueOfRow => QueueOfRow')
      <4> SUFFICES ASSUME Sound, QueueOfRow PROVE QueueOfRow'
        OBVIOUS
      <4>1. CASE pending' = pending
        BY <3>3, <4>1 DEF QueueOfRow
      <4>2. CASE pending' # pending
        <5>1. PICK m \in Message : /\ m.basis = basis[t]
                                   /\ pending' = Append(pending, [kind |-> "save", msg |-> m])
          BY <3>4, <4>2
        <5>2. pending \in Seq(Op)
          BY <1>0 DEF Functions
        <5> QED BY <3>2, <3>3, <5>1, <5>2, AppendOfRow
      <4> QED BY <4>1, <4>2
    <3>6. Sound => ~Wiping({"wipe", "clear", "barrier"}) /\ ~Wiping({"wipe", "clear", "barrier"})'
      BY <1>5, <1>0, <3>2 DEF SaveReply, Goto, Wiping, Exclusive, Functions
    <3>7. CacheClean'
      BY <1>0, <3>3, <3>5, <3>6 DEF CacheClean, Sound, OfRow
    <3>8. ClearWaits'
      BY <3>3, <3>6 DEF ClearWaits, Wiping, Sound
    <3> QED BY <3>7, <3>8
  <2> QED BY <2>1, <2>2, <2>3 DEF Traces
<1>6. CASE ReplySaved(t)
  <2>1. Roles' /\ Mine' /\ Attached' /\ Derived'
    BY <1>6, <1>0 DEF ReplySaved, Stage, Functions, Roles, Mine, Attached, Derived
  <2>2. MemoryClean' /\ SeenClean'
    BY <1>6, <1>0
       DEF ReplySaved, Stage, Functions, MemoryClean, SeenClean, Sound, OfRow, Wiping
  <2>3. CacheClean' /\ ClearWaits'
    BY <1>6, <1>0
       DEF ReplySaved, Stage, Functions, CacheClean, ClearWaits, Sound, OfRow, Wiping,
           QueueOfRow, ClearLast
  <2> QED BY <2>1, <2>2, <2>3 DEF Traces
<1>7. CASE SaveSummary(t)
  <2>1. Roles' /\ Mine' /\ Attached' /\ Derived'
    BY <1>7, <1>0
       DEF SaveSummary, Stage, Functions, Grounded, Roles, Mine, Attached, Derived
  <2>2. MemoryClean' /\ SeenClean'
    BY <1>7, <1>0
       DEF SaveSummary, Stage, Functions, MemoryClean, SeenClean, Sound, OfRow, Wiping
  <2>3. CacheClean' /\ ClearWaits'
    BY <1>7, <1>0
       DEF SaveSummary, Stage, Functions, CacheClean, ClearWaits, Sound, OfRow, Wiping,
           QueueOfRow, ClearLast
  <2> QED BY <2>1, <2>2, <2>3 DEF Traces
<1>8. CASE JobEnds(t)
  <2>1. Roles' /\ Mine' /\ Attached' /\ Derived'
    BY <1>8, <1>0 DEF JobEnds, Stage, Functions, Roles, Mine, Attached, Derived
  <2>2. MemoryClean' /\ SeenClean'
    BY <1>8, <1>0
       DEF JobEnds, Stage, Functions, MemoryClean, SeenClean, Sound, OfRow, Wiping
  <2>3. CacheClean' /\ ClearWaits'
    BY <1>8, <1>0
       DEF JobEnds, Stage, Functions, CacheClean, ClearWaits, Sound, OfRow, Wiping,
           QueueOfRow, ClearLast
  <2> QED BY <2>1, <2>2, <2>3 DEF Traces
<1> QED BY <1>1, <1>2, <1>3, <1>4, <1>5, <1>6, <1>7, <1>8 DEF Job

LEMMA ProcessTraces ==
  ASSUME Shape, Traces, Process
  PROVE  Traces'
<1> USE DEF store, turn, history
<1>0. /\ Functions /\ InHand /\ Exclusive /\ Grounded
      /\ Roles /\ Mine /\ Attached /\ Derived
      /\ MemoryClean /\ SeenClean /\ CacheClean /\ ClearWaits
  BY DEF Shape, TypeOK, Functions, Traces
<1>1. CASE Commit
  <2>1. Roles' /\ Mine' /\ Attached' /\ Derived'
    BY <1>1, <1>0 DEF Commit, Functions, Roles, Mine, Attached, Derived
  <2>2. MemoryClean' /\ SeenClean'
    BY <1>1, <1>0 DEF Commit, Functions, MemoryClean, SeenClean, Sound, OfRow, Wiping
  <2>3. CacheClean' /\ ClearWaits'
    <3>1. /\ row' = row /\ pc' = pc /\ kind' = kind /\ interrupted' = interrupted /\ clearLost' = clearLost
          /\ pending # <<>> /\ pending' = Tail(pending)
      BY <1>1 DEF Commit
    <3>2. /\ \A i \in DOMAIN pending' : i + 1 \in DOMAIN pending /\ pending'[i] = pending[i + 1]
          /\ pending' # <<>> => Len(pending') + 1 = Len(pending) /\ Len(pending') \in DOMAIN pending'
          /\ pending' = <<>> => Len(pending) = 1
          /\ 1 \in DOMAIN pending /\ Head(pending) = pending[1]
      <4>1. pending \in Seq(Op)
        BY <1>0 DEF Functions
      <4> QED BY <3>1, <4>1, TailElements
    <3>3. QueueOfRow => QueueOfRow'
      BY <3>1, <3>2 DEF QueueOfRow
    <3>4. OfRow(rows) /\ QueueOfRow => OfRow(rows)'
      <4>1. CASE Head(pending).kind = "save"
        <5>1. rows' = Append(rows, pending[1].msg) /\ pending[1].kind = "save"
          BY <1>1, <3>2, <4>1 DEF Commit
        <5> QED BY <1>0, <3>1, <3>2, <5>1 DEF OfRow, QueueOfRow, Functions
      <4>2. CASE Head(pending).kind # "save"
        <5>1. rows' = <<>>
          BY <1>1, <4>2 DEF Commit
        <5> QED BY <5>1 DEF OfRow
      <4> QED BY <4>1, <4>2
    <3>5. CacheClean'
      BY <1>0, <3>1, <3>3, <3>4 DEF CacheClean, Sound, Wiping
    <3>6. \A u \in Turns : ClearLast(u) => ClearLast(u)' \/ (OfRow(rows)' /\ QueueOfRow')
      <4> TAKE u \in Turns
      <4> HAVE ClearLast(u)
      <4>1. CASE pending' # <<>>
        BY <3>1, <3>2, <4>1 DEF ClearLast
      <4>2. CASE pending' = <<>>
        <5>1. Head(pending).kind = "clear"
          BY <3>2, <4>2 DEF ClearLast
        <5>2. rows' = <<>>
          BY <1>1, <5>1 DEF Commit
        <5> QED BY <4>2, <5>2 DEF OfRow, QueueOfRow
      <4> QED BY <4>1, <4>2
    <3>7. ClearWaits'
      BY <1>0, <3>1, <3>3, <3>4, <3>6 DEF ClearWaits, Sound
    <3> QED BY <3>5, <3>7
  <2> QED BY <2>1, <2>2, <2>3 DEF Traces
<1>2. CASE Rollback
  <2>1. Roles' /\ Mine' /\ Attached' /\ Derived'
    BY <1>2, <1>0 DEF Rollback, Functions, Roles, Mine, Attached, Derived
  <2>2. MemoryClean' /\ SeenClean'
    BY <1>2, <1>0 DEF Rollback, Functions, MemoryClean, SeenClean, Sound, OfRow, Wiping
  <2>3. CacheClean' /\ ClearWaits'
    <3>1. /\ row' = row /\ pc' = pc /\ kind' = kind /\ interrupted' = interrupted /\ rows' = rows
          /\ pending # <<>> /\ pending' = Tail(pending)
          /\ (clearLost' = clearLost /\ Head(pending).kind = "save") \/ clearLost'
      BY <1>2 DEF Rollback
    <3>2. /\ \A i \in DOMAIN pending' : i + 1 \in DOMAIN pending /\ pending'[i] = pending[i + 1]
          /\ pending' # <<>> => Len(pending') + 1 = Len(pending) /\ Len(pending') \in DOMAIN pending'
          /\ pending' = <<>> => Len(pending) = 1
          /\ 1 \in DOMAIN pending /\ Head(pending) = pending[1]
      <4>1. pending \in Seq(Op)
        BY <1>0 DEF Functions
      <4> QED BY <3>1, <4>1, TailElements
    <3>3. (QueueOfRow => QueueOfRow') /\ (OfRow(rows) => OfRow(rows)')
      BY <3>1, <3>2 DEF QueueOfRow, OfRow
    <3>4. CacheClean'
      BY <1>0, <3>1, <3>3 DEF CacheClean, Sound, Wiping
    <3>5. \A u \in Turns : ClearLast(u) => ClearLast(u)' \/ clearLost'
      BY <3>1, <3>2 DEF ClearLast
    <3>6. ClearWaits'
      BY <1>0, <3>1, <3>3, <3>5 DEF ClearWaits, Sound
    <3> QED BY <3>4, <3>6
  <2> QED BY <2>1, <2>2, <2>3 DEF Traces
<1>3. CASE Expire
  <2>1. Roles' /\ Mine' /\ Attached' /\ Derived'
    BY <1>3, <1>0 DEF Expire, Absent, Functions, Roles, Mine, Attached, Derived
  <2>2. MemoryClean' /\ SeenClean'
    BY <1>3, <1>0
       DEF Expire, Absent, Functions, MemoryClean, SeenClean, Sound, OfRow, Wiping
  <2>3. CacheClean' /\ ClearWaits'
    BY <1>3, <1>0
       DEF Expire, Absent, Functions, CacheClean, ClearWaits, Sound, OfRow, Wiping,
           QueueOfRow, ClearLast
  <2> QED BY <2>1, <2>2, <2>3 DEF Traces
<1>4. CASE Shutdown
  <2>1. Roles' /\ Mine' /\ Attached' /\ Derived'
    BY <1>4, <1>0 DEF Shutdown, Functions, Roles, Mine, Attached, Derived
  <2>2. MemoryClean' /\ SeenClean'
    BY <1>4, <1>0 DEF Shutdown, Functions, MemoryClean, SeenClean, Sound, OfRow, Wiping
  <2>3. CacheClean' /\ ClearWaits'
    BY <1>4, <1>0
       DEF Shutdown, Functions, CacheClean, ClearWaits, Sound, OfRow, Wiping, QueueOfRow,
           ClearLast
  <2> QED BY <2>1, <2>2, <2>3 DEF Traces
<1>5. CASE FlushCache
  <2>1. Roles' /\ Mine' /\ Attached' /\ Derived'
    BY <1>5, <1>0 DEF FlushCache, Functions, Roles, Mine, Attached, Derived
  <2>2. MemoryClean' /\ SeenClean'
    BY <1>5, <1>0 DEF FlushCache, Functions, MemoryClean, SeenClean, Sound, OfRow, Wiping
  <2>3. CacheClean' /\ ClearWaits'
    BY <1>5, <1>0
       DEF FlushCache, Functions, CacheClean, ClearWaits, Sound, OfRow, Wiping,
           QueueOfRow, ClearLast
  <2> QED BY <2>1, <2>2, <2>3 DEF Traces
<1>6. CASE Stop
  <2>1. Roles' /\ Mine' /\ Attached' /\ Derived'
    BY <1>6, <1>0 DEF Stop, Absent, Functions, Roles, Mine, Attached, Derived
  <2>2. MemoryClean' /\ SeenClean'
    BY <1>6, <1>0
       DEF Stop, Absent, Functions, MemoryClean, SeenClean, Sound, OfRow, Wiping
  <2>3. CacheClean' /\ ClearWaits'
    BY <1>6, <1>0
       DEF Stop, Absent, Functions, CacheClean, ClearWaits, Sound, OfRow, Wiping,
           QueueOfRow, ClearLast
  <2> QED BY <2>1, <2>2, <2>3 DEF Traces
<1>7. CASE Crash
  <2>1. Roles' /\ Mine' /\ Attached' /\ Derived'
    <3>1. Roles' /\ Mine' /\ Attached'
      BY <1>7 DEF Crash, Roles, Mine, Attached
    <3>2. row' = row /\ (interrupted => interrupted')
      BY <1>7 DEF Crash
    <3>3. Derived'
      BY <1>0, <3>2 DEF Derived
    <3> QED BY <3>1, <3>3
  <2>2. MemoryClean' /\ SeenClean'
    BY <1>7, <1>0
       DEF Crash, Absent, ClearDue, CutsOff, Functions, MemoryClean, SeenClean, Sound,
           OfRow, Wiping
  <2>3. CacheClean' /\ ClearWaits'
    <3>1. row' = row /\ rows' = rows /\ pending' = <<>> /\ pc' = [u \in Turns |-> "idle"]
      BY <1>7 DEF Crash
    <3>2. Sound' => Sound /\ ~ClearDue
      BY <1>7 DEF Crash, Sound
    <3>3. ~ClearDue => ~Wiping({"wipe", "clear", "barrier"})
      BY DEF ClearDue, CutsOff, Wiping
    <3>4. CacheClean'
      BY <1>0, <3>1, <3>2, <3>3 DEF CacheClean, OfRow, QueueOfRow
    <3>5. ClearWaits'
      BY <3>1 DEF ClearWaits
    <3> QED BY <3>4, <3>5
  <2> QED BY <2>1, <2>2, <2>3 DEF Traces
<1>8. CASE Boot
  <2>1. Roles' /\ Mine' /\ Attached' /\ Derived'
    BY <1>8, <1>0 DEF Boot, Functions, Roles, Mine, Attached, Derived
  <2>2. MemoryClean' /\ SeenClean'
    BY <1>8, <1>0 DEF Boot, Functions, MemoryClean, SeenClean, Sound, OfRow, Wiping
  <2>3. CacheClean' /\ ClearWaits'
    BY <1>8, <1>0
       DEF Boot, Functions, CacheClean, ClearWaits, Sound, OfRow, Wiping, QueueOfRow,
           ClearLast
  <2> QED BY <2>1, <2>2, <2>3 DEF Traces
<1> QED BY <1>1, <1>2, <1>3, <1>4, <1>5, <1>6, <1>7, <1>8 DEF Process

LEMMA InitTraces == Init => Traces
<1> SUFFICES ASSUME Init PROVE Traces
  OBVIOUS
<1>1. Roles /\ Mine /\ Attached /\ Derived
  BY DEF Init, Roles, Mine, Attached, Derived
<1>2. MemoryClean /\ SeenClean /\ CacheClean /\ ClearWaits
  BY DEF Init, Absent, MemoryClean, SeenClean, CacheClean, ClearWaits, OfRow, QueueOfRow
<1> QED BY <1>1, <1>2 DEF Traces

LEMMA TracesInv == Spec => [](Shape /\ Traces)
<1>1. Init => Shape /\ Traces
  BY InitShape, InitTraces
<1>2. Shape /\ Traces /\ [Next]_vars => Shape' /\ Traces'
  <2> SUFFICES ASSUME Shape, Traces, [Next]_vars PROVE Shape' /\ Traces'
    OBVIOUS
  <2>1. CASE Next
    BY <2>1, RequestShape, JobShape, ProcessShape, RequestTraces, JobTraces, ProcessTraces
       DEF Next
  <2>2. CASE UNCHANGED vars
    <3>1. Shape'
      BY <2>2 DEF vars, store, turn, history, Shape, TypeOK, InHand, Exclusive, Grounded
    <3>2. Traces'
      BY <2>2 DEF vars, store, turn, history, Traces, Roles, Mine, Attached, Derived,
                  MemoryClean, SeenClean, CacheClean, ClearWaits, Sound, OfRow, QueueOfRow,
                  Wiping, ClearLast
    <3> QED BY <3>1, <3>2
  <2> QED BY <2>1, <2>2
<1> QED BY <1>1, <1>2, PTL DEF Spec

\* What the cache will hold comes from the stored pillars once the Clear of
\* a creation is in its queue, even while the rows before it do not.
LEMMA StoredOfRow ==
  ASSUME Shape, Traces, Sound
  PROVE  \/ Wiping({"wipe", "clear"})
         \/ \A m \in Stored : Current(m.basis)
<1>1. CacheClean /\ ClearWaits /\ pending \in Seq(Op)
  BY DEF Shape, TypeOK, Traces
<1>2. CASE OfRow(rows) /\ QueueOfRow
  BY <1>2 DEF Stored, Current, OfRow, QueueOfRow
<1>3. ASSUME NEW t \in Turns, ClearLast(t) PROVE Stored = {}
  <2>1. Len(pending) \in DOMAIN pending /\ pending[Len(pending)].kind = "clear"
    BY <1>1, <1>3 DEF ClearLast
  <2>2. \A j \in DOMAIN pending : ~(Len(pending) < j)
    BY <1>1
  <2> QED BY <2>1, <2>2 DEF Stored
<1> QED BY <1>1, <1>2, <1>3 DEF CacheClean, ClearWaits, Wiping

(* After a new profile nothing of the old one is left in the row, in       *)
(* memory or in what the cache will hold, as long as no request was cut    *)
(* off from its work and no Clear rolled back (bazi_service.rs:77-90,      *)
(* finish() in conversation.rs:100-116).                                   *)
THEOREM OldProfileGone == Spec => []InvalidationHolds
<1>1. Shape /\ Traces => InvalidationHolds
  <2> SUFFICES ASSUME Shape, Traces PROVE InvalidationHolds
    OBVIOUS
  <2>1. ~interrupted => /\ row.analysis = 0 \/ Current(row.analysis)
                        /\ row.summary = 0 \/ Current(row.summary)
    BY DEF Traces, Derived, Current
  <2>2. ~interrupted => \/ \E t \in Turns : kind[t] = "profile" /\ pc[t] = "wipe"
                        \/ clearLost
                        \/ \A i \in DOMAIN ctx.msgs : Current(ctx.msgs[i].basis)
    BY DEF Traces, MemoryClean, Sound, OfRow, Wiping, Current
  <2>3. ~interrupted => \/ \E t \in Turns : kind[t] = "profile" /\ pc[t] \in {"wipe", "clear"}
                        \/ clearLost
                        \/ \A m \in Stored : Current(m.basis)
    BY StoredOfRow DEF Sound, Wiping
  <2> QED BY <2>1, <2>2, <2>3 DEF InvalidationHolds
<1> QED BY <1>1, TracesInv, PTL
----------------------------------------------------------------------------
(* Every message is once in memory, and on its way to the cache or in it.  *)

Distinct(s) == \A i, j \in DOMAIN s : s[i].id = s[j].id => i = j

Queued(q) == {q[i].msg.id : i \in {j \in DOMAIN q : q[j].kind = "save"}}
OneEach(q) == \A i, j \in DOMAIN q :
                q[i].kind = "save" /\ q[j].kind = "save" /\ q[i].msg.id = q[j].msg.id => i = j

\* The last elements of a sequence, by their places in it.
LEMMA NewestPlaces ==
  ASSUME NEW s \in Seq(Message), NEW n \in Nat
  PROVE  \E d \in Nat : \A i \in DOMAIN Newest(s, n) :
           i + d \in DOMAIN s /\ Newest(s, n)[i] = s[i + d]
<1>1. CASE Len(s) <= n
  <2>1. Newest(s, n) = s /\ \A i \in DOMAIN s : i + 0 = i
    BY <1>1 DEF Newest
  <2>2. \A i \in DOMAIN Newest(s, n) : i + 0 \in DOMAIN s /\ Newest(s, n)[i] = s[i + 0]
    BY <2>1
  <2> QED BY <2>2
<1>2. CASE ~(Len(s) <= n)
  <2> DEFINE r == SubSeq(s, Len(s) - n + 1, Len(s))
             d == Len(s) - n
  <2>1. Newest(s, n) = r
    BY <1>2 DEF Newest, LastOf
  <2>2. d \in Nat /\ Len(s) \in Nat
    BY <1>2
  <2>3. DOMAIN r = 1 .. n /\ \A i \in 1 .. n : r[i] = s[d + i]
    BY <2>2
  <2>4. \A i \in 1 .. n : i + d \in DOMAIN s /\ r[i] = s[i + d]
    <3> TAKE i \in 1 .. n
    <3>1. i + d \in DOMAIN s /\ i + d = d + i
      BY <1>2
    <3> QED BY <2>3, <3>1
  <2> HIDE DEF r, d
  <2> QED BY <2>1, <2>2, <2>3, <2>4
<1> QED BY <1>1, <1>2

LEMMA NewestIds ==
  ASSUME NEW s \in Seq(Message), NEW n \in Nat
  PROVE  Ids(Newest(s, n)) \subseteq Ids(s) /\ (Distinct(s) => Distinct(Newest(s, n)))
<1> DEFINE r == Newest(s, n)
<1>1. r \in Seq(Message)
  BY NewestElements
<1>2. PICK d \in Nat : \A i \in DOMAIN r : i + d \in DOMAIN s /\ r[i] = s[i + d]
  BY NewestPlaces
<1>3. \A i \in DOMAIN r : i \in Nat
  BY <1>1
<1> HIDE DEF r
<1>4. Ids(r) \subseteq Ids(s)
  BY <1>2 DEF Ids
<1>5. ASSUME Distinct(s), NEW i \in DOMAIN r, NEW j \in DOMAIN r, r[i].id = r[j].id PROVE i = j
  <2>1. i + d = j + d
    BY <1>2, <1>5 DEF Distinct
  <2> QED BY <1>3, <2>1
<1> QED BY <1>4, <1>5 DEF Distinct, r

LEMMA JoinIds ==
  ASSUME NEW a \in Seq(Message), NEW b \in Seq(Message)
  PROVE  /\ Ids(a \o b) = Ids(a) \cup Ids(b)
         /\ Distinct(a) /\ Distinct(b) /\ (\A id \in Ids(b) : id \notin Ids(a)) => Distinct(a \o b)
<1> DEFINE c == a \o b
<1>1. /\ Len(a) \in Nat /\ Len(b) \in Nat /\ DOMAIN a = 1 .. Len(a) /\ DOMAIN b = 1 .. Len(b)
      /\ c \in Seq(Message) /\ DOMAIN c = 1 .. Len(a) + Len(b)
      /\ \A i \in DOMAIN c : c[i] = IF i <= Len(a) THEN a[i] ELSE b[i - Len(a)]
  OBVIOUS
<1> HIDE DEF c
<1>2. \A i \in DOMAIN c : \/ i \in DOMAIN a /\ c[i] = a[i]
                          \/ i - Len(a) \in DOMAIN b /\ c[i] = b[i - Len(a)]
  BY <1>1
<1>3. \A i \in DOMAIN a : i \in DOMAIN c /\ c[i] = a[i]
  BY <1>1
<1>4. \A i \in DOMAIN b : i + Len(a) \in DOMAIN c /\ c[i + Len(a)] = b[i]
  BY <1>1
<1>5. Ids(c) = Ids(a) \cup Ids(b)
  BY <1>2, <1>3, <1>4 DEF Ids
<1>6. ASSUME Distinct(a), Distinct(b), \A id \in Ids(b) : id \notin Ids(a),
             NEW i \in DOMAIN c, NEW j \in DOMAIN c, c[i].id = c[j].id
      PROVE  i = j
  <2>1. \A k \in DOMAIN a : a[k].id \in Ids(a)
    BY DEF Ids
  <2>2. \A k \in DOMAIN b : b[k].id \in Ids(b)
    BY DEF Ids
  <2>3. i \in Nat /\ j \in Nat
    BY <1>1
  <2>4. CASE i \in DOMAIN a /\ c[i] = a[i] /\ j \in DOMAIN a /\ c[j] = a[j]
    BY <1>6, <2>4 DEF Distinct
  <2>5. CASE i - Len(a) \in DOMAIN b /\ c[i] = b[i - Len(a)]
             /\ j - Len(a) \in DOMAIN b /\ c[j] = b[j - Len(a)]
    <3>1. i - Len(a) = j - Len(a)
      BY <1>6, <2>5 DEF Distinct
    <3> QED BY <1>1, <2>3, <3>1
  <2> QED BY <1>2, <1>6, <2>1, <2>2, <2>4, <2>5
<1> QED BY <1>5, <1>6 DEF Distinct, c

(* push_turn adds no message twice, if none of the new ones is there.      *)
LEMMA PushTurnIds ==
  ASSUME NEW a \in Seq(Message), NEW b \in Seq(Message)
  PROVE  /\ Ids(PushTurn(a, b)) \subseteq Ids(a) \cup Ids(b)
         /\ Distinct(a) /\ Distinct(b) /\ (\A id \in Ids(b) : id \notin Ids(a))
              => Distinct(PushTurn(a, b))
<1> DEFINE c == a \o b
<1>1. c \in Seq(Message) /\ MaxContext \in Nat /\ PushTurn(a, b) = Newest(c, MaxContext)
  BY ConversationAssumption DEF PushTurn
<1>2. /\ Ids(c) = Ids(a) \cup Ids(b)
      /\ Distinct(a) /\ Distinct(b) /\ (\A id \in Ids(b) : id \notin Ids(a)) => Distinct(c)
  BY JoinIds
<1> HIDE DEF c
<1> QED BY <1>1, <1>2, NewestIds

LEMMA FreshIds ==
  ASSUME messages \in Nat, NEW n \in Nat, NEW b \in Pillars
  PROVE  /\ Fresh(n, b) \in Seq(Message) /\ Len(Fresh(n, b)) = n
         /\ Distinct(Fresh(n, b))
         /\ \A id \in Ids(Fresh(n, b)) : id \in Nat /\ id > messages /\ id <= messages + n
<1>1. Fresh(n, b) \in Seq(Message) /\ Len(Fresh(n, b)) = n
  BY FreshMessages
<1>2. DOMAIN Fresh(n, b) = 1 .. n /\ \A i \in 1 .. n : Fresh(n, b)[i].id = messages + i
  BY DEF Fresh
<1>3. Distinct(Fresh(n, b))
  BY <1>2 DEF Distinct
<1>4. ASSUME NEW id \in Ids(Fresh(n, b)) PROVE id \in Nat /\ id > messages /\ id <= messages + n
  <2>1. PICK i \in 1 .. n : id = messages + i
    BY <1>2 DEF Ids
  <2> QED BY <2>1
<1> QED BY <1>1, <1>3, <1>4

\* One message leaves the front of a sequence.
LEMMA TailIds ==
  ASSUME NEW s \in Seq(Message), s # <<>>
  PROVE  /\ Head(s) \in Message /\ Tail(s) \in Seq(Message)
         /\ Ids(s) = Ids(Tail(s)) \cup {Head(s).id}
         /\ Distinct(s) => Distinct(Tail(s)) /\ Head(s).id \notin Ids(Tail(s))
<1> DEFINE r == Tail(s)
<1>1. /\ r \in Seq(Message) /\ Len(s) \in Nat \ {0} /\ DOMAIN s = 1 .. Len(s)
      /\ DOMAIN r = 1 .. Len(s) - 1 /\ \A i \in DOMAIN r : r[i] = s[i + 1]
      /\ Head(s) = s[1] /\ s[1] \in Message
  OBVIOUS
<1> HIDE DEF r
<1>2. \A i \in DOMAIN r : i \in Nat /\ i + 1 \in DOMAIN s /\ i + 1 # 1
  BY <1>1
<1>3. \A i \in DOMAIN s : i = 1 \/ (i - 1 \in DOMAIN r /\ r[i - 1] = s[i])
  BY <1>1
<1>4. Ids(s) = Ids(r) \cup {s[1].id}
  <2>1. Ids(s) \subseteq Ids(r) \cup {s[1].id}
    BY <1>3 DEF Ids
  <2>2. Ids(r) \subseteq Ids(s) /\ s[1].id \in Ids(s)
    BY <1>1, <1>2 DEF Ids
  <2> QED BY <2>1, <2>2
<1>5. ASSUME Distinct(s) PROVE Distinct(r) /\ s[1].id \notin Ids(r)
  <2>1. ASSUME NEW i \in DOMAIN r, NEW j \in DOMAIN r, r[i].id = r[j].id PROVE i = j
    <3>1. i + 1 = j + 1
      BY <1>1, <1>2, <1>5, <2>1 DEF Distinct
    <3> QED BY <1>2, <3>1
  <2>2. ASSUME NEW i \in DOMAIN r PROVE r[i].id # s[1].id
    BY <1>1, <1>2, <1>5 DEF Distinct
  <2> QED BY <2>1, <2>2 DEF Distinct, Ids
<1> QED BY <1>1, <1>4, <1>5 DEF r

LEMMA AppendIds ==
  ASSUME NEW s \in Seq(Message), NEW m \in Message
  PROVE  /\ Ids(Append(s, m)) = Ids(s) \cup {m.id}
         /\ Distinct(s) /\ m.id \notin Ids(s) => Distinct(Append(s, m))
<1> DEFINE c == Append(s, m)
<1>1. /\ Len(s) \in Nat /\ DOMAIN s = 1 .. Len(s) /\ DOMAIN c = 1 .. Len(s) + 1
      /\ \A i \in DOMAIN c : c[i] = IF i <= Len(s) THEN s[i] ELSE m
  OBVIOUS
<1> HIDE DEF c
<1>2. /\ \A i \in DOMAIN c : (i \in DOMAIN s /\ c[i] = s[i]) \/ (i = Len(s) + 1 /\ c[i] = m)
      /\ \A i \in DOMAIN s : i \in DOMAIN c /\ c[i] = s[i]
      /\ Len(s) + 1 \in DOMAIN c /\ c[Len(s) + 1] = m
  BY <1>1
<1>3. Ids(c) = Ids(s) \cup {m.id}
  BY <1>2 DEF Ids
<1>4. \A i \in DOMAIN s : s[i].id \in Ids(s)
  BY DEF Ids
<1>5. Distinct(s) /\ m.id \notin Ids(s) => Distinct(c)
  BY <1>2, <1>4 DEF Distinct
<1> QED BY <1>3, <1>5 DEF c

LEMMA TailQueue ==
  ASSUME NEW q \in Seq(Op), q # <<>>
  PROVE  /\ Head(q).kind = "save" =>
              /\ Head(q).msg \in Message
              /\ Queued(q) = Queued(Tail(q)) \cup {Head(q).msg.id}
         /\ Head(q).kind # "save" => Queued(q) = Queued(Tail(q))
         /\ OneEach(q) =>
              /\ OneEach(Tail(q))
              /\ Head(q).kind = "save" => Head(q).msg.id \notin Queued(Tail(q))
<1> DEFINE r == Tail(q)
<1>1. /\ r \in Seq(Op) /\ Len(q) \in Nat \ {0} /\ DOMAIN q = 1 .. Len(q)
      /\ DOMAIN r = 1 .. Len(q) - 1 /\ \A i \in DOMAIN r : r[i] = q[i + 1]
      /\ Head(q) = q[1] /\ q[1] \in Op
  OBVIOUS
<1> HIDE DEF r
<1>2. \A i \in DOMAIN r : i \in Nat /\ i + 1 \in DOMAIN q /\ i + 1 # 1 /\ r[i] = q[i + 1]
  BY <1>1
<1>3. \A i \in DOMAIN q : i = 1 \/ (i - 1 \in DOMAIN r /\ r[i - 1] = q[i])
  BY <1>1
<1>4. q[1].kind = "save" => q[1].msg \in Message
  BY <1>1 DEF Op
<1>5. Queued(r) \subseteq Queued(q) /\ (q[1].kind = "save" => q[1].msg.id \in Queued(q))
  BY <1>1, <1>2 DEF Queued
<1>6. \A id \in Queued(q) : id \in Queued(r) \/ (q[1].kind = "save" /\ id = q[1].msg.id)
  <2> TAKE id \in Queued(q)
  <2>1. PICK i \in DOMAIN q : q[i].kind = "save" /\ id = q[i].msg.id
    BY DEF Queued
  <2>2. CASE i = 1
    BY <2>1, <2>2
  <2>3. CASE i # 1
    <3>1. i - 1 \in DOMAIN r /\ r[i - 1].kind = "save" /\ id = r[i - 1].msg.id
      BY <1>3, <2>1, <2>3
    <3> QED BY <3>1 DEF Queued
  <2> QED BY <2>2, <2>3
<1>7. ASSUME OneEach(q) PROVE OneEach(r) /\ (q[1].kind = "save" => q[1].msg.id \notin Queued(r))
  <2>1. ASSUME NEW i \in DOMAIN r, NEW j \in DOMAIN r, r[i].kind = "save", r[j].kind = "save",
               r[i].msg.id = r[j].msg.id
        PROVE  i = j
    <3>1. i + 1 = j + 1
      BY <1>2, <1>7, <2>1 DEF OneEach
    <3> QED BY <1>2, <3>1
  <2>2. ASSUME q[1].kind = "save", NEW i \in DOMAIN r, r[i].kind = "save"
        PROVE  r[i].msg.id # q[1].msg.id
    BY <1>1, <1>2, <1>7, <2>2 DEF OneEach
  <2> QED BY <2>1, <2>2 DEF OneEach, Queued
<1> QED BY <1>1, <1>4, <1>5, <1>6, <1>7 DEF r

LEMMA AppendQueue ==
  ASSUME NEW q \in Seq(Op), NEW op \in Op
  PROVE  /\ op.kind = "save" =>
              /\ Queued(Append(q, op)) = Queued(q) \cup {op.msg.id}
              /\ OneEach(q) /\ op.msg.id \notin Queued(q) => OneEach(Append(q, op))
         /\ op.kind # "save" =>
              /\ Queued(Append(q, op)) = Queued(q)
              /\ OneEach(q) => OneEach(Append(q, op))
<1> DEFINE c == Append(q, op)
<1>1. /\ Len(q) \in Nat /\ DOMAIN q = 1 .. Len(q) /\ DOMAIN c = 1 .. Len(q) + 1
      /\ \A i \in DOMAIN c : c[i] = IF i <= Len(q) THEN q[i] ELSE op
  OBVIOUS
<1> HIDE DEF c
<1>2. /\ \A i \in DOMAIN c : (i \in DOMAIN q /\ c[i] = q[i]) \/ (i = Len(q) + 1 /\ c[i] = op)
      /\ \A i \in DOMAIN q : i \in DOMAIN c /\ c[i] = q[i]
      /\ Len(q) + 1 \in DOMAIN c /\ c[Len(q) + 1] = op
  BY <1>1
<1>3. /\ op.kind = "save" => Queued(c) = Queued(q) \cup {op.msg.id}
      /\ op.kind # "save" => Queued(c) = Queued(q)
  <2>1. Queued(q) \subseteq Queued(c) /\ (op.kind = "save" => op.msg.id \in Queued(c))
    BY <1>2 DEF Queued
  <2>2. \A id \in Queued(c) : id \in Queued(q) \/ (op.kind = "save" /\ id = op.msg.id)
    <3> TAKE id \in Queued(c)
    <3>1. PICK i \in DOMAIN c : c[i].kind = "save" /\ id = c[i].msg.id
      BY DEF Queued
    <3> QED BY <1>2, <3>1 DEF Queued
  <2> QED BY <2>1, <2>2
<1>4. \A i \in DOMAIN q : q[i].kind = "save" => q[i].msg.id \in Queued(q)
  BY DEF Queued
<1>5. ASSUME OneEach(q), op.kind = "save" => op.msg.id \notin Queued(q) PROVE OneEach(c)
  BY <1>2, <1>4, <1>5 DEF OneEach
<1> QED BY <1>3, <1>5 DEF c

\* After the tasks have ended nobody has a message in hand.
Quiet == phase \in {"flush", "down"} => \A t \in Turns : pc[t] = "idle" /\ job[t] = "none"

OneMessage == \A t \in Turns : pc[t] = "save" => Tail(left[t]) = <<>>

Unpushed(t) == job[t] \in {"analysis", "push"}

\* A message in hand is in one hand, not in the cache or on its way there, not
\* among what has been read from it and, before it is pushed, not in memory.
Apart ==
  \A t \in Turns : \A id \in Ids(left[t]) :
    /\ id \notin Ids(rows) /\ id \notin Queued(pending)
    /\ \A u \in Turns : id \notin Ids(seen[u]) /\ (u # t => id \notin Ids(left[u]))
    /\ Unpushed(t) => id \notin Ids(ctx.msgs)

\* There are no messages but those that have been counted.
Counted ==
  /\ \A id \in Ids(rows) \cup Queued(pending) \cup Ids(ctx.msgs) : id <= messages
  /\ \A t \in Turns : \A id \in Ids(left[t]) \cup Ids(seen[t]) : id <= messages

CachedOnce == /\ Distinct(rows) /\ OneEach(pending)
              /\ \A id \in Ids(rows) : id \notin Queued(pending)

Singles == \A t \in Turns : Distinct(left[t]) /\ Distinct(seen[t])

Once == Apart /\ Counted /\ CachedOnce /\ Singles /\ Distinct(ctx.msgs)

Held(id) == \/ id \in Ids(rows) \/ id \in Queued(pending)
            \/ \E t \in Turns : id \in Ids(left[t])
Kept == \A id \in owed : Held(id)

LEMMA KeptIsRepliesKept == Kept <=> RepliesKept
BY DEF Kept, Held, RepliesKept, Queued

\* What no step of a message touches stays.
LEMMA SameOnce ==
  ASSUME Once, Kept, UNCHANGED <<ctx, pending, rows, seen, left, messages, owed>>,
         \A t \in Turns : Unpushed(t)' => Unpushed(t)
  PROVE  Once' /\ Kept'
<1>1. Apart'
  BY DEF Once, Apart
<1>2. Counted' /\ CachedOnce' /\ Singles' /\ Distinct(ctx.msgs)'
  BY DEF Once, Counted, CachedOnce, Singles, Distinct, OneEach, Ids, Queued
<1>3. Kept'
  BY DEF Kept, Held
<1> QED BY <1>1, <1>2, <1>3 DEF Once

\* Messages that are only dropped somewhere stay where they are elsewhere.
LEMMA FewerOnce ==
  ASSUME Once, messages' = messages,
         Ids(rows') \subseteq Ids(rows), Queued(pending') \subseteq Queued(pending),
         Ids(ctx'.msgs) \subseteq Ids(ctx.msgs),
         \A t \in Turns : /\ Ids(left'[t]) \subseteq Ids(left[t])
                          /\ Ids(seen'[t]) \subseteq Ids(seen[t])
                          /\ Unpushed(t)' => Unpushed(t)
  PROVE  Apart' /\ Counted'
<1>1. Apart'
  BY DEF Once, Apart
<1>2. Counted'
  BY DEF Once, Counted
<1> QED BY <1>1, <1>2

LEMMA IdsAreNumbers ==
  ASSUME Shape
  PROVE  /\ \A id \in Ids(rows) \cup Queued(pending) \cup Ids(ctx.msgs) : id \in Nat
         /\ \A t \in Turns : \A id \in Ids(left[t]) \cup Ids(seen[t]) : id \in Nat
<1>1. ASSUME NEW s \in Seq(Message), NEW id \in Ids(s) PROVE id \in Nat
  <2>1. PICK k \in DOMAIN s : id = s[k].id
    BY DEF Ids
  <2>2. s[k] \in Message
    OBVIOUS
  <2> QED BY <2>1, <2>2 DEF Message
<1>2. \A id \in Queued(pending) : id \in Nat
  BY DEF Shape, TypeOK, Queued, Op, Message
<1> QED BY <1>1, <1>2 DEF Shape, TypeOK

\* A message goes from a hand to the queue, or is refused.
LEMMA EnqueueOnce ==
  ASSUME Shape, Once, Kept, Running, NEW t \in Turns, left[t] # <<>>,
         Enqueue(Head(left[t])), left' = [left EXCEPT ![t] = Tail(left[t])],
         UNCHANGED <<rows, ctx, seen, messages>>,
         \A u \in Turns : Unpushed(u)' => Unpushed(u)
  PROVE  Once' /\ Kept'
<1>1. PICK m \in Message : /\ m = Head(left[t])
                           /\ Ids(left[t]) = Ids(Tail(left[t])) \cup {m.id}
                           /\ Distinct(Tail(left[t])) /\ m.id \notin Ids(Tail(left[t]))
  BY TailIds DEF Shape, TypeOK, Once, Singles
<1>2. /\ \A u \in Turns \ {t} : left'[u] = left[u]
      /\ left'[t] = Tail(left[t]) /\ pending \in Seq(Op)
  BY DEF Shape, TypeOK
<1>3. \A u \in Turns : Ids(left'[u]) \subseteq Ids(left[u]) /\ Distinct(left'[u])
  BY <1>1, <1>2 DEF Once, Singles
<1>4. \A u \in Turns : m.id \notin Ids(left'[u])
  BY <1>1, <1>2 DEF Once, Apart
<1>5. Singles' /\ Distinct(ctx.msgs)' /\ Distinct(rows)'
  BY <1>3 DEF Once, Singles, CachedOnce, Distinct
<1>6. CASE Room
  <2> DEFINE op == [kind |-> "save", msg |-> m]
  <2>1. op \in Op /\ op.kind = "save" /\ op.msg = m
    BY DEF Op
  <2>2. pending' = Append(pending, op) /\ owed' = owed
    BY <1>1, <1>6 DEF Enqueue
  <2> HIDE DEF op
  <2>3. /\ Queued(pending') = Queued(pending) \cup {m.id}
        /\ OneEach(pending) /\ m.id \notin Queued(pending) => OneEach(pending')
    BY <1>2, <2>1, <2>2, AppendQueue
  <2>4. m.id \notin Queued(pending) /\ m.id \notin Ids(rows) /\ m.id <= messages
    BY <1>1 DEF Once, Apart, Counted
  <2>5. Apart'
    <3> SUFFICES ASSUME NEW u \in Turns, NEW id \in Ids(left'[u])
                 PROVE  /\ id \notin Ids(rows') /\ id \notin Queued(pending')
                        /\ \A v \in Turns : id \notin Ids(seen'[v])
                                            /\ (v # u => id \notin Ids(left'[v]))
                        /\ Unpushed(u)' => id \notin Ids(ctx'.msgs)
      BY DEF Apart
    <3>1. id \in Ids(left[u]) /\ id # m.id
      BY <1>3, <1>4
    <3>2. \A v \in Turns : id \in Ids(left'[v]) => id \in Ids(left[v])
      BY <1>3
    <3> QED BY <2>3, <3>1, <3>2 DEF Once, Apart
  <2>6. Counted'
    BY <1>3, <2>3, <2>4 DEF Once, Counted
  <2>7. CachedOnce'
    BY <1>5, <2>3, <2>4 DEF Once, CachedOnce, OneEach
  <2>8. Kept'
    <3> SUFFICES ASSUME NEW id \in owed' PROVE Held(id)'
      BY DEF Kept
    <3>1. Held(id)
      BY <2>2 DEF Kept
    <3>2. \A u \in Turns : id \in Ids(left[u]) => id \in Ids(left'[u]) \/ id = m.id
      BY <1>1, <1>2
    <3> QED BY <2>3, <3>1, <3>2 DEF Held
  <2> QED BY <1>5, <2>5, <2>6, <2>7, <2>8 DEF Once
<1>7. CASE ~Room
  <2>1. pending' = pending /\ owed' = owed \ {m.id}
    BY <1>1, <1>7 DEF Enqueue
  <2>2. Apart' /\ Counted'
    BY <1>3, <2>1, FewerOnce
  <2>3. CachedOnce'
    BY <1>5, <2>1 DEF Once, CachedOnce, OneEach
  <2>4. Kept'
    <3> SUFFICES ASSUME NEW id \in owed' PROVE Held(id)'
      BY DEF Kept
    <3>1. Held(id) /\ id # m.id
      BY <2>1 DEF Kept
    <3>2. \A u \in Turns : id \in Ids(left[u]) => id \in Ids(left'[u])
      BY <1>1, <1>2, <3>1
    <3> QED BY <2>1, <3>1, <3>2 DEF Held
  <2> QED BY <1>5, <2>2, <2>3, <2>4 DEF Once
<1> QED BY <1>6, <1>7

\* New messages come into an empty hand, and perhaps into memory.
LEMMA FreshOnce ==
  ASSUME Shape, Once, Kept, NEW t \in Turns, left[t] = <<>>,
         NEW n \in Nat, NEW b \in Pillars, NEW new, new = Fresh(n, b),
         left' = [left EXCEPT ![t] = new], messages' = messages + n,
         owed' = owed \cup Ids(new), UNCHANGED <<rows, pending, seen>>,
         ctx' = ctx \/ (ctx'.msgs = PushTurn(ctx.msgs, new) /\ ~Unpushed(t)'),
         \A u \in Turns \ {t} : Unpushed(u)' => Unpushed(u)
  PROVE  Once' /\ Kept'
<1>1. /\ new \in Seq(Message) /\ Distinct(new) /\ messages \in Nat
      /\ \A id \in Ids(new) : id \in Nat /\ id > messages /\ id <= messages + n
  BY FreshIds DEF Shape, TypeOK
<1>2. \A id \in Ids(new) : ~(id <= messages)
  BY <1>1
<1>3. /\ \A u \in Turns \ {t} : left'[u] = left[u]
      /\ left'[t] = new /\ ctx.msgs \in Seq(Message)
  BY DEF Shape, TypeOK
<1>4. \A id \in Ids(new) : /\ id \notin Ids(rows) \cup Queued(pending) \cup Ids(ctx.msgs)
                           /\ \A u \in Turns : id \notin Ids(left[u]) \cup Ids(seen[u])
  BY <1>2 DEF Once, Counted
<1>5. /\ Ids(ctx'.msgs) \subseteq Ids(ctx.msgs) \cup Ids(new)
      /\ Distinct(ctx'.msgs)
      /\ Unpushed(t)' => ctx' = ctx
  BY <1>1, <1>3, <1>4, PushTurnIds DEF Once
<1>6. Apart'
  <2> SUFFICES ASSUME NEW u \in Turns, NEW id \in Ids(left'[u])
               PROVE  /\ id \notin Ids(rows') /\ id \notin Queued(pending')
                      /\ \A v \in Turns : id \notin Ids(seen'[v])
                                          /\ (v # u => id \notin Ids(left'[v]))
                      /\ Unpushed(u)' => id \notin Ids(ctx'.msgs)
    BY DEF Apart
  <2>1. CASE u = t
    BY <1>3, <1>4, <1>5, <2>1
  <2>2. CASE u # t
    <3>1. id \in Ids(left[u]) /\ id \notin Ids(new)
      BY <1>3, <1>4, <2>2
    <3> QED BY <1>3, <1>5, <2>2, <3>1 DEF Once, Apart
  <2> QED BY <2>1, <2>2
<1>7. Counted'
  <2>1. \A id : id \in Ids(new) => id <= messages + n
    BY <1>1
  <2>2. /\ \A id \in Ids(rows) \cup Queued(pending) \cup Ids(ctx.msgs) : id <= messages + n
        /\ \A u \in Turns : \A id \in Ids(left[u]) \cup Ids(seen[u]) : id <= messages + n
    BY <1>1, IdsAreNumbers DEF Once, Counted
  <2> QED BY <1>3, <1>5, <2>1, <2>2 DEF Counted
<1>8. CachedOnce' /\ Singles'
  BY <1>1, <1>3 DEF Once, CachedOnce, Singles, OneEach, Distinct
<1>9. Kept'
  <2> SUFFICES ASSUME NEW id \in owed' PROVE Held(id)'
    BY DEF Kept
  <2>1. Ids(left[t]) = {}
    BY DEF Ids
  <2>2. CASE id \in Ids(new)
    BY <1>3, <2>2 DEF Held
  <2>3. CASE id \in owed
    <3>1. Held(id)
      BY <2>3 DEF Kept
    <3> QED BY <1>3, <2>1, <3>1 DEF Held
  <2> QED BY <2>2, <2>3
<1> QED BY <1>5, <1>6, <1>7, <1>8, <1>9 DEF Once

LEMMA RequestCalm ==
  ASSUME Shape, Quiet, OneMessage, NEW t \in Turns, Request(t)
  PROVE  Quiet' /\ OneMessage'
<1> USE DEF store, turn, history
<1>1. phase' = phase /\ (phase = "up" \/ pc[t] # "idle")
  BY DEF Request, Start, GiveUp, UpsertBazi, ReadProfile, WipeContext, ClearCache, ClearReturns,
         PutChart, Hydrate, FillContext, PushMessage, SaveMessage, Answer, AnswerScheduled,
         Deliver, Return, Abandon, Awaits, Labels
<1>2. /\ \A u \in Turns \ {t} : pc'[u] = pc[u] /\ left'[u] = left[u]
      /\ pc'[t] = "save" => PushMessage(t)
  <2>1. CASE \E k \in Kinds : Start(t, k)
    BY <2>1 DEF Start, Goto, Shape, TypeOK
  <2>2. CASE GiveUp(t) \/ UpsertBazi(t) \/ WipeContext(t) \/ ClearCache(t) \/ ClearReturns(t)
             \/ PutChart(t)
    BY <2>2 DEF GiveUp, UpsertBazi, WipeContext, ClearCache, ClearReturns, PutChart, Goto, Shape,
                TypeOK
  <2>3. CASE ReadProfile(t)
    BY <2>3 DEF ReadProfile, Goto, Shape, TypeOK, Kinds
  <2>4. CASE Hydrate(t) \/ FillContext(t) \/ PushMessage(t) \/ SaveMessage(t)
    BY <2>4 DEF Hydrate, FillContext, PushMessage, SaveMessage, Goto, Shape, TypeOK
  <2>5. CASE Answer(t) \/ AnswerScheduled(t) \/ Deliver(t) \/ Return(t) \/ Abandon(t)
    BY <2>5 DEF Answer, AnswerScheduled, Deliver, Return, Abandon, Goto, Shape, TypeOK
  <2> QED BY <2>1, <2>2, <2>3, <2>4, <2>5 DEF Request
<1>3. Quiet'
  BY <1>1 DEF Quiet
<1>4. ASSUME pc'[t] = "save" PROVE Tail(left'[t]) = <<>>
  <2> DEFINE new == Fresh(1, basis[t])
  <2>1. left'[t] = new
    BY <1>2, <1>4 DEF PushMessage, Shape, TypeOK
  <2>2. new \in Seq(Message) /\ Len(new) = 1
    BY FreshIds DEF Shape, TypeOK
  <2> HIDE DEF new
  <2>3. new # <<>>
    <3>1. Len(<<>>) = 0 /\ 1 # 0
      OBVIOUS
    <3>2. new = <<>> => Len(new) = 0
      BY <3>1, Zenon
    <3> QED BY <2>2, <3>1, <3>2
  <2>4. Tail(new) \in Seq(Message) /\ Len(Tail(new)) = 0
    BY <2>2, <2>3
  <2>5. Tail(new) = <<>>
    BY <2>4, EmptySeq
  <2> QED BY <2>1, <2>5
<1>5. OneMessage'
  BY <1>2, <1>4 DEF OneMessage
<1> QED BY <1>3, <1>5

LEMMA JobCalm ==
  ASSUME Shape, Quiet, OneMessage, NEW t \in Turns, Job(t)
  PROVE  Quiet' /\ OneMessage'
<1> USE DEF store, turn, history
<1>1. /\ phase' = phase /\ pc' = pc /\ job[t] # "none"
      /\ \A u \in Turns \ {t} : left'[u] = left[u]
  BY DEF Job, Collect, CollectFails, SaveAnalysis, PushReply, SaveReply, ReplySaved, SaveSummary,
         JobEnds, Shape, TypeOK
<1>2. pc[t] # "save"
  BY <1>1 DEF Shape, InHand
<1> QED BY <1>1, <1>2 DEF Quiet, OneMessage

LEMMA ProcessCalm ==
  ASSUME Shape, Quiet, OneMessage, Process
  PROVE  Quiet' /\ OneMessage'
<1> USE DEF store, turn, history
<1>1. CASE Commit \/ Rollback \/ Expire
  BY <1>1 DEF Commit, Rollback, Expire, Quiet, OneMessage
<1>2. CASE Shutdown \/ Boot
  BY <1>2 DEF Shutdown, Boot, Quiet, OneMessage
<1>3. CASE FlushCache \/ Stop
  BY <1>3 DEF FlushCache, LaneFree, Stop, Quiet, OneMessage
<1>4. CASE Crash
  BY <1>4 DEF Crash, Quiet, OneMessage
<1> QED BY <1>1, <1>2, <1>3, <1>4 DEF Process

LEMMA RequestOnce ==
  ASSUME Shape, Quiet, OneMessage, Once, Kept, NEW t \in Turns, Request(t)
  PROVE  Once' /\ Kept'
<1> USE DEF store, turn, history
<1>1. CASE \/ \E k \in Kinds : Start(t, k)
           \/ GiveUp(t) \/ UpsertBazi(t) \/ ReadProfile(t) \/ ClearReturns(t) \/ PutChart(t)
           \/ AnswerScheduled(t)
  BY <1>1, SameOnce DEF Start, GiveUp, UpsertBazi, ReadProfile, ClearReturns, PutChart,
                        AnswerScheduled, Unpushed
<1>2. CASE Answer(t) \/ Return(t)
  <2>1. \A u \in Turns : Unpushed(u)' => Unpushed(u)
    BY <1>2 DEF Answer, Return, Stage, Unpushed, Shape, TypeOK
  <2> QED BY <1>2, <2>1, SameOnce DEF Answer, Return
<1>3. CASE WipeContext(t)
  <2>1. /\ Ids(ctx'.msgs) = {} /\ Distinct(ctx'.msgs)
        /\ UNCHANGED <<pending, rows, seen, left, messages, owed, job>>
    BY <1>3 DEF WipeContext, Ids, Distinct
  <2>2. Apart' /\ Counted'
    BY <2>1, FewerOnce DEF Unpushed
  <2> QED BY <2>1, <2>2 DEF Once, CachedOnce, Singles, Distinct, OneEach, Kept, Held
<1>4. CASE ClearCache(t)
  <2> DEFINE op == [kind |-> "clear", by |-> t]
  <2>1. op \in Op /\ op.kind # "save" /\ pending \in Seq(Op)
    BY DEF Op, Shape, TypeOK
  <2>2. pending' = Append(pending, op) /\ UNCHANGED <<ctx, rows, seen, left, messages, owed, job>>
    BY <1>4 DEF ClearCache
  <2> HIDE DEF op
  <2>3. Queued(pending') = Queued(pending) /\ (OneEach(pending) => OneEach(pending'))
    BY <2>1, <2>2, AppendQueue
  <2>4. Apart' /\ Counted'
    BY <2>2, <2>3, FewerOnce DEF Unpushed
  <2> QED BY <2>2, <2>3, <2>4
          DEF Once, CachedOnce, Singles, Distinct, OneEach, Kept, Held
<1>5. CASE Hydrate(t)
  <2> DEFINE r == Newest(rows, MaxContext)
  <2>1. Ids(r) \subseteq Ids(rows) /\ Distinct(r)
    BY NewestIds, ConversationAssumption DEF Shape, TypeOK, Once, CachedOnce
  <2>2. /\ seen' = seen \/ seen' = [seen EXCEPT ![t] = r]
        /\ UNCHANGED <<ctx, pending, rows, left, messages, owed, job>>
    BY <1>5 DEF Hydrate
  <2> HIDE DEF r
  <2>3. \A u \in Turns : seen'[u] = seen[u] \/ seen'[u] = r
    BY <2>2 DEF Shape, TypeOK
  <2>4. Apart'
    BY <2>1, <2>2, <2>3 DEF Once, Apart, Unpushed
  <2>5. Counted'
    BY <2>1, <2>2, <2>3 DEF Once, Counted
  <2>6. CachedOnce' /\ Singles' /\ Distinct(ctx.msgs)'
    BY <2>1, <2>2, <2>3 DEF Once, CachedOnce, Singles, Distinct, OneEach
  <2>7. Kept'
    BY <2>2 DEF Kept, Held
  <2> QED BY <2>4, <2>5, <2>6, <2>7 DEF Once
<1>6. CASE FillContext(t)
  <2>1. /\ ctx' = ctx \/ ctx'.msgs = seen[t]
        /\ \A u \in Turns : seen'[u] = seen[u] \/ seen'[u] = <<>>
        /\ UNCHANGED <<pending, rows, left, messages, owed, job>>
    BY <1>6 DEF FillContext, Shape, TypeOK
  <2>2. Ids(<<>>) = {} /\ Distinct(<<>>)
    BY DEF Ids, Distinct
  <2>3. Apart'
    BY <2>1, <2>2 DEF Once, Apart, Unpushed
  <2>4. Counted'
    BY <2>1, <2>2 DEF Once, Counted
  <2>5. CachedOnce' /\ Singles' /\ Distinct(ctx.msgs)'
    BY <2>1, <2>2 DEF Once, CachedOnce, Singles, Distinct, OneEach
  <2>6. Kept'
    BY <2>1 DEF Kept, Held
  <2> QED BY <2>3, <2>4, <2>5, <2>6 DEF Once
<1>7. CASE PushMessage(t)
  <2>1. left[t] = <<>> /\ job[t] = "none"
    BY <1>7 DEF PushMessage, Shape, TypeOK, InHand
  <2>2. PICK new : new = Fresh(1, basis[t])
    OBVIOUS
  <2>3. /\ ctx'.msgs = PushTurn(ctx.msgs, new) /\ left' = [left EXCEPT ![t] = new]
        /\ owed' = owed \cup Ids(new) /\ messages' = messages + 1
        /\ UNCHANGED <<rows, pending, seen, job>>
    BY <1>7, <2>2 DEF PushMessage, Shape, TypeOK
  <2>4. basis[t] \in Pillars /\ ~Unpushed(t)'
    BY <2>1, <2>3 DEF Shape, TypeOK, Unpushed
  <2>5. \A u \in Turns \ {t} : Unpushed(u)' => Unpushed(u)
    BY <2>3 DEF Unpushed
  <2> QED BY <2>1, <2>2, <2>3, <2>4, <2>5, FreshOnce
<1>8. CASE SaveMessage(t)
  <2>1. left[t] # <<>> /\ Tail(left[t]) = <<>> /\ phase \notin {"flush", "down"}
    BY <1>8 DEF SaveMessage, Shape, InHand, OneMessage, Quiet
  <2>2. /\ Enqueue(Head(left[t])) /\ left' = [left EXCEPT ![t] = Tail(left[t])]
        /\ UNCHANGED <<rows, ctx, seen, messages, job>>
    BY <1>8, <2>1 DEF SaveMessage
  <2>3. Running
    BY <2>1 DEF Running, Shape, TypeOK
  <2> QED BY <2>1, <2>2, <2>3, EnqueueOnce DEF Unpushed
<1>9. CASE Deliver(t)
  <2> DEFINE m == Fresh(1, basis[t])[1]
             op == [kind |-> "save", msg |-> m]
  <2>1. m \in Message /\ m.id = messages + 1 /\ messages \in Nat /\ pending \in Seq(Op)
    BY FreshIds DEF Shape, TypeOK, Fresh, Message
  <2>2. op \in Op /\ op.kind = "save" /\ op.msg = m
    BY <2>1 DEF Op
  <2>3. /\ messages' = messages + 1 /\ UNCHANGED <<ctx, rows, seen, left, job>>
        /\ \/ pending' = Append(pending, op) /\ owed' = owed \cup {messages + 1}
           \/ UNCHANGED <<pending, owed>>
    BY <1>9 DEF Deliver
  <2> HIDE DEF op, m
  <2>4. /\ Queued(Append(pending, op)) = Queued(pending) \cup {m.id}
        /\ OneEach(pending) /\ m.id \notin Queued(pending) => OneEach(Append(pending, op))
    BY <2>1, <2>2, AppendQueue
  <2>5. /\ m.id \notin Ids(rows) \cup Queued(pending) \cup Ids(ctx.msgs)
        /\ \A u \in Turns : m.id \notin Ids(left[u]) \cup Ids(seen[u])
    <3>1. ~(m.id <= messages)
      BY <2>1
    <3> QED BY <3>1 DEF Once, Counted
  <2>6. Queued(pending') \subseteq Queued(pending) \cup {m.id}
    BY <2>3, <2>4
  <2>7. Apart'
    BY <2>3, <2>5, <2>6 DEF Once, Apart, Unpushed
  <2>8. Counted'
    <3>1. /\ \A id \in Ids(rows) \cup Queued(pending) \cup Ids(ctx.msgs) : id <= messages + 1
          /\ \A u \in Turns : \A id \in Ids(left[u]) \cup Ids(seen[u]) : id <= messages + 1
      <4>1. \A id \in Nat : id <= messages => id <= messages + 1
        BY <2>1
      <4> QED BY <4>1, IdsAreNumbers DEF Once, Counted
    <3> QED BY <2>1, <2>3, <2>6, <3>1 DEF Counted
  <2>9. CachedOnce'
    <3>1. Distinct(rows)' /\ OneEach(pending')
      BY <2>3, <2>4, <2>5 DEF Once, CachedOnce, Distinct
    <3>2. \A id \in Ids(rows') : id \notin Queued(pending')
      BY <2>3, <2>5, <2>6 DEF Once, CachedOnce
    <3> QED BY <3>1, <3>2 DEF CachedOnce, OneEach
  <2>10. Singles' /\ Distinct(ctx.msgs)'
    BY <2>3 DEF Once, Singles, Distinct
  <2>11. Kept'
    BY <2>1, <2>3, <2>4 DEF Kept, Held
  <2> QED BY <2>7, <2>8, <2>9, <2>10, <2>11 DEF Once
<1>10. CASE Abandon(t)
  <2>1. /\ \A u \in Turns : seen'[u] = seen[u] \/ seen'[u] = <<>>
        /\ UNCHANGED <<ctx, pending, rows, left, messages, owed, job>>
    BY <1>10 DEF Abandon, Shape, TypeOK
  <2>2. Ids(<<>>) = {} /\ Distinct(<<>>)
    BY DEF Ids, Distinct
  <2>3. Apart' /\ Counted'
    BY <2>1, <2>2, FewerOnce DEF Unpushed
  <2>4. CachedOnce' /\ Singles' /\ Distinct(ctx.msgs)'
    BY <2>1, <2>2 DEF Once, CachedOnce, Singles, Distinct, OneEach
  <2>5. Kept'
    BY <2>1 DEF Kept, Held
  <2> QED BY <2>3, <2>4, <2>5 DEF Once
<1> QED BY <1>1, <1>2, <1>3, <1>4, <1>5, <1>6, <1>7, <1>8, <1>9, <1>10 DEF Request

LEMMA JobOnce ==
  ASSUME Shape, Quiet, Once, Kept, NEW t \in Turns, Job(t)
  PROVE  Once' /\ Kept'
<1> USE DEF store, turn, history
<1>1. CASE \/ CollectFails(t) \/ SaveAnalysis(t) \/ ReplySaved(t) \/ SaveSummary(t) \/ JobEnds(t)
  <2>1. \A u \in Turns : Unpushed(u)' => Unpushed(u)
    BY <1>1 DEF CollectFails, SaveAnalysis, ReplySaved, SaveSummary, JobEnds, Stage, Unpushed,
                Shape, TypeOK
  <2> QED BY <1>1, <2>1, SameOnce DEF CollectFails, SaveAnalysis, ReplySaved, SaveSummary, JobEnds
<1>2. CASE Collect(t)
  <2>1. left[t] = <<>> /\ basis[t] \in Pillars
    BY <1>2 DEF Collect, Shape, TypeOK, InHand
  <2>2. PICK n \in Nat : n = IF kind[t] = "reading" THEN 2 ELSE 1
    OBVIOUS
  <2>3. PICK new : new = Fresh(n, basis[t])
    OBVIOUS
  <2>4. Replies(t) = new /\ Len(new) = n
    BY <2>1, <2>2, <2>3, FreshIds DEF Replies, Shape, TypeOK
  <2>5. /\ left' = [left EXCEPT ![t] = new] /\ owed' = owed \cup Ids(new)
        /\ messages' = messages + n /\ UNCHANGED <<ctx, rows, pending, seen>>
        /\ \A u \in Turns \ {t} : job'[u] = job[u]
    BY <1>2, <2>4 DEF Collect, Stage, Shape, TypeOK
  <2> QED BY <2>1, <2>3, <2>5, FreshOnce DEF Unpushed
<1>3. CASE PushReply(t)
  <2>1. /\ ctx'.msgs = PushTurn(ctx.msgs, left[t])
        /\ UNCHANGED <<rows, pending, seen, left, messages, owed>>
        /\ ~Unpushed(t)' /\ Unpushed(t)
        /\ \A u \in Turns \ {t} : job'[u] = job[u]
    BY <1>3 DEF PushReply, Stage, Unpushed, Shape, TypeOK
  <2>2. /\ Ids(ctx'.msgs) \subseteq Ids(ctx.msgs) \cup Ids(left[t])
        /\ Distinct(ctx'.msgs)
    BY <2>1, PushTurnIds DEF Shape, TypeOK, Once, Apart, Singles
  <2>3. Apart'
    BY <2>1, <2>2 DEF Once, Apart, Unpushed
  <2>4. Counted'
    BY <2>1, <2>2 DEF Once, Counted
  <2>5. CachedOnce' /\ Singles'
    BY <2>1 DEF Once, CachedOnce, Singles, Distinct, OneEach
  <2>6. Kept'
    BY <2>1 DEF Kept, Held
  <2> QED BY <2>2, <2>3, <2>4, <2>5, <2>6 DEF Once
<1>4. CASE SaveReply(t)
  <2>1. left[t] # <<>> /\ phase \notin {"flush", "down"}
    BY <1>4 DEF SaveReply, Quiet
  <2>2. /\ Enqueue(Head(left[t])) /\ left' = [left EXCEPT ![t] = Tail(left[t])]
        /\ UNCHANGED <<rows, ctx, seen, messages, job>>
    BY <1>4 DEF SaveReply, Shape, TypeOK
  <2>3. Running
    BY <2>1 DEF Running, Shape, TypeOK
  <2> QED BY <2>1, <2>2, <2>3, EnqueueOnce DEF Unpushed
<1> QED BY <1>1, <1>2, <1>3, <1>4 DEF Job

LEMMA ProcessOnce ==
  ASSUME Shape, Quiet, Once, Kept, Process
  PROVE  Once' /\ Kept'
<1> USE DEF store, turn, history
<1>1. CASE Shutdown \/ FlushCache \/ Boot
  BY <1>1, SameOnce DEF Shutdown, FlushCache, Boot, Unpushed
<1>2. CASE Expire \/ Stop
  <2>1. /\ ctx' = Absent /\ UNCHANGED <<pending, rows, seen, left, messages, owed, job>>
    BY <1>2 DEF Expire, Stop
  <2>2. Ids(ctx'.msgs) = {} /\ Distinct(ctx'.msgs)
    BY <2>1 DEF Absent, Ids, Distinct
  <2>3. Apart' /\ Counted'
    BY <2>1, <2>2, FewerOnce DEF Unpushed
  <2> QED BY <2>1, <2>2, <2>3 DEF Once, CachedOnce, Singles, Distinct, OneEach, Kept, Held
<1>3. CASE Commit
  <2>1. /\ pending # <<>> /\ pending \in Seq(Op) /\ pending' = Tail(pending)
        /\ UNCHANGED <<ctx, seen, left, messages, job>>
    BY <1>3 DEF Commit, Shape, TypeOK
  <2>2. CASE Head(pending).kind = "save"
    <3>1. PICK m \in Message :
            /\ rows' = Append(rows, m) /\ owed' = owed
            /\ Queued(pending) = Queued(pending') \cup {m.id}
            /\ m.id \notin Queued(pending') /\ OneEach(pending')
      BY <1>3, <2>1, <2>2, TailQueue DEF Commit, Once, CachedOnce
    <3>2. m.id \notin Ids(rows)
      BY <3>1 DEF Once, CachedOnce
    <3>3. Ids(rows') = Ids(rows) \cup {m.id} /\ Distinct(rows')
      BY <3>1, <3>2, AppendIds DEF Once, CachedOnce, Shape, TypeOK
    <3>4. Apart'
      BY <2>1, <3>1, <3>3 DEF Once, Apart, Unpushed
    <3>5. Counted'
      BY <2>1, <3>1, <3>3 DEF Once, Counted
    <3>6. CachedOnce'
      BY <3>1, <3>3 DEF Once, CachedOnce, Distinct, OneEach
    <3>7. Singles' /\ Distinct(ctx.msgs)'
      BY <2>1 DEF Once, Singles, Distinct
    <3>8. Kept'
      BY <2>1, <3>1, <3>3 DEF Kept, Held
    <3> QED BY <3>4, <3>5, <3>6, <3>7, <3>8 DEF Once
  <2>3. CASE Head(pending).kind # "save"
    <3>1. /\ rows' = <<>> /\ owed' = owed \ Ids(rows)
          /\ Queued(pending') = Queued(pending) /\ OneEach(pending')
      BY <1>3, <2>1, <2>3, TailQueue DEF Commit, Once, CachedOnce
    <3>2. Ids(rows') = {} /\ Distinct(rows')
      BY <3>1 DEF Ids, Distinct
    <3>3. Apart' /\ Counted'
      BY <2>1, <3>1, <3>2, FewerOnce DEF Unpushed
    <3>4. CachedOnce'
      BY <3>1, <3>2 DEF CachedOnce, Distinct, OneEach
    <3>5. Singles' /\ Distinct(ctx.msgs)'
      BY <2>1 DEF Once, Singles, Distinct
    <3>6. Kept'
      BY <2>1, <3>1 DEF Kept, Held
    <3> QED BY <3>3, <3>4, <3>5, <3>6 DEF Once
  <2> QED BY <2>2, <2>3
<1>4. CASE Rollback
  <2>1. /\ pending # <<>> /\ pending \in Seq(Op) /\ pending' = Tail(pending)
        /\ UNCHANGED <<ctx, rows, seen, left, messages, job>>
    BY <1>4 DEF Rollback, Shape, TypeOK
  <2>2. /\ Queued(pending') \subseteq Queued(pending) /\ OneEach(pending')
        /\ \A id \in owed' : id \in owed /\ (id \in Queued(pending) => id \in Queued(pending'))
    BY <1>4, <2>1, TailQueue DEF Rollback, Once, CachedOnce
  <2>3. Apart' /\ Counted'
    BY <2>1, <2>2, FewerOnce DEF Unpushed
  <2>4. CachedOnce' /\ Singles' /\ Distinct(ctx.msgs)'
    BY <2>1, <2>2 DEF Once, CachedOnce, Singles, Distinct, OneEach
  <2>5. Kept'
    BY <2>1, <2>2 DEF Kept, Held
  <2> QED BY <2>3, <2>4, <2>5 DEF Once
<1>5. CASE Crash
  <2>1. /\ ctx' = Absent /\ pending' = <<>> /\ owed' = owed \cap Ids(rows)
        /\ UNCHANGED <<rows, messages>>
        /\ \A t \in Turns : seen'[t] = <<>> /\ left'[t] = <<>> /\ job'[t] = "none"
    BY <1>5 DEF Crash
  <2>2. Ids(<<>>) = {} /\ Distinct(<<>>) /\ Queued(<<>>) = {} /\ OneEach(<<>>)
    BY DEF Ids, Distinct, Queued, OneEach
  <2>3. ctx'.msgs = <<>>
    BY <2>1 DEF Absent
  <2>4. Apart' /\ Counted'
    BY <2>1, <2>2, <2>3, FewerOnce DEF Unpushed
  <2>5. CachedOnce' /\ Singles' /\ Distinct(ctx.msgs)'
    BY <2>1, <2>2, <2>3 DEF Once, CachedOnce, Singles, Distinct, OneEach
  <2>6. Kept'
    BY <2>1 DEF Kept, Held
  <2> QED BY <2>4, <2>5, <2>6 DEF Once
<1> QED BY <1>1, <1>2, <1>3, <1>4, <1>5 DEF Process

LEMMA OnceInv == Spec => [](Shape /\ Quiet /\ Once /\ Kept)
<1> DEFINE I == Quiet /\ OneMessage /\ Once /\ Kept
<1>1. Init => I
  <2> SUFFICES ASSUME Init PROVE I
    OBVIOUS
  <2>1. Ids(<<>>) = {} /\ Distinct(<<>>) /\ Queued(<<>>) = {} /\ OneEach(<<>>)
    BY DEF Ids, Distinct, Queued, OneEach
  <2>2. Quiet /\ OneMessage
    BY DEF Init, Quiet, OneMessage
  <2>3. ctx.msgs = <<>> /\ rows = <<>> /\ pending = <<>> /\ owed = {}
        /\ \A t \in Turns : left[t] = <<>> /\ seen[t] = <<>>
    BY DEF Init, Absent
  <2>4. Apart /\ Counted
    BY <2>1, <2>3 DEF Apart, Counted
  <2>5. CachedOnce /\ Singles /\ Distinct(ctx.msgs)
    BY <2>1, <2>3 DEF CachedOnce, Singles
  <2>6. Kept
    BY <2>3 DEF Kept
  <2> QED BY <2>2, <2>4, <2>5, <2>6 DEF Once
<1>2. Shape /\ I /\ [Next]_vars => I'
  <2> SUFFICES ASSUME Shape, I, [Next]_vars PROVE I'
    OBVIOUS
  <2>1. ASSUME NEW t \in Turns, Request(t) PROVE I'
    BY <2>1, RequestCalm, RequestOnce
  <2>2. ASSUME NEW t \in Turns, Job(t) PROVE I'
    BY <2>2, JobCalm, JobOnce
  <2>3. CASE Process
    BY <2>3, ProcessCalm, ProcessOnce
  <2>4. CASE UNCHANGED vars
    <3>1. Once' /\ Kept'
      BY <2>4, SameOnce DEF vars, store, turn, history, Unpushed
    <3>2. Quiet' /\ OneMessage'
      BY <2>4 DEF vars, store, turn, history, Quiet, OneMessage
    <3> QED BY <3>1, <3>2
  <2> QED BY <2>1, <2>2, <2>3, <2>4 DEF Next
<1> QED BY <1>1, <1>2, ShapeInv, PTL DEF Spec

(* push_turn never puts a message into memory that is there, although      *)
(* contexts expire, come back by a job before they are hydrated, and are   *)
(* hydrated from rows read some steps before (conversation.rs:12-31,       *)
(* 67-87).                                                                 *)
THEOREM MessagesOnce == Spec => []NoDuplicates
<1>1. Once => NoDuplicates
  BY DEF Once, Distinct, NoDuplicates
<1> QED BY <1>1, OnceInv, PTL

(* An accepted message is in a hand, in the queue or in the cache until    *)
(* the cache refuses, clears or rolls it back or the process dies; the     *)
(* drain leaves none in a hand (main.rs:120-124, conversation.rs:100-116). *)
THEOREM AcceptedKept == Spec => []RepliesKept
BY OnceInv, KeptIsRepliesKept, PTL
============================================================================
