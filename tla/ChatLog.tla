------------------------------ MODULE ChatLog ------------------------------
(***************************************************************************)
(* What the chat history promises to those who write it: accepted          *)
(* operations are a log.  The log is settled from its old end: the         *)
(* operations up to some point take effect together, as if each were done  *)
(* when its turn came, or are lost together.  Of every user's history only *)
(* the newest MaxMessages turns stay.                                      *)
(***************************************************************************)
EXTENDS Naturals, FiniteSets

CONSTANTS Users, Nobody, MaxMessages

VARIABLES
  accepted,   \* the number of the last operation of the log
  pending,    \* the operations not settled yet
  stored      \* the turns on record

vars == <<accepted, pending, stored>>

Init == accepted = 0 /\ pending = {} /\ stored = {}

Kinds == {"save", "clear", "flush", "shutdown"}

Accept(kind, user) ==
  /\ accepted' = accepted + 1
  /\ pending' = pending \cup {[kind |-> kind, user |-> user, no |-> accepted + 1]}
  /\ UNCHANGED stored

UpTo(op) == {p \in pending : p.no <= op.no}

\* The turns of S and of the saves in done that no clear in done came after.
After(S, done) ==
  {t \in S \cup {[user |-> p.user, turn |-> p.no] : p \in {q \in done : q.kind = "save"}} :
     \A p \in done : p.kind = "clear" /\ p.user = t.user => t.turn > p.no}

Newest(S) ==
  {t \in S : Cardinality({s \in S : s.user = t.user /\ s.turn > t.turn}) < MaxMessages}

Store(op) == /\ pending' = pending \ UpTo(op)
             /\ stored' = Newest(After(stored, UpTo(op)))
             /\ UNCHANGED accepted

Lose(op) == /\ pending' = pending \ UpTo(op)
            /\ UNCHANGED <<stored, accepted>>

Next == \/ \E kind \in Kinds, user \in Users \cup {Nobody} : Accept(kind, user)
        \/ \E op \in pending : Store(op) \/ Lose(op)

Spec == Init /\ [][Next]_vars
=============================================================================
