-------------------------- MODULE MCConversation --------------------------
(* Model-checking instances of Conversation.                               *)
EXTENDS Conversation, TLC

CONSTANTS t1, t2

TurnsTwo == {t1, t2}
Symmetry == Permutations(TurnsTwo)

\* Local variables of a turn that is over; basis is set before it is used.
Over(t) == pc[t] = "idle" /\ job[t] = "none"
LiveKind  == [t \in Turns |-> IF Over(t) THEN "" ELSE kind[t]]
LiveBasis == [t \in Turns |-> IF Over(t) \/ pc[t] = "start" THEN 0 ELSE basis[t]]

\* All that any guard or any invariant of the passing run can tell apart:
\* no step reads the stored chart.
View == <<row.pillars, row.analysis, row.summary, ctx, pending, rows,
          pc, LiveKind, LiveBasis, seen, job, left, phase, history>>
============================================================================
