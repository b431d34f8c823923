--------------------------- MODULE SemanticAction ---------------------------
(***************************************************************************)
(* What a predicated semantic action promises (spec, sections 4.3 and 5),  *)
(* seen from its dependants: its effect produces a result only while it is *)
(* live, its input has arrived and its predicate holds; cancel() is        *)
(* permanent and silences it; predicate_on is ignored once it is           *)
(* cancelled.  With Once the effect runs at most once, as section 4.3      *)
(* states ("execute the action's effect exactly once").                   *)
(***************************************************************************)
CONSTANTS
    Values,   \* the results the effect may produce
    NoValue,  \* no result produced yet
    Once      \* whether the effect may run only once

VARIABLES
    arrived,  \* the action's input has arrived
    pred,     \* its predicate
    live,     \* it has not been cancelled
    result,   \* the result its effect produced last
    fired     \* its effect has run

vars == <<arrived, pred, live, result, fired>>

Init ==
    /\ arrived = FALSE
    /\ pred \in BOOLEAN
    /\ live = TRUE
    /\ result = NoValue
    /\ fired = FALSE

\* satisfy on a live action records its input.
Arrive ==
    /\ live
    /\ arrived' = TRUE
    /\ UNCHANGED <<pred, live, result, fired>>

\* predicate_on on a live action, or predicate_off on any.
SetPred(b) ==
    /\ b => live
    /\ pred' = b
    /\ UNCHANGED <<arrived, live, result, fired>>

\* The effect: in the step that completes the input or the predicate of a
\* live action, with the other one already there, its result becomes some
\* value.
Effect(v) ==
    /\ live
    /\ arrived \/ pred
    /\ arrived' = TRUE
    /\ pred' = TRUE
    /\ Once => ~fired
    /\ result' = v
    /\ fired' = TRUE
    /\ UNCHANGED live

Cancel ==
    /\ live
    /\ live' = FALSE
    /\ UNCHANGED <<arrived, pred, result, fired>>

Next ==
    \/ Arrive
    \/ \E b \in BOOLEAN : SetPred(b)
    \/ \E v \in Values : Effect(v)
    \/ Cancel

Spec == Init /\ [][Next]_vars

=============================================================================
