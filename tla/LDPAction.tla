----------------------------- MODULE LDPAction -----------------------------
(***************************************************************************)
(* The load-pair semantic action of the ARM decoder                        *)
(* (src/components/armDecoder/SemanticActions/LDPAction.cpp) together with *)
(* the parts of its base classes it relies on.  One action of one          *)
(* instruction is modelled; the core model drives it by calling satisfy,   *)
(* predicate_on, predicate_off and cancel in any order, any number of      *)
(* times up to MaxCalls.                                                   *)
(*                                                                         *)
(* BaseSemanticAction and PredicatedSemanticAction are not in the          *)
(* repository's sources: their behaviour (satisfy marks the argument       *)
(* ready, predicate_on/off set the predicate, cancel is permanent, and     *)
(* satisfy/predicate_on are no-ops on a cancelled action) is taken from    *)
(* the specification, sections 4.3 and 5.                                 *)
(*                                                                         *)
(* A 128-bit load value is an integer below Half * Half, Half standing for *)
(* 2^64; splitBits yields <<high half, low half>> (spec, section 4.3).     *)
(***************************************************************************)
EXTENDS Naturals

CONSTANTS
    Half,      \* 2^(width of one half); 2^64 in the code
    BypassOf,  \* bypass index -> result operand whose register it names
    MaxCalls   \* bound on the core model's calls into the action

\* theBypass0 / theBypass1 are optional operand codes; NoBypass is boost::none.
Results == {"kResult", "kResult1"}
NoBypass == "none"

ASSUME LDPActionAssumption ==
    /\ Half \in Nat \ {0}
    /\ BypassOf \in [{0, 1} -> Results \cup {NoBypass}]
    /\ MaxCalls \in Nat

Word == 0..(Half - 1)
Value == 0..(Half * Half - 1)

\* An operand slot or bypass that has not been written.
None == Half * Half

VARIABLES
    ready,      \* the single argument (the memory value) has arrived
    pred,       \* thePredicate
    cancelled,  \* cancelled()
    operands,   \* result operand -> value written by setOperand
    bypassed,   \* bypass index -> last value forwarded by core()->bypass
    loaded,     \* the value retrieveLoadValue returned to the last doLoad
    loads,      \* number of doLoad executions
    notified,   \* number of satisfyDependants calls
    calls       \* number of calls the core model has made

vars == <<ready, pred, cancelled, operands, bypassed, loaded, loads,
          notified, calls>>

effects == <<operands, bypassed, loaded, loads, notified>>

\* splitBits: <<first, second>> = <<high half, low half>>.
Hi(v) == v \div Half

\* Mutant: the low half taken as the whole value, without truncation.
LoUnmasked(v) == v

Lo(v) == v % Half

TypeOK ==
    /\ ready \in BOOLEAN
    /\ pred \in BOOLEAN
    /\ cancelled \in BOOLEAN
    /\ operands \in [Results -> Word \cup {None}]
    /\ bypassed \in [{0, 1} -> Word \cup {None}]
    /\ loaded \in Value \cup {None}
    /\ loads \in Nat
    /\ notified \in Nat
    /\ calls \in 0..MaxCalls

\* ldpAction(): LDPAction(anInstruction, aSize, aSigncode, aBypass0,
\* aBypass1) : PredicatedSemanticAction(anInstruction, 1, true): one
\* argument, predicate initially true.
Init ==
    /\ ready = FALSE
    /\ pred = TRUE
    /\ cancelled = FALSE
    /\ operands = [r \in Results |-> None]
    /\ bypassed = [b \in {0, 1} |-> None]
    /\ loaded = None
    /\ loads = 0
    /\ notified = 0
    /\ calls = 0

\* Mutant: the halves written to the wrong operands.
DoLoadSwapped ==
    \E v \in Value :
        /\ operands' = [operands EXCEPT !["kResult"] = Hi(v),
                                        !["kResult1"] = Lo(v)]
        /\ bypassed' = [b \in {0, 1} |->
                          IF BypassOf[b] = NoBypass THEN bypassed[b]
                          ELSE IF b = 0 THEN Hi(v) ELSE Lo(v)]
        /\ loaded' = v
        /\ loads' = loads + 1
        /\ notified' = notified + 1

\* Mutant: theBypass1 forwards pairValues.first as well.
DoLoadBypassFirst ==
    \E v \in Value :
        /\ operands' = [operands EXCEPT !["kResult"] = Lo(v),
                                        !["kResult1"] = Hi(v)]
        /\ bypassed' = [b \in {0, 1} |->
                          IF BypassOf[b] = NoBypass THEN bypassed[b] ELSE Hi(v)]
        /\ loaded' = v
        /\ loads' = loads + 1
        /\ notified' = notified + 1

\* doLoad(): value = core()->retrieveLoadValue(..); split it; kResult :=
\* second, kResult1 := first; bypass first through theBypass0 and second
\* through theBypass1 when present; satisfyDependants().
DoLoad ==
    \E v \in Value :
        /\ operands' = [operands EXCEPT !["kResult"] = Lo(v),
                                        !["kResult1"] = Hi(v)]
        /\ bypassed' = [b \in {0, 1} |->
                          IF BypassOf[b] = NoBypass THEN bypassed[b]
                          ELSE IF b = 0 THEN Hi(v) ELSE Lo(v)]
        /\ loaded' = v
        /\ loads' = loads + 1
        /\ notified' = notified + 1

\* The test both overrides make after the base call:
\* if (!cancelled() && ready() && thePredicate) doLoad();
LoadIfEnabled(c, r, p) ==
    IF ~c /\ r /\ p THEN DoLoad ELSE UNCHANGED effects

\* Mutant: the doLoad test evaluated before the base call marks the input.
SatisfyCheckFirst ==
    /\ calls < MaxCalls
    /\ calls' = calls + 1
    /\ ready' = (ready \/ ~cancelled)
    /\ LoadIfEnabled(cancelled, ready, pred)
    /\ UNCHANGED <<pred, cancelled>>

\* LDPAction::satisfy(anArg): BaseSemanticAction::satisfy(anArg) marks the
\* argument ready (a no-op once cancelled), then the doLoad test.
Satisfy ==
    /\ calls < MaxCalls
    /\ calls' = calls + 1
    /\ ready' = (ready \/ ~cancelled)
    /\ LoadIfEnabled(cancelled, ready', pred)
    /\ UNCHANGED <<pred, cancelled>>

\* Mutant: predicate_on without the !cancelled() test.
PredicateOnUnchecked ==
    /\ calls < MaxCalls
    /\ calls' = calls + 1
    /\ pred' = (pred \/ ~cancelled)
    /\ LoadIfEnabled(FALSE, ready, pred')
    /\ UNCHANGED <<ready, cancelled>>

\* LDPAction::predicate_on(anArg): PredicatedSemanticAction::predicate_on
\* sets the predicate (a no-op once cancelled), then the doLoad test.
PredicateOn ==
    /\ calls < MaxCalls
    /\ calls' = calls + 1
    /\ pred' = (pred \/ ~cancelled)
    /\ LoadIfEnabled(cancelled, ready, pred')
    /\ UNCHANGED <<ready, cancelled>>

\* PredicatedSemanticAction::predicate_off: the predicate becomes false.
PredicateOff ==
    /\ calls < MaxCalls
    /\ calls' = calls + 1
    /\ pred' = FALSE
    /\ UNCHANGED <<ready, cancelled, operands, bypassed, loaded, loads,
                   notified>>

\* cancel(): the squashed instruction's action is suppressed for good.
Cancel ==
    /\ ~cancelled
    /\ cancelled' = TRUE
    /\ UNCHANGED <<ready, pred, operands, bypassed, loaded, loads,
                   notified, calls>>

Next == Satisfy \/ PredicateOn \/ PredicateOff \/ Cancel

Spec == Init /\ [][Next]_vars

-----------------------------------------------------------------------------
\* After a doLoad the two result operands concatenate, kResult1 high and
\* kResult low, back to exactly the value retrieveLoadValue returned
\* (doLoad's splitBits and the two setOperand calls).
OperandsSplitLoad ==
    loads > 0 => operands["kResult1"] * Half + operands["kResult"] = loaded

\* A value forwarded through a bypass equals the value written to the
\* result operand whose register that bypass names, so a consumer woken by
\* the bypass and one reading the committed register see the same value
\* (doLoad's setOperand and core()->bypass calls).
BypassAgreesWithOperand ==
    \A b \in {0, 1} :
        BypassOf[b] # NoBypass /\ bypassed[b] # None
            => bypassed[b] = operands[BypassOf[b]]

\* Once the action is cancelled no call of the core model writes an
\* operand, forwards a value or wakes a dependant again (satisfy and
\* predicate_on after cancel(), spec section 5).
CancelFreezes ==
    [][cancelled => UNCHANGED effects]_vars

\* No lost wakeup: an action that is live, has its input and has its
\* predicate has run doLoad, whichever of satisfy and predicate_on came
\* last (the test after the base call in both overrides, spec 4.3).
NoLostWakeup == ~cancelled /\ ready /\ pred => loads > 0

\* The value the two result operands hold together, once written.
PairValue ==
    IF loads = 0 THEN None
    ELSE operands["kResult1"] * Half + operands["kResult"]

\* The refinement mapping to the abstract semantic action: its input is
\* the memory value, its result the pair the operands hold.
AbsRepeat == INSTANCE SemanticAction
    WITH Values <- Value, NoValue <- None, Once <- FALSE,
         arrived <- ready, pred <- pred, live <- ~cancelled,
         result <- PairValue, fired <- loads > 0
AbsOnce == INSTANCE SemanticAction
    WITH Values <- Value, NoValue <- None, Once <- TRUE,
         arrived <- ready, pred <- pred, live <- ~cancelled,
         result <- PairValue, fired <- loads > 0

\* The load-pair action implements a semantic action: it loads only when
\* live, fed and predicated, and its operands then hold one retrieved value.
RefinesSemanticAction == AbsRepeat!Spec

\* It implements the action whose effect runs once (spec section 4.3).
RefinesOnceAction == AbsOnce!Spec

=============================================================================
