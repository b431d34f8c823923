-------------------------- MODULE LDPActionProofs --------------------------
(***************************************************************************)
(* Proofs about the load-pair action for every Half, bypass wiring and    *)
(* call bound.                                                             *)
(***************************************************************************)
EXTENDS LDPAction, TLAPS

USE LDPActionAssumption DEF Results, NoBypass

\* splitBits on any 128-bit value yields two halves that rebuild it.
LEMMA SplitHalves ==
    ASSUME NEW v \in Value
    PROVE  /\ Hi(v) \in Word
           /\ Lo(v) \in Word
           /\ Hi(v) * Half + Lo(v) = v
  BY LDPActionAssumption DEF Value, Word, Hi, Lo

\* A doLoad leaves every variable it writes in its type.
LEMMA DoLoadTyped ==
    ASSUME TypeOK, DoLoad
    PROVE  /\ operands' \in [Results -> Word \cup {None}]
           /\ bypassed' \in [{0, 1} -> Word \cup {None}]
           /\ loaded' \in Value \cup {None}
           /\ loads' \in Nat
           /\ notified' \in Nat
  <1>1. PICK v \in Value :
          /\ operands' = [operands EXCEPT !["kResult"] = Lo(v),
                                          !["kResult1"] = Hi(v)]
          /\ bypassed' = [b \in {0, 1} |->
                            IF BypassOf[b] = NoBypass THEN bypassed[b]
                            ELSE IF b = 0 THEN Hi(v) ELSE Lo(v)]
          /\ loaded' = v
          /\ loads' = loads + 1
          /\ notified' = notified + 1
    BY DEF DoLoad
  <1>2. Hi(v) \in Word /\ Lo(v) \in Word
    BY SplitHalves
  <1>3. QED
    BY <1>1, <1>2 DEF TypeOK

\* The type invariant holds in every reachable state.
THEOREM TypeCorrect == Spec => []TypeOK
  <1>1. Init => TypeOK
    <2> SUFFICES ASSUME Init PROVE TypeOK
      OBVIOUS
    <2>1. operands \in [Results -> Word \cup {None}]
      BY DEF Init
    <2>2. bypassed \in [{0, 1} -> Word \cup {None}]
      BY DEF Init
    <2>3. loaded \in Value \cup {None}
      BY DEF Init
    <2>4. calls \in 0..MaxCalls /\ loads \in Nat /\ notified \in Nat
      BY DEF Init
    <2>5. QED
      BY <2>1, <2>2, <2>3, <2>4 DEF Init, TypeOK
  <1>2. TypeOK /\ [Next]_vars => TypeOK'
    <2> SUFFICES ASSUME TypeOK, [Next]_vars PROVE TypeOK'
      OBVIOUS
    <2>1. CASE Satisfy
      <3>1. CASE ~cancelled /\ ready' /\ pred
        BY <2>1, <3>1, DoLoadTyped DEF Satisfy, LoadIfEnabled, TypeOK
      <3>2. CASE ~(~cancelled /\ ready' /\ pred)
        BY <2>1, <3>2 DEF Satisfy, LoadIfEnabled, TypeOK, effects
      <3>3. QED
        BY <3>1, <3>2
    <2>2. CASE PredicateOn
      <3>1. CASE ~cancelled /\ ready /\ pred'
        BY <2>2, <3>1, DoLoadTyped DEF PredicateOn, LoadIfEnabled, TypeOK
      <3>2. CASE ~(~cancelled /\ ready /\ pred')
        BY <2>2, <3>2 DEF PredicateOn, LoadIfEnabled, TypeOK, effects
      <3>3. QED
        BY <3>1, <3>2
    <2>3. CASE PredicateOff
      <3>1. calls' \in 0..MaxCalls
        BY <2>3 DEF PredicateOff, TypeOK
      <3>2. pred' \in BOOLEAN
        BY <2>3 DEF PredicateOff
      <3>3. QED
        BY <2>3, <3>1, <3>2 DEF PredicateOff, TypeOK
    <2>4. CASE Cancel
      BY <2>4 DEF Cancel, TypeOK
    <2>5. CASE UNCHANGED vars
      BY <2>5 DEF vars, TypeOK
    <2>6. QED
      BY <2>1, <2>2, <2>3, <2>4, <2>5 DEF Next
  <1>3. QED
    BY <1>1, <1>2, PTL DEF Spec

\* A doLoad establishes the round trip of the value it retrieved.
LEMMA DoLoadSplits ==
    ASSUME TypeOK, DoLoad
    PROVE  OperandsSplitLoad'
  <1>1. PICK v \in Value :
          /\ operands' = [operands EXCEPT !["kResult"] = Lo(v),
                                          !["kResult1"] = Hi(v)]
          /\ loaded' = v
          /\ loads' = loads + 1
    BY DEF DoLoad
  <1>2. operands'["kResult1"] = Hi(v) /\ operands'["kResult"] = Lo(v)
    BY <1>1 DEF TypeOK
  <1>3. Hi(v) * Half + Lo(v) = v
    BY SplitHalves
  <1>4. QED
    BY <1>1, <1>2, <1>3 DEF OperandsSplitLoad

\* The core model's call either runs doLoad or leaves every effect alone.
LEMMA CallEffects ==
    ASSUME TypeOK, [Next]_vars
    PROVE  DoLoad \/ UNCHANGED effects
  <1>1. CASE Satisfy
    BY <1>1 DEF Satisfy, LoadIfEnabled
  <1>2. CASE PredicateOn
    BY <1>2 DEF PredicateOn, LoadIfEnabled
  <1>3. CASE PredicateOff \/ Cancel \/ UNCHANGED vars
    BY <1>3 DEF PredicateOff, Cancel, vars, effects
  <1>4. QED
    BY <1>1, <1>2, <1>3 DEF Next

\* The pair load's two operands always rebuild the value the last doLoad
\* retrieved, for every width of the halves.
THEOREM SplitLoadInvariant == Spec => []OperandsSplitLoad
  <1>1. Init => OperandsSplitLoad
    BY DEF Init, OperandsSplitLoad
  <1>2. TypeOK /\ OperandsSplitLoad /\ [Next]_vars => OperandsSplitLoad'
    <2> SUFFICES ASSUME TypeOK, OperandsSplitLoad, [Next]_vars
                 PROVE  OperandsSplitLoad'
      OBVIOUS
    <2>1. CASE DoLoad
      BY <2>1, DoLoadSplits
    <2>2. CASE UNCHANGED effects
      BY <2>2 DEF effects, OperandsSplitLoad
    <2>3. QED
      BY <2>1, <2>2, CallEffects
  <1>3. QED
    BY <1>1, <1>2, TypeCorrect, PTL DEF Spec

\* Once cancelled, a step of the action changes none of its effects.
THEOREM CancelledActionFrozen == Spec => CancelFreezes
  <1>1. TypeOK /\ [Next]_vars => [cancelled => UNCHANGED effects]_vars
    <2> SUFFICES ASSUME TypeOK, [Next]_vars, cancelled
                 PROVE  UNCHANGED effects
      BY DEF vars, effects
    <2>1. CASE Satisfy
      BY <2>1 DEF Satisfy, LoadIfEnabled
    <2>2. CASE PredicateOn
      BY <2>2 DEF PredicateOn, LoadIfEnabled
    <2>3. CASE PredicateOff \/ Cancel \/ UNCHANGED vars
      BY <2>3 DEF PredicateOff, Cancel, vars, effects
    <2>4. QED
      BY <2>1, <2>2, <2>3 DEF Next
  <1>2. QED
    BY <1>1, TypeCorrect, PTL DEF Spec, CancelFreezes

\* A doLoad leaves loads positive.
LEMMA DoLoadCounts ==
    ASSUME TypeOK, DoLoad
    PROVE  loads' > 0
  BY DEF DoLoad, TypeOK

\* No lost wakeup: a live action with its input and its predicate has
\* loaded, whatever order satisfy, predicate_on and predicate_off came in.
THEOREM NoLostWakeupInvariant == Spec => []NoLostWakeup
  <1>1. Init => NoLostWakeup
    BY DEF Init, NoLostWakeup
  <1>2. TypeOK /\ NoLostWakeup /\ [Next]_vars => NoLostWakeup'
    <2> SUFFICES ASSUME TypeOK, NoLostWakeup, [Next]_vars
                 PROVE  NoLostWakeup'
      OBVIOUS
    <2>1. CASE Satisfy
      <3>1. CASE ~cancelled /\ ready' /\ pred
        BY <2>1, <3>1, DoLoadCounts DEF Satisfy, LoadIfEnabled, NoLostWakeup
      <3>2. CASE ~(~cancelled /\ ready' /\ pred)
        BY <2>1, <3>2 DEF Satisfy, LoadIfEnabled, NoLostWakeup, effects
      <3>3. QED
        BY <3>1, <3>2
    <2>2. CASE PredicateOn
      <3>1. CASE ~cancelled /\ ready /\ pred'
        BY <2>2, <3>1, DoLoadCounts DEF PredicateOn, LoadIfEnabled, NoLostWakeup
      <3>2. CASE ~(~cancelled /\ ready /\ pred')
        BY <2>2, <3>2 DEF PredicateOn, LoadIfEnabled, NoLostWakeup, effects
      <3>3. QED
        BY <3>1, <3>2
    <2>3. CASE PredicateOff \/ Cancel \/ UNCHANGED vars
      BY <2>3 DEF PredicateOff, Cancel, vars, NoLostWakeup
    <2>4. QED
      BY <2>1, <2>2, <2>3 DEF Next
  <1>3. QED
    BY <1>1, <1>2, TypeCorrect, PTL DEF Spec

\* A doLoad run by a live call whose input and predicate are complete after
\* the call, one of them before it, is the abstract action's effect.
LEMMA LoadIsEffect ==
    ASSUME TypeOK, DoLoad, ~cancelled, cancelled' = cancelled,
           ready \/ pred, ready' = TRUE, pred' = TRUE
    PROVE  AbsRepeat!Next
  <1>1. PICK v \in Value :
          /\ operands' = [operands EXCEPT !["kResult"] = Lo(v),
                                          !["kResult1"] = Hi(v)]
          /\ loads' = loads + 1
    BY DEF DoLoad
  <1>2. PairValue' = v
    <2>1. operands'["kResult1"] = Hi(v) /\ operands'["kResult"] = Lo(v)
      BY <1>1 DEF TypeOK
    <2>2. loads' # 0
      BY <1>1 DEF TypeOK
    <2>3. Hi(v) * Half + Lo(v) = v
      BY SplitHalves
    <2>4. QED
      BY <2>1, <2>2, <2>3 DEF PairValue
  <1>3. loads' > 0
    BY <1>1 DEF TypeOK
  <1>4. AbsRepeat!Effect(v)
    BY <1>2, <1>3 DEF AbsRepeat!Effect
  <1>5. QED
    BY <1>4 DEF AbsRepeat!Next

\* The load-pair action implements the abstract semantic action: every
\* call is a stutter, an arrival, a predicate change, a cancel, or an
\* effect of a live, fed and predicated action whose result the two
\* operands hold.
THEOREM ImplementsSemanticAction == Spec => RefinesSemanticAction
  <1>1. Init => AbsRepeat!Init
    BY DEF Init, AbsRepeat!Init, PairValue
  <1>2. TypeOK /\ [Next]_vars => [AbsRepeat!Next]_AbsRepeat!vars
    <2> SUFFICES ASSUME TypeOK, [Next]_vars
                 PROVE  [AbsRepeat!Next]_AbsRepeat!vars
      OBVIOUS
    <2>1. CASE Satisfy
      <3>1. CASE ~cancelled /\ ready' /\ pred
        BY <2>1, <3>1, LoadIsEffect DEF Satisfy, LoadIfEnabled
      <3>2. CASE ~cancelled /\ ~pred
        <4>1. UNCHANGED effects /\ ready' = TRUE
          BY <2>1, <3>2 DEF Satisfy, LoadIfEnabled
        <4>2. AbsRepeat!Arrive
          BY <2>1, <3>2, <4>1 DEF Satisfy, AbsRepeat!Arrive, PairValue, effects
        <4>3. QED
          BY <4>2 DEF AbsRepeat!Next
      <3>3. CASE cancelled
        <4>1. UNCHANGED effects /\ ready' = ready
          BY <2>1, <3>3 DEF Satisfy, LoadIfEnabled, TypeOK
        <4>2. QED
          BY <2>1, <4>1 DEF Satisfy, AbsRepeat!vars, PairValue, effects
      <3>4. ~cancelled => ready' = TRUE
        BY <2>1 DEF Satisfy
      <3>5. QED
        BY <3>1, <3>2, <3>3, <3>4
    <2>2. CASE PredicateOn
      <3>1. CASE ~cancelled /\ ready /\ pred'
        BY <2>2, <3>1, LoadIsEffect DEF PredicateOn, LoadIfEnabled
      <3>2. CASE ~cancelled /\ ~ready
        <4>1. UNCHANGED effects /\ pred' = TRUE
          BY <2>2, <3>2 DEF PredicateOn, LoadIfEnabled
        <4>2. AbsRepeat!SetPred(TRUE)
          BY <2>2, <3>2, <4>1 DEF PredicateOn, AbsRepeat!SetPred, PairValue, effects
        <4>3. QED
          BY <4>2 DEF AbsRepeat!Next
      <3>3. CASE cancelled
        <4>1. UNCHANGED effects /\ pred' = pred
          BY <2>2, <3>3 DEF PredicateOn, LoadIfEnabled, TypeOK
        <4>2. QED
          BY <2>2, <4>1 DEF PredicateOn, AbsRepeat!vars, PairValue, effects
      <3>4. ~cancelled => pred' = TRUE
        BY <2>2 DEF PredicateOn
      <3>5. QED
        BY <3>1, <3>2, <3>3, <3>4
    <2>3. CASE PredicateOff
      <3>1. AbsRepeat!SetPred(FALSE)
        BY <2>3 DEF PredicateOff, AbsRepeat!SetPred, PairValue
      <3>2. QED
        BY <3>1 DEF AbsRepeat!Next
    <2>4. CASE Cancel
      <3>1. AbsRepeat!Cancel
        BY <2>4 DEF Cancel, AbsRepeat!Cancel, PairValue
      <3>2. QED
        BY <3>1 DEF AbsRepeat!Next
    <2>5. CASE UNCHANGED vars
      BY <2>5 DEF vars, AbsRepeat!vars, PairValue
    <2>6. QED
      BY <2>1, <2>2, <2>3, <2>4, <2>5 DEF Next
  <1>3. QED
    BY <1>1, <1>2, TypeCorrect, PTL DEF Spec, RefinesSemanticAction, AbsRepeat!Spec

=============================================================================
