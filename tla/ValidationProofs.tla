-------------------------- MODULE ValidationProofs --------------------------
(***************************************************************************)
(* Proofs about the validators of Validations.cpp, for every set of values *)
(* and program counters.                                                   *)
(***************************************************************************)
EXTENDS Validation, TLAPS

\* Every validator call either reports success, is one of MAGIC's hooks, or
\* records a live instruction with two differing values.
LEMMA SourceValidatorKeeps ==
    ASSUME FalseOnlyOnLiveMismatch,
           \/ ValidateXRegister \/ ValidatePC
           \/ \E k \in {"validateVRegister", "validateMemory", "validateLegalReturn",
                        "AArch64ExclusiveMonitorsPass"} : ValidateDisabled(k)
           \/ MagicPreValidate \/ MagicPostValidate
    PROVE  FalseOnlyOnLiveMismatch'
  <1>1. CASE ValidateXRegister
    <2>1. CASE ~Live
      BY <1>1, <2>1 DEF ValidateXRegister, Returns, FalseOnlyOnLiveMismatch
    <2>2. CASE Live
      <3>1. verdict' = [kind |-> "validateXRegister", out |-> operand = qemuReg, live |-> TRUE,
                        compared |-> <<operand, qemuReg>>]
        BY <1>1, <2>2 DEF ValidateXRegister, Returns
      <3>2. QED
        BY <3>1 DEF FalseOnlyOnLiveMismatch
    <2>3. QED
      BY <2>1, <2>2
  <1>2. CASE ValidatePC
    <2>1. CASE ~Live
      BY <1>2, <2>1 DEF ValidatePC, Returns, FalseOnlyOnLiveMismatch
    <2>2. CASE Live
      <3>1. verdict' = [kind |-> "validatePC", out |-> ThePC = qemuPC, live |-> TRUE,
                        compared |-> <<ThePC, qemuPC>>]
        BY <1>2, <2>2 DEF ValidatePC, Returns
      <3>2. QED
        BY <3>1 DEF FalseOnlyOnLiveMismatch
    <2>3. QED
      BY <2>1, <2>2
  <1>3. CASE \E k \in {"validateVRegister", "validateMemory", "validateLegalReturn",
                       "AArch64ExclusiveMonitorsPass"} : ValidateDisabled(k)
    BY <1>3 DEF ValidateDisabled, Returns, FalseOnlyOnLiveMismatch
  <1>4. CASE MagicPostValidate
    BY <1>4 DEF MagicPostValidate, Returns, FalseOnlyOnLiveMismatch
  <1>5. CASE MagicPreValidate
    <2>1. verdict'.kind \notin ValidationsCpp
      BY <1>5 DEF MagicPreValidate, Returns, ValidationsCpp, Validators
    <2>2. QED
      BY <2>1 DEF FalseOnlyOnLiveMismatch
  <1>6. QED
    BY <1>1, <1>2, <1>3, <1>4, <1>5

\* A validator of Validations.cpp reports a mismatch only for an instruction
\* that was neither squashed, annulled nor excepted when it ran, and whose
\* flexus value differed from QEMU's (validateXRegister, validatePC), however
\* the core's squash, annul and exception steps and MAGIC's hooks
\* interleave with the calls.
\* FalseOnlyOnLiveMismatch is inductive by itself: the core's and QEMU's
\* steps leave the recorded verdict alone.
THEOREM SourceValidatorsSound == Spec => []FalseOnlyOnLiveMismatch
  <1>1. Init => FalseOnlyOnLiveMismatch
    BY DEF Init, NoVerdict, FalseOnlyOnLiveMismatch
  <1>2. FalseOnlyOnLiveMismatch /\ [Next]_vars
          => FalseOnlyOnLiveMismatch'
    <2> SUFFICES ASSUME FalseOnlyOnLiveMismatch, [Next]_vars
                 PROVE  FalseOnlyOnLiveMismatch'
      OBVIOUS
    <2>1. CASE Squash \/ Annul \/ Raise
      BY <2>1 DEF Squash, Annul, Raise, FalseOnlyOnLiveMismatch
    <2>2. CASE \E v \in Vals : WriteOperand(v)
      BY <2>2 DEF WriteOperand, FalseOnlyOnLiveMismatch
    <2>3. CASE \E r \in Vals, p \in PCs : QemuStep(r, p)
      BY <2>3 DEF QemuStep, FalseOnlyOnLiveMismatch
    <2>4. CASE UNCHANGED vars
      BY <2>4 DEF vars, FalseOnlyOnLiveMismatch
    <2>5. QED
      BY <2>1, <2>2, <2>3, <2>4, SourceValidatorKeeps DEF Next
  <1>3. QED
    BY <1>1, <1>2, PTL DEF Spec

=============================================================================
