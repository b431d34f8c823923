----------------------------- MODULE Validation -----------------------------
(***************************************************************************)
(* The validators of the decoder (src/components/armDecoder/Validations.cpp *)
(* and the MAGIC instruction's hooks in encodings/armMagic.cpp) run against *)
(* one instruction whose life the core model drives: it may be squashed,    *)
(* annulled or raise an exception at any point, its result operand is      *)
(* written when it executes, and the reference emulator (QEMU) moves on    *)
(* independently.  Each validator is a call that reads this state and       *)
(* returns a bool, recorded with the values it compared.                   *)
(***************************************************************************)
EXTENDS Naturals

CONSTANTS
    Vals,     \* 64-bit register values, abstracted to a small set
    PCs,      \* program counters, abstracted to a small set
    ThePC     \* the instruction's own PC (thePC / theAddr)

ASSUME ValidationAssumption == ThePC \in PCs /\ Vals # {}

\* The validators, by class name.
Validators == {"validateXRegister", "validatePC", "validateVRegister",
               "validateMemory", "validateLegalReturn",
               "AArch64ExclusiveMonitorsPass", "MAGIC::preValidate",
               "MAGIC::postValidate"}

VARIABLES
    squashed,  \* isSquashed()
    annulled,  \* isAnnulled()
    raised,    \* raised(): the instruction took an architectural exception
    operand,   \* operand<uint64_t>(theOperandCode) as flexus computed it
    qemuReg,   \* readXRegister(theReg) of the reference emulator
    qemuPC,    \* getPC() / readPC() of the reference emulator
    verdict    \* the latest validator call: which, its result, what it compared

vars == <<squashed, annulled, raised, operand, qemuReg, qemuPC, verdict>>

NoVerdict == [kind |-> "none", out |-> TRUE, live |-> TRUE, compared |-> <<>>]

Init ==
    /\ squashed = FALSE /\ annulled = FALSE /\ raised = FALSE
    /\ operand \in Vals
    /\ qemuReg \in Vals
    /\ qemuPC \in PCs
    /\ verdict = NoVerdict

-----------------------------------------------------------------------------
(* The core model and the reference emulator.                              *)

Squash == ~squashed /\ squashed' = TRUE
          /\ UNCHANGED <<annulled, raised, operand, qemuReg, qemuPC, verdict>>
Annul == ~annulled /\ annulled' = TRUE
         /\ UNCHANGED <<squashed, raised, operand, qemuReg, qemuPC, verdict>>
Raise == ~raised /\ raised' = TRUE
         /\ UNCHANGED <<squashed, annulled, operand, qemuReg, qemuPC, verdict>>

\* The instruction writes its result operand.
WriteOperand(v) ==
    /\ operand' = v
    /\ UNCHANGED <<squashed, annulled, raised, qemuReg, qemuPC, verdict>>

\* The reference emulator executes: its register and PC change.
QemuStep(r, p) ==
    /\ qemuReg' = r /\ qemuPC' = p
    /\ UNCHANGED <<squashed, annulled, raised, operand, verdict>>

-----------------------------------------------------------------------------
(* The validators.                                                         *)

\* The instruction is neither squashed, annulled nor excepted.
Live == ~squashed /\ ~annulled /\ ~raised

Returns(kind, out, compared) ==
    /\ verdict' = [kind |-> kind, out |-> out, live |-> Live,
                   compared |-> compared]
    /\ UNCHANGED <<squashed, annulled, raised, operand, qemuReg, qemuPC>>

\* Mutant: the exception test dropped, so an excepted instruction is compared.
ValidateXRegisterNoRaised ==
    IF squashed \/ annulled THEN Returns("validateXRegister", TRUE, <<>>)
    ELSE Returns("validateXRegister", operand = qemuReg, <<operand, qemuReg>>)

\* validateXRegister: skip a squashed, annulled or excepted instruction;
\* otherwise compare the operand with QEMU's register.
ValidateXRegister ==
    IF ~Live THEN Returns("validateXRegister", TRUE, <<>>)
    ELSE Returns("validateXRegister", operand = qemuReg, <<operand, qemuReg>>)

\* validatePC: the same skips; compare theAddr with QEMU's PC.
ValidatePC ==
    IF ~Live THEN Returns("validatePC", TRUE, <<>>)
    ELSE Returns("validatePC", ThePC = qemuPC, <<ThePC, qemuPC>>)

\* validateVRegister, validateMemory, validateLegalReturn and
\* AArch64ExclusiveMonitorsPass: their checks are commented out.
ValidateDisabled(kind) == Returns(kind, TRUE, <<>>)

\* MAGIC::preValidate: compare QEMU's PC with thePC, logging a mismatch.
\* The core calls it as the instruction's pre-commit hook (its caller is
\* not in the sources): never on a squashed instruction.
MagicPreValidate ==
    /\ ~squashed
    /\ Returns("MAGIC::preValidate", qemuPC = ThePC, <<ThePC, qemuPC>>)

\* MAGIC::postValidate: its comparison is commented out.
MagicPostValidate == Returns("MAGIC::postValidate", TRUE, <<>>)

\* The core's steps, QEMU's steps and every validator call, MAGIC's hooks
\* included.
Next ==
    \/ Squash \/ Annul \/ Raise
    \/ \E v \in Vals : WriteOperand(v)
    \/ \E r \in Vals, p \in PCs : QemuStep(r, p)
    \/ ValidateXRegister \/ ValidatePC
    \/ \E k \in {"validateVRegister", "validateMemory", "validateLegalReturn",
                 "AArch64ExclusiveMonitorsPass"} : ValidateDisabled(k)
    \/ MagicPreValidate \/ MagicPostValidate

Spec == Init /\ [][Next]_vars

-----------------------------------------------------------------------------
\* The validators of Validations.cpp.
ValidationsCpp == Validators \ {"MAGIC::preValidate", "MAGIC::postValidate"}

\* A validator of Validations.cpp reports a mismatch only for an
\* instruction that was live when it ran and whose flexus value differed
\* from QEMU's: a squashed, annulled or excepted instruction always passes
\* (spec sections 4.5 and 8).
FalseOnlyOnLiveMismatch ==
    verdict.kind \in ValidationsCpp /\ ~verdict.out =>
        /\ verdict.live
        /\ verdict.compared # <<>>
        /\ verdict.compared[1] # verdict.compared[2]

=============================================================================
