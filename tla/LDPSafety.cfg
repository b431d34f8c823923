\* The load-pair action under every order of up to 4 core-model calls, and
\* its refinement of the abstract semantic action.
CONSTANTS
    Half <- MCHalf
    BypassOf <- MCBypassMatching
    MaxCalls = 4
SPECIFICATION Spec
INVARIANTS
    OperandsSplitLoad
    BypassAgreesWithOperand
    NoLostWakeup
PROPERTIES
    CancelFreezes
    RefinesSemanticAction
CHECK_DEADLOCK FALSE
