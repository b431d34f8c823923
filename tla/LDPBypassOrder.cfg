\* With the bypasses naming the result registers in parameter order, does
\* each bypass forward the half written to its operand?
CONSTANTS
    Half <- MCHalf
    BypassOf <- MCBypassInOrder
    MaxCalls = 4
SPECIFICATION Spec
INVARIANT BypassAgreesWithOperand
CHECK_DEADLOCK FALSE
