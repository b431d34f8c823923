\* Does the load-pair action implement the semantic action whose effect
\* runs once?
CONSTANTS
    Half <- MCHalf
    BypassOf <- MCBypassMatching
    MaxCalls = 4
SPECIFICATION Spec
PROPERTY RefinesOnceAction
CHECK_DEADLOCK FALSE
