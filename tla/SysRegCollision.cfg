\* The same instance with DBG_Assert fatal: the assert after the first
\* non-matching entry of equal_range ends the lookup before a later entry
\* that matches.  An assert ends the process, so the aborted state has no
\* successor.
CONSTANTS
    Modelled <- MCTwoRegs
    BaseValues <- MCAnyByte
    AssertFatal = TRUE
    ExtraAA64Codes <- MCByteCodes
    ExtraCpCodes <- MCByteCodes
SPECIFICATION Spec
INVARIANT FoundWhenFiled
CHECK_DEADLOCK FALSE
