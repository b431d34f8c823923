\* The same instance, DBG_Assert compiled out: an object that matches the
\* code in full is filed under a key summed from a member the lookup never
\* compares (opc0 for getRegInfo_cp, cp = 15 for getRegInfo).
CONSTANTS
    Modelled <- MCTwoRegs
    BaseValues <- MCAnyByte
    AssertFatal = FALSE
    ExtraAA64Codes <- MCByteCodes
    ExtraCpCodes <- MCByteCodes
SPECIFICATION Spec
INVARIANT FoundWhenMatched
