\* With DBG_Assert compiled out, cases 5 and 6 fall through to case 7.
CONSTANTS
    Modelled <- MCAllRegsA
    BaseValues <- MCZeroedA
    AssertFatal = FALSE
    ExtraAA64Codes <- MCExtraAA64A
    ExtraCpCodes <- MCExtraCpA
    ELs <- MCELs
    Opc1s <- MCOpc1s
SPECIFICATION Spec
INVARIANT
    CheckKeepsCaseLevel
CHECK_DEADLOCK FALSE
