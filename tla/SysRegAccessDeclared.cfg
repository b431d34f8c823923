\* Full registry on zeroed heap memory, fatal asserts: does SysReg_access
\* grant what the found descriptor's declared PL masks grant?
CONSTANTS
    Modelled <- MCAllRegsA
    BaseValues <- MCZeroedA
    AssertFatal = TRUE
    ExtraAA64Codes <- MCExtraAA64A
    ExtraCpCodes <- MCExtraCpA
    ELs <- MCELs
    Opc1s <- MCOpc1s
SPECIFICATION Spec
INVARIANT
    AccessAgreesWithPL
CHECK_DEADLOCK FALSE
