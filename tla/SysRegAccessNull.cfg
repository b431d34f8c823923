\* An instruction whose encoding no descriptor has makes SysReg_access dereference nullptr.
CONSTANTS
    Modelled <- MCAllRegsA
    BaseValues <- MCZeroedA
    AssertFatal = TRUE
    ExtraAA64Codes <- MCExtraAA64A
    ExtraCpCodes <- MCExtraCpA
    ELs <- MCELs
    Opc1s <- MCOpc1s
SPECIFICATION Spec
INVARIANT
    NoNullDeref
CHECK_DEADLOCK FALSE
