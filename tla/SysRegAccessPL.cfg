\* Full registry, fatal asserts, every opc1: checkSystemAccess stops only
\* for the opc1 values of EL2 and EL3.
CONSTANTS
    Modelled <- MCAllRegsA
    BaseValues <- MCZeroedA
    AssertFatal = TRUE
    ExtraAA64Codes <- MCExtraAA64A
    ExtraCpCodes <- MCExtraCpA
    ELs <- MCELs
    Opc1s <- MCOpc1s
SPECIFICATION Spec
INVARIANT
    CheckStopsOnlyUnmodelledEL
CHECK_DEADLOCK FALSE
