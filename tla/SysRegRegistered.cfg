\* The whole registry on zeroed heap memory, fatal asserts: does looking up
\* a descriptor's declared code return that descriptor?
CONSTANTS
    Modelled <- MCAllRegs
    BaseValues <- MCZeroed
    AssertFatal = TRUE
    ExtraAA64Codes <- MCExtraAA64
    ExtraCpCodes <- MCExtraCp
SPECIFICATION Spec
INVARIANT RegisteredLookupReturnsIt
CHECK_DEADLOCK FALSE
