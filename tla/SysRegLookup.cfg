\* Two descriptors whose SysRegInfo members may read 0 or 15, DBG_Assert
\* compiled out: a lookup finds an object filed under the code's key that
\* matches it in full, whatever other objects share the key.
CONSTANTS
    Modelled <- MCTwoRegs
    BaseValues <- MCAnyByte
    AssertFatal = FALSE
    ExtraAA64Codes <- MCByteCodes
    ExtraCpCodes <- MCByteCodes
SPECIFICATION Spec
INVARIANT FoundWhenFiled
