--------------------------- MODULE MCSysRegTable ---------------------------
(* Instances of the registry for TLC.                                      *)
EXTENDS SysRegTable

\* The whole registry of initSysRegs.
MCAllRegs == AllRegNames

\* Two descriptors, one of each kind: NZCV (AArch64) and DACR (cp15).
MCTwoRegs == {"NZCV", "DACR"}

\* Fresh heap memory reads 0; any other byte, 15 (the cp of a legacy
\* register) among them, is possible.
MCZeroed == {0}
MCAnyByte == {0, 15}

\* Codes next to registered ones: registered codes with crn and crm
\* transposed (NZCV, DAIF, FPCR, FPSR, CURRENTEL, SPSel, ELR_EL1, SP_EL0,
\* DC_ZVA; DACR, SDCR, TLBIMVALIS), an unregistered code whose sum 13 is
\* DAIF's key, codes whose sum no descriptor has, and the all-zero code.
MCExtraAA64 ==
    {<<3, 3, 0, 4, 2>>, <<3, 3, 1, 4, 2>>, <<3, 3, 0, 4, 4>>, <<3, 3, 1, 4, 4>>,
     <<3, 0, 2, 4, 2>>, <<3, 0, 0, 4, 2>>, <<3, 0, 1, 4, 0>>, <<3, 0, 0, 4, 1>>,
     <<1, 3, 1, 7, 4>>, <<3, 3, 2, 1, 4>>, <<3, 7, 7, 15, 15>>, <<0, 0, 0, 0, 0>>}
MCExtraCp ==
    {<<15, 0, 0, 3, 0>>, <<15, 0, 1, 1, 3>>, <<15, 0, 5, 8, 3>>, <<15, 7, 7, 15, 15>>,
     <<0, 0, 0, 0, 0>>}

\* Codes over the bytes of MCAnyByte: all zero, one member 15 (the sum of
\* a cp15 object's key), and two members 15.
MCByteCodes ==
    {<<0, 0, 0, 0, 0>>, <<15, 0, 0, 0, 0>>, <<0, 15, 0, 0, 0>>,
     <<0, 0, 0, 0, 15>>, <<15, 15, 0, 0, 0>>, <<15, 0, 0, 15, 0>>}
=============================================================================
