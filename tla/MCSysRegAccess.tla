--------------------------- MODULE MCSysRegAccess ---------------------------
(* Instances of the access checks over the registry for TLC.              *)
EXTENDS SysRegAccess

\* All four exception levels, and every value of the 3-bit opc1 field.
MCELs == 0..3
MCOpc1s == 0..7

\* The whole registry of initSysRegs, with zeroed fresh allocations.
MCAllRegsA == AllRegNames
MCZeroedA == {0}

\* The lookup codes of MCSysRegTable beyond the declared ones: transposed
\* crn/crm neighbours of registered codes, an unregistered code with DAIF's
\* key, codes whose sum no descriptor has, and the all-zero code.
MCExtraAA64A ==
    {<<3, 3, 0, 4, 2>>, <<3, 3, 1, 4, 2>>, <<3, 3, 0, 4, 4>>, <<3, 3, 1, 4, 4>>,
     <<3, 0, 2, 4, 2>>, <<3, 0, 0, 4, 2>>, <<3, 0, 1, 4, 0>>, <<3, 0, 0, 4, 1>>,
     <<1, 3, 1, 7, 4>>, <<3, 3, 2, 1, 4>>, <<3, 7, 7, 15, 15>>, <<0, 0, 0, 0, 0>>}
MCExtraCpA ==
    {<<15, 0, 0, 3, 0>>, <<15, 0, 1, 1, 3>>, <<15, 0, 5, 8, 3>>, <<15, 7, 7, 15, 15>>}
=============================================================================
