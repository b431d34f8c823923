---------------------------- MODULE SysRegInfo ----------------------------
(***************************************************************************)
(* The static descriptors of the system-register registry                  *)
(* (src/components/uArchARM/systemRegister.cpp).  Every descriptor is a    *)
(* struct deriving from SysRegInfo that declares its own members name, cp, *)
(* opc0, opc1, opc2, crn, crm and access, and whose constructor sets them: *)
(* AArch64 registers set opc0..crm and leave their cp unset, legacy        *)
(* coprocessor registers set cp = 15 and leave their opc0 unset.  These    *)
(* declarations are the encodings the spec gives the registers; they are   *)
(* kept here as SysRegDecls.                                               *)
(*                                                                         *)
(* The struct's members hide the members of the same names of SysRegInfo,  *)
(* and the registry and the access check read every descriptor through a  *)
(* SysRegInfo* (r->cp, it->second->opc0, ri->access): they read            *)
(* SysRegInfo's own members, which no constructor in the sources sets.     *)
(* SysRegInfoFields is that view of an object.                             *)
(***************************************************************************)
EXTENDS Integers, Sequences

\* A struct member its constructor leaves unset: only the kind of the
\* declaration (AArch64 or cp15) is taken from it.
Uninit == -1

\* Access-permission bits (systemRegister.cpp #define PL3_R .. PL0_RW):
\* a level's bit set always includes the bits of the higher levels.
PL3_R == 128
PL3_W == 64
PL2_R == 32 + PL3_R
PL2_W == 16 + PL3_W
PL1_R == 8 + PL2_R
PL1_W == 4 + PL2_W
PL0_R == 2 + PL1_R
PL0_W == 1 + PL1_W
PL3_RW == PL3_R + PL3_W
PL2_RW == PL2_R + PL2_W
PL1_RW == PL1_R + PL1_W
PL0_RW == PL0_R + PL0_W

\* The constructor of an ARM_CP_STATE_AA64 struct: it leaves the struct's cp unset.
AA64(nm, o0, o1, o2, n, m, acc) ==
    [name |-> nm, cp |-> Uninit, opc0 |-> o0, opc1 |-> o1, opc2 |-> o2,
     crn |-> n, crm |-> m, access |-> acc]

\* The constructor of a legacy coprocessor struct (cp = 15): it leaves opc0 unset.
CP15(nm, o1, o2, n, m, acc) ==
    [name |-> nm, cp |-> 15, opc0 |-> Uninit, opc1 |-> o1, opc2 |-> o2,
     crn |-> n, crm |-> m, access |-> acc]

EL0Regs == <<
    AA64("NZCV", 3, 3, 0, 4, 2, PL0_RW),
    AA64("DAIF", 3, 3, 1, 4, 2, PL0_RW),
    AA64("FPCR", 3, 3, 0, 4, 4, PL0_RW),
    AA64("FPSR", 3, 3, 1, 4, 4, PL0_RW),
    AA64("DCZID_EL0", 3, 3, 7, 0, 0, PL0_R),
    AA64("DC_ZVA", 1, 3, 1, 7, 4, PL0_W),
    AA64("CURRENTEL", 3, 0, 2, 4, 2, PL1_R)
  >>

AA64CacheOps == <<
    AA64("IC_IALLUIS", 1, 0, 0, 7, 1, PL1_W),
    AA64("IC_IALLU", 1, 0, 0, 7, 5, PL1_W),
    AA64("IC_IVAU", 1, 3, 1, 7, 5, PL0_W),
    AA64("DC_IVAC", 1, 0, 1, 7, 6, PL1_W),
    AA64("DC_ISW", 1, 0, 2, 7, 6, PL1_W),
    AA64("DC_CVAC", 1, 3, 1, 7, 10, PL0_W),
    AA64("DC_CSW", 1, 0, 2, 7, 10, PL1_W),
    AA64("DC_CVAU", 1, 3, 1, 7, 11, PL0_W),
    AA64("DC_CIVAC", 1, 3, 1, 7, 14, PL0_W),
    AA64("DC_CISW", 1, 0, 2, 7, 14, PL1_W)
  >>

TLBIEL1Ops == <<
    AA64("TLBI_VMALLE1IS", 1, 0, 0, 8, 3, PL1_W),
    AA64("TLBI_VAE1IS", 1, 0, 1, 8, 3, PL1_W),
    AA64("TLBI_ASIDE1IS", 1, 0, 2, 8, 3, PL1_W),
    AA64("TLBI_VAAE1IS", 1, 0, 3, 8, 3, PL1_W),
    AA64("TLBI_VALE1IS", 1, 0, 5, 8, 3, PL1_W),
    AA64("TLBI_VAALE1IS", 1, 0, 7, 8, 3, PL1_W),
    AA64("TLBI_VMALLE1", 1, 0, 0, 8, 7, PL1_W),
    AA64("TLBI_VAE1", 1, 0, 1, 8, 7, PL1_W),
    AA64("TLBI_ASIDE1", 1, 0, 2, 8, 7, PL1_W),
    AA64("TLBI_VAAE1", 1, 0, 3, 8, 7, PL1_W),
    AA64("TLBI_VALE1", 1, 0, 5, 8, 7, PL1_W),
    AA64("TLBI_VAALE1", 1, 0, 7, 8, 7, PL1_W)
  >>

TLBIEL2Ops == <<
    AA64("TLBI_IPAS2E1IS", 1, 4, 1, 8, 0, PL2_W),
    AA64("TLBI_IPAS2LE1IS", 1, 4, 5, 8, 0, PL2_W),
    AA64("TLBI_ALLE1IS", 1, 4, 4, 8, 3, PL2_W),
    AA64("TLBI_VMALLS12E1IS", 1, 4, 6, 8, 3, PL2_W),
    AA64("TLBI_IPAS2E1", 1, 4, 1, 8, 4, PL2_W),
    AA64("TLBI_IPAS2LE1", 1, 4, 5, 8, 4, PL2_W),
    AA64("TLBI_ALLE1", 1, 4, 4, 8, 7, PL2_W),
    AA64("TLBI_VMALLS12E1", 1, 4, 6, 8, 7, PL2_W)
  >>

ATOps == <<
    AA64("AT_S1E1R", 1, 0, 0, 7, 8, PL1_W),
    AA64("AT_S1E1W", 1, 0, 1, 7, 8, PL1_W),
    AA64("AT_S1E0R", 1, 0, 2, 7, 8, PL1_W),
    AA64("AT_S1E0W", 1, 0, 3, 7, 8, PL1_W),
    AA64("AT_S12E1R", 1, 4, 4, 7, 8, PL2_W),
    AA64("AT_S12E1W", 1, 4, 5, 7, 8, PL2_W),
    AA64("AT_S12E0R", 1, 4, 6, 7, 8, PL2_W),
    AA64("AT_S12E0W", 1, 4, 7, 7, 8, PL2_W),
    AA64("AT_S1E3R", 1, 6, 0, 7, 8, PL3_W),
    AA64("AT_S1E3W", 1, 6, 1, 7, 8, PL3_W)
  >>

ParAndCp15TLBIOps == <<
    AA64("PAR_EL1", 3, 0, 0, 7, 4, PL1_RW),
    CP15("TLBIMVALIS", 0, 5, 8, 3, PL1_W),
    CP15("TLBIMVAALIS", 0, 7, 8, 3, PL1_W),
    CP15("TLBIMVAL", 0, 5, 8, 7, PL1_W),
    CP15("TLBIMVAAL", 0, 7, 8, 7, PL1_W),
    CP15("TLBIMVALH", 4, 5, 8, 7, PL2_W),
    CP15("TLBIMVALHIS", 4, 5, 8, 3, PL2_W),
    CP15("TLBIIPAS2", 4, 1, 8, 4, PL2_W),
    CP15("TLBIIPAS2IS", 4, 1, 8, 0, PL2_W),
    CP15("TLBIIPAS2L", 4, 5, 8, 4, PL2_W),
    CP15("TLBIIPAS2LIS", 4, 5, 8, 0, PL2_W)
  >>

Cp15CacheOps == <<
    CP15("ICIALLUIS", 0, 0, 7, 1, PL1_W),
    CP15("BPIALLUIS", 0, 6, 7, 1, PL1_W),
    CP15("ICIALLU", 0, 0, 7, 5, PL1_W),
    CP15("ICIMVAU", 0, 1, 7, 5, PL1_W),
    CP15("BPIALL", 0, 6, 7, 5, PL1_W),
    CP15("BPIMVA", 0, 7, 7, 5, PL1_W),
    CP15("DCIMVAC", 0, 1, 7, 6, PL1_W),
    CP15("DCISW", 0, 2, 7, 6, PL1_W),
    CP15("DCCMVAC", 0, 1, 7, 10, PL1_W),
    CP15("DCCSW", 0, 2, 7, 10, PL1_W),
    CP15("DCCMVAU", 0, 1, 7, 11, PL1_W),
    CP15("DCCIMVAC", 0, 1, 7, 14, PL1_W),
    CP15("DCCISW", 0, 2, 7, 14, PL1_W)
  >>

BankedRegs == <<
    CP15("DACR", 0, 0, 3, 0, PL1_RW),
    AA64("ELR_EL1", 3, 0, 1, 4, 0, PL1_RW),
    AA64("SPSR_EL1", 3, 0, 0, 4, 0, PL1_RW),
    AA64("SP_EL0", 3, 0, 0, 4, 1, PL1_RW),
    AA64("SP_EL1", 3, 4, 0, 4, 1, PL2_RW),
    AA64("SPSel", 3, 0, 0, 4, 2, PL1_RW),
    AA64("FPEXC32_EL2", 3, 4, 0, 5, 3, PL2_RW),
    AA64("DACR32_EL2", 3, 4, 0, 3, 0, PL2_RW),
    AA64("IFSR32_EL2", 3, 4, 1, 5, 0, PL2_RW),
    AA64("SPSR_IRQ", 3, 4, 0, 4, 3, PL2_RW),
    AA64("SPSR_ABT", 3, 4, 1, 4, 3, PL2_RW),
    AA64("SPSR_UND", 3, 4, 2, 4, 3, PL2_RW),
    AA64("SPSR_FIQ", 3, 4, 3, 4, 3, PL2_RW),
    AA64("MDCR_EL3", 3, 6, 1, 1, 3, PL3_RW),
    CP15("SDCR", 0, 1, 1, 3, PL1_RW)
  >>
\* The descriptors in the order initSysRegs allocates and inserts them.
SysRegDecls ==
    EL0Regs \o AA64CacheOps \o TLBIEL1Ops \o TLBIEL2Ops \o ATOps
      \o ParAndCp15TLBIOps \o Cp15CacheOps \o BankedRegs

AllRegNames == { SysRegDecls[i].name : i \in 1..Len(SysRegDecls) }

\* SysRegInfo's members of one object, as r-> and ri-> read them, each
\* holding a value of V.
SysRegInfoFields(V) ==
    [cp : V, opc0 : V, opc1 : V, opc2 : V, crn : V, crm : V, access : V]

\* The derived key initSysRegs files an object under (every line of it):
\* the cp-based sum when r->cp reads 15, the opc0-based one otherwise.
DerivedKey(f) ==
    IF f.cp = 15 THEN f.cp + f.opc1 + f.opc2 + f.crn + f.crm
                 ELSE f.opc0 + f.opc1 + f.opc2 + f.crn + f.crm

\* The 5-element code of a declaration, in the order the lookups compare
\* them: <<opc0, opc1, opc2, crm, crn>> for getRegInfo and
\* <<cp, opc1, opc2, crm, crn>> for getRegInfo_cp.
AA64Code(f) == <<f.opc0, f.opc1, f.opc2, f.crm, f.crn>>
CpCode(f) == <<f.cp, f.opc1, f.opc2, f.crm, f.crn>>

\* std::accumulate over the five uint8_t entries of a code.
CodeSum(c) == c[1] + c[2] + c[3] + c[4] + c[5]

\* getRegInfo's full-tuple comparison of an object's members, as
\* it->second-> reads them, against the code.
MatchAA64(f, c) ==
    /\ f.opc0 = c[1] /\ f.opc1 = c[2] /\ f.opc2 = c[3]
    /\ f.crm = c[4] /\ f.crn = c[5]

\* getRegInfo_cp's full-tuple comparison.
MatchCp(f, c) ==
    /\ f.cp = c[1] /\ f.opc1 = c[2] /\ f.opc2 = c[3]
    /\ f.crm = c[4] /\ f.crn = c[5]

\* The access masks the PLx macros name, one per level and direction.
PLMasks == {PL0_R, PL0_W, PL0_RW, PL1_R, PL1_W, PL1_RW,
            PL2_R, PL2_W, PL2_RW, PL3_R, PL3_W, PL3_RW}
=============================================================================
