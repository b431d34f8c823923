------------------------- MODULE SysRegAccessProofs -------------------------
(***************************************************************************)
(* Proofs about the access checks of Validations.cpp: checkSystemAccess  *)
(* under a fatal DBG_Assert, for every registry and every set of levels   *)
(* and opc1 values, and the bit test of SysReg_access against the PLx     *)
(* macros.                                                                 *)
(***************************************************************************)
EXTENDS SysRegAccess, TLAPS

\* Where the switch on opc1 enters and where it leaves, block by block:
\* cases 0-2 and 3 break at once, case 4 asserts and breaks, case 5 falls
\* through 6 into 7, case 6 falls into 7, and 7 is the last block.
LEMMA SwitchShape ==
    ASSUME NEW o1 \in 0..7
    PROVE  /\ o1 \in {0, 1, 2} => SwitchEntry(o1) = 1 /\ SwitchExit(o1) = 1
           /\ o1 = 3 => SwitchEntry(o1) = 2 /\ SwitchExit(o1) = 2
           /\ o1 = 4 => SwitchEntry(o1) = 3 /\ SwitchExit(o1) = 3
           /\ o1 = 5 => SwitchEntry(o1) = 4 /\ SwitchExit(o1) = 6
           /\ o1 = 6 => SwitchEntry(o1) = 5 /\ SwitchExit(o1) = 6
           /\ o1 = 7 => SwitchEntry(o1) = 6 /\ SwitchExit(o1) = 6
  <1>1. Len(SwitchBlocks) = 6
    BY DEF SwitchBlocks
  <1>2. o1 \in {0, 1, 2} => SwitchEntry(o1) = 1 /\ SwitchExit(o1) = 1
    <2> SUFFICES ASSUME o1 \in {0, 1, 2} PROVE SwitchEntry(o1) = 1 /\ SwitchExit(o1) = 1
      OBVIOUS
    <2>1. SwitchEntry(o1) = 1
      BY <1>1 DEF SwitchEntry, SwitchBlocks
    <2>2. QED
      BY <1>1, <2>1 DEF SwitchExit, SwitchBlocks
  <1>3. o1 = 3 => SwitchEntry(o1) = 2 /\ SwitchExit(o1) = 2
    <2> SUFFICES ASSUME o1 = 3 PROVE SwitchEntry(o1) = 2 /\ SwitchExit(o1) = 2
      OBVIOUS
    <2>1. SwitchEntry(o1) = 2
      BY <1>1 DEF SwitchEntry, SwitchBlocks
    <2>2. QED
      BY <1>1, <2>1 DEF SwitchExit, SwitchBlocks
  <1>4. o1 = 4 => SwitchEntry(o1) = 3 /\ SwitchExit(o1) = 3
    <2> SUFFICES ASSUME o1 = 4 PROVE SwitchEntry(o1) = 3 /\ SwitchExit(o1) = 3
      OBVIOUS
    <2>1. SwitchEntry(o1) = 3
      BY <1>1 DEF SwitchEntry, SwitchBlocks
    <2>2. QED
      BY <1>1, <2>1 DEF SwitchExit, SwitchBlocks
  <1>5. o1 = 5 => SwitchEntry(o1) = 4 /\ SwitchExit(o1) = 6
    <2> SUFFICES ASSUME o1 = 5 PROVE SwitchEntry(o1) = 4 /\ SwitchExit(o1) = 6
      OBVIOUS
    <2>1. SwitchEntry(o1) = 4
      BY <1>1 DEF SwitchEntry, SwitchBlocks
    <2>2. QED
      BY <1>1, <2>1 DEF SwitchExit, SwitchBlocks
  <1>6. o1 = 6 => SwitchEntry(o1) = 5 /\ SwitchExit(o1) = 6
    <2> SUFFICES ASSUME o1 = 6 PROVE SwitchEntry(o1) = 5 /\ SwitchExit(o1) = 6
      OBVIOUS
    <2>1. SwitchEntry(o1) = 5
      BY <1>1 DEF SwitchEntry, SwitchBlocks
    <2>2. QED
      BY <1>1, <2>1 DEF SwitchExit, SwitchBlocks
  <1>7. o1 = 7 => SwitchEntry(o1) = 6 /\ SwitchExit(o1) = 6
    <2> SUFFICES ASSUME o1 = 7 PROVE SwitchEntry(o1) = 6 /\ SwitchExit(o1) = 6
      OBVIOUS
    <2>1. SwitchEntry(o1) = 6
      BY <1>1 DEF SwitchEntry, SwitchBlocks
    <2>2. QED
      BY <1>1, <2>1 DEF SwitchExit, SwitchBlocks
  <1>8. QED
    BY <1>2, <1>3, <1>4, <1>5, <1>6, <1>7

\* What a call of checkSystemAccess records, as a function of opc1 alone:
\* it asserts exactly for 4, 5 and 6 (the blocks it runs through).
LEMMA CheckOutcome ==
    ASSUME NEW o1 \in 0..7, AssertFatal = TRUE
    PROVE  (\E i \in SwitchRun(o1) : SwitchBlocks[i].asserts) <=> o1 \in {4, 5, 6}
  <1>1. CASE o1 \in {0, 1, 2, 3, 7}
    <2>1. SwitchRun(o1) \subseteq {1, 2, 6}
      BY <1>1, SwitchShape DEF SwitchRun
    <2>2. QED
      BY <1>1, <2>1 DEF SwitchBlocks
  <1>2. CASE o1 = 4
    BY <1>2, SwitchShape DEF SwitchRun, SwitchBlocks
  <1>3. CASE o1 \in {5, 6}
    <2>1. 5 \in SwitchRun(o1)
      BY <1>3, SwitchShape DEF SwitchRun
    <2>2. QED
      BY <1>3, <2>1 DEF SwitchBlocks
  <1>4. QED
    BY <1>1, <1>2, <1>3

\* With fatal asserts, checkSystemAccess stops the run for every opc1 of
\* EL2 and EL3 (cases 4, 5 and 6) and returns true for every other opc1,
\* whatever the registry, the exception levels and the calls in between:
\* the fall-through of cases 5 and 6 never skips a DBG_Assert.
\* CheckStopsOnlyUnmodelledEL is inductive by itself: every other step
\* resets the recorded check.
THEOREM CheckStopsInvariant ==
    ASSUME AssertFatal = TRUE
    PROVE  Spec => []CheckStopsOnlyUnmodelledEL
  <1>1. Init => CheckStopsOnlyUnmodelledEL
    BY DEF Init, NoCheck, CheckStopsOnlyUnmodelledEL
  <1>2. CheckStopsOnlyUnmodelledEL /\ [Next]_vars => CheckStopsOnlyUnmodelledEL'
    <2> SUFFICES ASSUME CheckStopsOnlyUnmodelledEL, [Next]_vars
                 PROVE  CheckStopsOnlyUnmodelledEL'
      OBVIOUS
    <2>1. CASE T!Next /\ access' = NoAccess /\ check' = NoCheck
      BY <2>1 DEF NoCheck, CheckStopsOnlyUnmodelledEL
    <2>2. CASE \E c \in T!AA64Codes, el \in ELs, rd \in {0, 1} : SysRegAccessCall(c, el, rd)
      BY <2>2 DEF SysRegAccessCall, NoCheck, CheckStopsOnlyUnmodelledEL
    <2>3. ASSUME NEW o1 \in Opc1s, CheckSystemAccess(o1)
          PROVE  CheckStopsOnlyUnmodelledEL'
      <3>1. o1 \in 0..7
        BY SysRegAccessAssumption
      <3>2. check'.opc1 = o1
            /\ check'.out = IF \E i \in SwitchRun(o1) : SwitchBlocks[i].asserts
                            THEN T!Aborted ELSE Allowed
        BY <2>3 DEF CheckSystemAccess
      <3>3. T!Aborted # Allowed /\ T!Aborted # "none"
        BY DEF T!Aborted, Allowed
      <3>4. QED
        BY <3>1, <3>2, <3>3, CheckOutcome DEF CheckStopsOnlyUnmodelledEL, Allowed
    <2>4. CASE UNCHANGED vars
      BY <2>4 DEF vars, CheckStopsOnlyUnmodelledEL
    <2>5. QED
      BY <2>1, <2>2, <2>3, <2>4 DEF Next
  <1>3. QED
    BY <1>1, <1>2, PTL DEF Spec

-----------------------------------------------------------------------------
\* Whether bit i is set in a mask whose read bits (odd positions) start at
\* level lr and whose write bits (even positions) start at level lw; level
\* 4 means none.
LevelBit(i, lr, lw) == \/ i % 2 = 1 /\ 2 * lr + 1 <= i
                       \/ i % 2 = 0 /\ 2 * lw <= i

\* Mask a has read bits from level lr on and write bits from level lw on.
HasLevels(a, lr, lw) == \A i \in 0..7 : (Bit(a, i) = 1) <=> LevelBit(i, lr, lw)

\* Bit i of every PLx macro: PLl_R sets the read bits of levels l..3, PLl_W
\* the write bits, PLl_RW both (the #define chain of systemRegister.cpp).
LEMMA PLBitAt ==
    ASSUME NEW i \in 0..7
    PROVE  /\ (Bit(PL0_R, i) = 1) <=> LevelBit(i, 0, 4)
           /\ (Bit(PL0_W, i) = 1) <=> LevelBit(i, 4, 0)
           /\ (Bit(PL0_RW, i) = 1) <=> LevelBit(i, 0, 0)
           /\ (Bit(PL1_R, i) = 1) <=> LevelBit(i, 1, 4)
           /\ (Bit(PL1_W, i) = 1) <=> LevelBit(i, 4, 1)
           /\ (Bit(PL1_RW, i) = 1) <=> LevelBit(i, 1, 1)
           /\ (Bit(PL2_R, i) = 1) <=> LevelBit(i, 2, 4)
           /\ (Bit(PL2_W, i) = 1) <=> LevelBit(i, 4, 2)
           /\ (Bit(PL2_RW, i) = 1) <=> LevelBit(i, 2, 2)
           /\ (Bit(PL3_R, i) = 1) <=> LevelBit(i, 3, 4)
           /\ (Bit(PL3_W, i) = 1) <=> LevelBit(i, 4, 3)
           /\ (Bit(PL3_RW, i) = 1) <=> LevelBit(i, 3, 3)
  <1> USE DEF Bit, LevelBit, PL0_R, PL0_W, PL0_RW, PL1_R, PL1_W, PL1_RW,
              PL2_R, PL2_W, PL2_RW, PL3_R, PL3_W, PL3_RW
  <1>0. CASE i = 0  BY <1>0
  <1>1. CASE i = 1  BY <1>1
  <1>2. CASE i = 2  BY <1>2
  <1>3. CASE i = 3  BY <1>3
  <1>4. CASE i = 4  BY <1>4
  <1>5. CASE i = 5  BY <1>5
  <1>6. CASE i = 6  BY <1>6
  <1>7. CASE i = 7  BY <1>7
  <1>8. QED
    BY <1>0, <1>1, <1>2, <1>3, <1>4, <1>5, <1>6, <1>7

\* Every PLx macro, and each entry of ReadMask and WriteMask, is a mask
\* with a read level and a write level.
LEMMA PLMaskLevels ==
    /\ \A a \in PLMasks : \E lr, lw \in 0..4 : HasLevels(a, lr, lw)
    /\ \A l \in 0..3 : HasLevels(ReadMask[l + 1], l, 4) /\ HasLevels(WriteMask[l + 1], 4, l)
  <1>1. /\ HasLevels(PL0_R, 0, 4) /\ HasLevels(PL0_W, 4, 0) /\ HasLevels(PL0_RW, 0, 0)
        /\ HasLevels(PL1_R, 1, 4) /\ HasLevels(PL1_W, 4, 1) /\ HasLevels(PL1_RW, 1, 1)
        /\ HasLevels(PL2_R, 2, 4) /\ HasLevels(PL2_W, 4, 2) /\ HasLevels(PL2_RW, 2, 2)
        /\ HasLevels(PL3_R, 3, 4) /\ HasLevels(PL3_W, 4, 3) /\ HasLevels(PL3_RW, 3, 3)
    BY PLBitAt DEF HasLevels
  <1>2. \A a \in PLMasks : \E lr, lw \in 0..4 : HasLevels(a, lr, lw)
    BY <1>1 DEF PLMasks
  <1>3. \A l \in 0..3 : HasLevels(ReadMask[l + 1], l, 4) /\ HasLevels(WriteMask[l + 1], 4, l)
    <2> TAKE l \in 0..3
    <2>1. l \in {0, 1, 2, 3}
      OBVIOUS
    <2>2. QED
      BY <1>1, <2>1 DEF ReadMask, WriteMask
  <1>4. QED
    BY <1>2, <1>3

\* For a mask with a read and a write level, SysReg_access's single-bit
\* test at (EL * 2 + isRead) allows exactly what the PLx masks the mask
\* includes grant at that level.
LEMMA LevelsDecide ==
    ASSUME NEW a, NEW lr \in 0..4, NEW lw \in 0..4, HasLevels(a, lr, lw),
           NEW el \in 0..3, NEW rd \in {0, 1}
    PROVE  (AccessBit(a, el, rd) = 1) <=> PermitsAt(a, el, rd)
  <1>1. (AccessBit(a, el, rd) = 1) <=> ((rd = 1 /\ lr <= el) \/ (rd = 0 /\ lw <= el))
    <2>1. el * 2 + rd \in 0..7
      OBVIOUS
    <2>2. (Bit(a, el * 2 + rd) = 1) <=> LevelBit(el * 2 + rd, lr, lw)
      BY <2>1 DEF HasLevels
    <2>3. CASE rd = 1
      <3>1. (el * 2 + rd) % 2 = 1 /\ (2 * lr + 1 <= el * 2 + rd <=> lr <= el)
        BY <2>3
      <3>2. QED
        BY <2>2, <2>3, <3>1 DEF AccessBit, LevelBit
    <2>4. CASE rd = 0
      <3>1. (el * 2 + rd) % 2 = 0 /\ (2 * lw <= el * 2 + rd <=> lw <= el)
        BY <2>4
      <3>2. QED
        BY <2>2, <2>4, <3>1 DEF AccessBit, LevelBit
    <2>5. QED
      BY <2>3, <2>4
  <1>2. ASSUME NEW l \in 0..3
        PROVE  /\ Includes(a, ReadMask[l + 1]) <=> lr <= l
               /\ Includes(a, WriteMask[l + 1]) <=> lw <= l
    <2>1. HasLevels(ReadMask[l + 1], l, 4) /\ HasLevels(WriteMask[l + 1], 4, l)
      BY PLMaskLevels
    <2>2. Includes(a, ReadMask[l + 1]) <=> \A i \in 0..7 : LevelBit(i, l, 4) => LevelBit(i, lr, lw)
      BY <2>1 DEF Includes, HasLevels
    <2>3. Includes(a, WriteMask[l + 1]) <=> \A i \in 0..7 : LevelBit(i, 4, l) => LevelBit(i, lr, lw)
      BY <2>1 DEF Includes, HasLevels
    <2>4. (\A i \in 0..7 : LevelBit(i, l, 4) => LevelBit(i, lr, lw)) <=> lr <= l
      <3>1. LevelBit(2 * l + 1, l, 4) /\ 2 * l + 1 \in 0..7
        BY DEF LevelBit
      <3>2. QED
        BY <3>1 DEF LevelBit
    <2>5. (\A i \in 0..7 : LevelBit(i, 4, l) => LevelBit(i, lr, lw)) <=> lw <= l
      <3>1. LevelBit(2 * l, 4, l) /\ 2 * l \in 0..7
        BY DEF LevelBit
      <3>2. QED
        BY <3>1 DEF LevelBit
    <2>6. QED
      BY <2>2, <2>3, <2>4, <2>5
  <1>3. PermitsAt(a, el, rd) <=> ((rd = 1 /\ lr <= el) \/ (rd = 0 /\ lw <= el))
    <2>1. CASE rd = 1
      <3>1. PermitsAt(a, el, rd) <=> \E l \in 0..el : Includes(a, ReadMask[l + 1])
        BY <2>1 DEF PermitsAt
      <3>2. (\E l \in 0..el : Includes(a, ReadMask[l + 1])) <=> \E l \in 0..el : lr <= l
        BY <1>2
      <3>3. QED
        BY <2>1, <3>1, <3>2
    <2>2. CASE rd = 0
      <3>1. PermitsAt(a, el, rd) <=> \E l \in 0..el : Includes(a, WriteMask[l + 1])
        BY <2>2 DEF PermitsAt
      <3>2. (\E l \in 0..el : Includes(a, WriteMask[l + 1])) <=> \E l \in 0..el : lw <= l
        BY <1>2
      <3>3. QED
        BY <2>2, <3>1, <3>2
    <2>3. QED
      BY <2>1, <2>2
  <1>4. QED
    BY <1>1, <1>3

\* For every access mask a PLx macro names, at every exception level and in
\* both directions, SysReg_access's bit test (ri->access >> (EL * 2 +
\* isRead)) & 1 allows exactly what the macro grants at that level: the
\* PLx bit layout and the shift agree, so an access mask declared with the
\* macros is read correctly wherever the mask the check reads is the
\* declared one.
THEOREM AccessBitMeansPL ==
    \A a \in PLMasks, el \in 0..3, rd \in {0, 1} :
        (AccessBit(a, el, rd) = 1) <=> PermitsAt(a, el, rd)
  <1> TAKE a \in PLMasks, el \in 0..3, rd \in {0, 1}
  <1>1. PICK lr, lw \in 0..4 : HasLevels(a, lr, lw)
    BY PLMaskLevels
  <1>2. QED
    BY <1>1, LevelsDecide
=============================================================================
