---------------------------- MODULE SysRegAccess ----------------------------
(***************************************************************************)
(* The system-register access checks of the decoder's validation layer     *)
(* (src/components/armDecoder/Validations.cpp) composed with the register  *)
(* table they consult (SysRegTable).                                      *)
(*                                                                         *)
(* SysReg_access asks the core for the descriptor of its instruction's     *)
(* encoding and returns one bit of the descriptor's access mask, selected  *)
(* by the current exception level and the direction.  checkSystemAccess    *)
(* classifies opc1 in a switch whose cases 5 and 6 have no break.          *)
(*                                                                         *)
(* core()->getSysRegInfo is not in the sources: following the spec's       *)
(* lookup interface (section 6) it is getRegInfo on the AArch64 code of    *)
(* the instruction's fields, so the model quantifies over such codes.      *)
(* Dereferencing a null or indeterminate descriptor ends the process, as   *)
(* a fatal DBG_Assert does.                                                *)
(***************************************************************************)
EXTENDS SysRegInfo

CONSTANTS Modelled, BaseValues, AssertFatal, ExtraAA64Codes, ExtraCpCodes,
          ELs,    \* values theInstruction->core()->currentEL() may return
          Opc1s   \* opc1 fields the decoder hands to checkSystemAccess

VARIABLES phase, objs, sysRegMap, last,
          access,  \* the latest call, if it was SysReg_access: its outcome
          check    \* the latest call, if it was checkSystemAccess: its outcome

T == INSTANCE SysRegTable

\* The registry's constants as SysRegTable assumes them; the levels are
\* 2-bit values and opc1 is a 3-bit field.
ASSUME SysRegAccessAssumption ==
    /\ Modelled \subseteq AllRegNames
    /\ BaseValues \subseteq 0..255 /\ BaseValues # {}
    /\ AssertFatal \in BOOLEAN
    /\ ExtraAA64Codes \subseteq [1..5 -> 0..15]
    /\ ExtraCpCodes \subseteq [1..5 -> 0..15]
    /\ {T!NotFound, T!Aborted, T!Undefined} \cap AllRegNames = {}
    /\ ELs \subseteq 0..3
    /\ Opc1s \subseteq 0..7

vars == <<phase, objs, sysRegMap, last, access, check>>

\* The exception levels of the ARM target.
EL0 == 0
EL1 == 1
EL2 == 2
EL3 == 3

\* The bool SysReg_access and checkSystemAccess return.
Allowed == "true"
Denied == "false"

\* What a dereference of nullptr, or of an indeterminate pointer, does.
Segfault == "null dereference"

NoAccess == [code |-> <<>>, el |-> EL0, isRead |-> 0, reg |-> T!NotFound,
             out |-> "none"]
NoCheck == [opc1 |-> 0, out |-> "none", minEL |-> EL0, secure |-> FALSE]

Init ==
    /\ T!Init
    /\ access = NoAccess
    /\ check = NoCheck

\* Bit i of an unsigned value: (a >> i) & 1.
Bit(a, i) == (a \div 2^i) % 2

\* (ri->access >> ((currentEL() * 2) + theIsRead)) & 1
AccessBit(acc, el, rd) == Bit(acc, el * 2 + rd)

\* SysReg_access::operator(): look the descriptor up and read its access
\* bit; ri is used without a test for nullptr.  ri->access is the access
\* member of SysRegInfo, not the one the descriptor's struct declares.  A lookup that falls off the
\* end of getRegInfo yields an indeterminate pointer: reading through it may
\* fault or return either bit.
SysRegAccessCall(c, el, rd) ==
    /\ phase = "ready"
    /\ LET ri == T!Lookup(c, "aa64")
           outs == CASE ri \in Modelled ->
                       {IF AccessBit(objs[ri].access, el, rd) = 1 THEN Allowed
                                                                  ELSE Denied}
                     [] ri = T!NotFound -> {Segfault}
                     [] ri = T!Aborted  -> {T!Aborted}
                     [] OTHER           -> {Allowed, Denied, Segfault}
       IN  \E o \in outs :
             /\ access' = [code |-> c, el |-> el, isRead |-> rd, reg |-> ri,
                           out |-> o]
             /\ last' = [kind |-> "aa64", code |-> c, out |-> ri]
             /\ phase' = IF o \in {Segfault, T!Aborted} THEN "aborted"
                                                        ELSE "ready"
    /\ check' = NoCheck
    /\ UNCHANGED <<objs, sysRegMap>>

\* Mutant: case 3 without its break, falling into case 4.
SwitchBlocksNoBreak3 ==
    << [labels |-> {0, 1, 2}, minEL |-> EL1, secure |-> FALSE, asserts |-> FALSE, brk |-> TRUE],
       [labels |-> {3},       minEL |-> EL0, secure |-> FALSE, asserts |-> FALSE, brk |-> FALSE],
       [labels |-> {4},       minEL |-> EL2, secure |-> FALSE, asserts |-> TRUE,  brk |-> TRUE],
       [labels |-> {5},       minEL |-> EL2, secure |-> FALSE, asserts |-> TRUE,  brk |-> FALSE],
       [labels |-> {6},       minEL |-> EL3, secure |-> FALSE, asserts |-> TRUE,  brk |-> FALSE],
       [labels |-> {7},       minEL |-> EL1, secure |-> TRUE,  asserts |-> FALSE, brk |-> FALSE] >>

\* The switch on theOpc1 in checkSystemAccess, one block per group of case
\* labels: what it assigns to min_EL and need_secure, whether it runs
\* DBG_Assert(false), and whether it ends in break.
SwitchBlocks ==
    << [labels |-> {0, 1, 2}, minEL |-> EL1, secure |-> FALSE, asserts |-> FALSE, brk |-> TRUE],
       [labels |-> {3},       minEL |-> EL0, secure |-> FALSE, asserts |-> FALSE, brk |-> TRUE],
       [labels |-> {4},       minEL |-> EL2, secure |-> FALSE, asserts |-> TRUE,  brk |-> TRUE],
       [labels |-> {5},       minEL |-> EL2, secure |-> FALSE, asserts |-> TRUE,  brk |-> FALSE],
       [labels |-> {6},       minEL |-> EL3, secure |-> FALSE, asserts |-> TRUE,  brk |-> FALSE],
       [labels |-> {7},       minEL |-> EL1, secure |-> TRUE,  asserts |-> FALSE, brk |-> FALSE] >>

\* The block whose case labels include o1: where the switch jumps.
SwitchEntry(o1) == CHOOSE i \in 1..Len(SwitchBlocks) : o1 \in SwitchBlocks[i].labels

\* The first block from the entry on that ends in break, or the last one.
SwitchExit(o1) ==
    CHOOSE i \in SwitchEntry(o1)..Len(SwitchBlocks) :
        /\ SwitchBlocks[i].brk \/ i = Len(SwitchBlocks)
        /\ \A j \in SwitchEntry(o1)..(i - 1) : ~SwitchBlocks[j].brk

\* The blocks a switch on o1 executes.
SwitchRun(o1) == SwitchEntry(o1)..SwitchExit(o1)

\* checkSystemAccess::operator(): run the switch; a DBG_Assert(false) on the
\* way ends the process when asserts are fatal; otherwise return true, with
\* min_EL and need_secure as the last executed blocks left them.
CheckSystemAccess(o1) ==
    /\ phase = "ready"
    /\ LET run == SwitchRun(o1)
           fired == AssertFatal /\ \E i \in run : SwitchBlocks[i].asserts
       IN  /\ check' = [opc1 |-> o1,
                        out |-> IF fired THEN T!Aborted ELSE Allowed,
                        minEL |-> SwitchBlocks[SwitchExit(o1)].minEL,
                        secure |-> \E i \in run : SwitchBlocks[i].secure]
           /\ phase' = IF fired THEN "aborted" ELSE phase
    /\ access' = NoAccess
    /\ UNCHANGED <<objs, sysRegMap, last>>

Next ==
    \/ T!Next /\ access' = NoAccess /\ check' = NoCheck
    \/ \E c \in T!AA64Codes, el \in ELs, rd \in {0, 1} : SysRegAccessCall(c, el, rd)
    \/ \E o1 \in Opc1s : CheckSystemAccess(o1)

Spec == Init /\ [][Next]_vars

-----------------------------------------------------------------------------
\* The access masks are built from the PLx_R / PLx_W macros, where PLx
\* grants the access at ELx and every higher level.
ReadMask == <<PL0_R, PL1_R, PL2_R, PL3_R>>
WriteMask == <<PL0_W, PL1_W, PL2_W, PL3_W>>

\* Every bit of mask m is set in acc.
Includes(acc, m) == \A i \in 0..7 : Bit(m, i) = 1 => Bit(acc, i) = 1

\* The descriptor grants this access at el: it carries the PL mask of some
\* level at or below el for this direction.
PermitsAt(acc, el, rd) ==
    \E l \in 0..el : Includes(acc, IF rd = 1 THEN ReadMask[l + 1]
                                             ELSE WriteMask[l + 1])

\* SysReg_access allows exactly the accesses that the PL masks declared
\* for the descriptor it found grant at the current level (spec section
\* 4.5: the bit is taken from the target descriptor's access bitmask).
AccessAgreesWithPL ==
    access.reg \in Modelled /\ access.out \in {Allowed, Denied} =>
        ((access.out = Allowed) = PermitsAt(T!DeclOf(access.reg).access,
                                            access.el, access.isRead))

\* SysReg_access never dereferences a descriptor the lookup did not find
\* (spec section 7: an unmodelled encoding is a fatal assertion, never a
\* host fault).
NoNullDeref == access.out # Segfault

\* checkSystemAccess allows every opc1 of a modelled exception level and
\* stops the run exactly for the opc1 values of EL2 and EL3 (the
\* DBG_Asserts of cases 4, 5 and 6, spec section 7).
CheckStopsOnlyUnmodelledEL ==
    check.out # "none" => ((check.out = T!Aborted) = (check.opc1 \in {4, 5, 6}))

\* The level each case of the switch assigns to min_EL for its own opc1.
CaseMinEL == [o \in 0..7 |-> CASE o \in {0, 1, 2} -> EL1
                               [] o = 3 -> EL0
                               [] o \in {4, 5} -> EL2
                               [] o = 6 -> EL3
                               [] o = 7 -> EL1]

\* After the switch min_EL is the level of opc1's own case, and
\* need_secure is set only for opc1 = 7 (what each case assigns).
CheckKeepsCaseLevel ==
    check.out = Allowed =>
        /\ check.minEL = CaseMinEL[check.opc1]
        /\ check.secure = (check.opc1 = 7)

=============================================================================
