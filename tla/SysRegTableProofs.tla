------------------------- MODULE SysRegTableProofs -------------------------
(***************************************************************************)
(* Proofs about the lookups of the system-register registry, for every    *)
(* set of modelled descriptors and every content of SysRegInfo's unset     *)
(* members, in the build where DBG_Assert is compiled out.                 *)
(***************************************************************************)
EXTENDS SysRegTable, LeastNat, TLAPS

\* The positions of equal_range(sum of c) whose object matches c in full.
Hits(c, kind) == {i \in EqualRange(c) : Matches(kind, objs[sysRegMap[i].reg], c)}

\* A non-empty set of matching positions has a first one, where the walk
\* over equal_range stops.
LEMMA FirstHit ==
    ASSUME NEW c, NEW kind, DOMAIN sysRegMap \subseteq Nat, Hits(c, kind) # {}
    PROVE  Least(Hits(c, kind)) \in Hits(c, kind)
  <1>1. Hits(c, kind) \subseteq Nat
    BY DEF Hits, EqualRange
  <1>2. \E x \in Hits(c, kind) : \A y \in Hits(c, kind) : x <= y
    BY <1>1, LeastElement
  <1>3. QED
    BY <1>2 DEF Least

\* Whatever descriptor a lookup returns passed the full-tuple comparison:
\* nullptr, the assert and the missing return value are no descriptors,
\* and otherwise the result is the first matching entry of equal_range.
LEMMA LookupMatches ==
    ASSUME NEW c, NEW kind, DOMAIN sysRegMap \subseteq Nat,
           Lookup(c, kind) \in Modelled
    PROVE  Matches(kind, objs[Lookup(c, kind)], c)
  <1>1. Lookup(c, kind) \notin {NotFound, Aborted, Undefined}
    BY SysRegTableAssumption
  <1>2. EqualRange(c) # {} /\ Hits(c, kind) # {}
    BY <1>1 DEF Lookup, Hits
  <1>3. Lookup(c, kind) = sysRegMap[Least(Hits(c, kind))].reg
    BY <1>1, <1>2 DEF Lookup, Hits
  <1>4. QED
    BY <1>2, <1>3, FirstHit DEF Hits

\* When an entry of equal_range matches the code, the lookup returns the
\* descriptor of the first such entry: the walk passes the entries before
\* it, whose DBG_Assert(false) does nothing in this build.
LEMMA LookupFindsHit ==
    ASSUME AssertFatal = FALSE, NEW c, NEW kind,
           DOMAIN sysRegMap \subseteq Nat,
           \A i \in DOMAIN sysRegMap : sysRegMap[i].reg \in Modelled,
           Hits(c, kind) # {}
    PROVE  Lookup(c, kind) \in Modelled
  <1>1. EqualRange(c) # {}
    BY DEF Hits
  <1>2. Lookup(c, kind) = sysRegMap[Least(Hits(c, kind))].reg
    BY <1>1 DEF Lookup, Hits
  <1>3. Least(Hits(c, kind)) \in DOMAIN sysRegMap
    BY FirstHit DEF Hits, EqualRange
  <1>4. QED
    BY <1>2, <1>3

\* Before initSysRegs no lookup has run and the multimap is empty.
BootState == phase = "boot" => last = NoLookup /\ sysRegMap = <<>>

\* The multimap is indexed by insertion positions and files descriptors of
\* the instance only.
MapFiles ==
    /\ DOMAIN sysRegMap \subseteq Nat
    /\ \A i \in DOMAIN sysRegMap : sysRegMap[i].reg \in Modelled

\* FoundWhenFiled together with what its preservation rests on.
FoundInv == BootState /\ MapFiles /\ FoundWhenFiled

LEMMA FoundInit == Init => FoundInv
  BY DEF Init, FoundInv, BootState, MapFiles, FoundWhenFiled, NoLookup

\* Whatever the step, FoundInv holds after it.
LEMMA FoundStep ==
    ASSUME AssertFatal = FALSE
    PROVE  FoundInv /\ [Next]_vars => FoundInv'
  <1> SUFFICES ASSUME FoundInv, [Next]_vars PROVE FoundInv'
    OBVIOUS
  <1>1. CASE InitSysRegs
    <2>1. last' = NoLookup /\ phase' = "ready"
      BY <1>1 DEF InitSysRegs, FoundInv, BootState
    <2>2. DOMAIN sysRegMap' = Slots
          /\ \A i \in Slots : sysRegMap'[i].reg = SysRegDecls[i].name
      BY <1>1 DEF InitSysRegs
    <2>3. Slots \subseteq Nat /\ \A i \in Slots : SysRegDecls[i].name \in Modelled
      BY DEF Slots
    <2>4. QED
      BY <2>1, <2>2, <2>3 DEF FoundInv, BootState, MapFiles, FoundWhenFiled, NoLookup
  <1>2. ASSUME NEW c, NEW kind \in {"aa64", "cp"},
               Record(kind, c, Lookup(c, kind))
        PROVE  FoundInv'
    <2>1. /\ last' = [kind |-> kind, code |-> c, out |-> Lookup(c, kind)]
          /\ phase' # "boot"
          /\ objs' = objs /\ sysRegMap' = sysRegMap
      BY <1>2 DEF Record
    <2>2. MapFiles'
      BY <2>1 DEF FoundInv, MapFiles
    <2>3. ASSUME \E i \in EqualRange(c) : Matches(kind, objs[sysRegMap[i].reg], c)
          PROVE  Lookup(c, kind) \in Modelled /\ Matches(kind, objs[Lookup(c, kind)], c)
      <3>1. Lookup(c, kind) \in Modelled
        BY <2>3, LookupFindsHit DEF FoundInv, MapFiles, Hits
      <3>2. QED
        BY <3>1, LookupMatches DEF FoundInv, MapFiles
    <2>4. FoundWhenFiled'
      BY <2>1, <2>3 DEF FoundWhenFiled, EqualRange
    <2>5. QED
      BY <2>1, <2>2, <2>4 DEF FoundInv, BootState
  <1>3. CASE \E c \in AA64Codes : GetRegInfo(c)
    BY <1>3, <1>2 DEF GetRegInfo
  <1>4. CASE \E c \in CpCodes : GetRegInfoCp(c)
    BY <1>4, <1>2 DEF GetRegInfoCp
  <1>5. CASE UNCHANGED vars
    BY <1>5 DEF vars, FoundInv, BootState, MapFiles, FoundWhenFiled, EqualRange
  <1>6. QED
    BY <1>1, <1>3, <1>4, <1>5 DEF Next

\* With DBG_Assert compiled out, a lookup that equal_range can satisfy is
\* satisfied: whenever the multimap files, under the code's derived key, an
\* object whose members match the code in full, getRegInfo and
\* getRegInfo_cp return such an object, for every instance and every
\* content of SysRegInfo's unset members.  The invariant is not inductive
\* alone: a lookup needs the multimap to be indexed by naturals (for the
\* first matching position) and to file only descriptors of the instance,
\* and initSysRegs needs no lookup to have run before it.
THEOREM FoundWhenFiledInvariant ==
    ASSUME AssertFatal = FALSE
    PROVE  Spec => []FoundWhenFiled
  <1>1. Init => FoundInv
    BY FoundInit
  <1>2. FoundInv /\ [Next]_vars => FoundInv'
    BY FoundStep
  <1>3. FoundInv => FoundWhenFiled
    BY DEF FoundInv
  <1>4. QED
    BY <1>1, <1>2, <1>3, PTL DEF Spec
=============================================================================
