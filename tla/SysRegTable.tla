---------------------------- MODULE SysRegTable ----------------------------
(***************************************************************************)
(* The system-register registry of uArchARM (systemRegister.cpp):          *)
(* initSysRegs allocates every descriptor once and inserts it into a       *)
(* std::multimap<int, SysRegInfo*> keyed by the lossy derived key;         *)
(* getRegInfo / getRegInfo_cp look a 5-element code up in that map.        *)
(*                                                                         *)
(* The model keeps every object as the registry reads it (objs): the     *)
(* members of SysRegInfo, which the struct of every descriptor hides       *)
(* behind its own members of the same names, and which therefore hold     *)
(* whatever the allocation leaves in them (a value of BaseValues).  It     *)
(* keeps the multimap as its (key, descriptor) entries indexed by          *)
(* insertion position: std::multimap keeps equal keys in insertion order,  *)
(* so equal_range visits them by increasing position; and the outcome of   *)
(* the latest lookup.  DBG_Assert(false) either aborts the process         *)
(* (AssertFatal) or is compiled out; a function that runs off its end      *)
(* without a return yields an undefined pointer.  The declarations of      *)
(* SysRegInfo decide which codes the instance looks up and which           *)
(* descriptor the spec says a code names (Registered).                     *)
(***************************************************************************)
EXTENDS SysRegInfo

CONSTANTS
    Modelled,        \* names of the descriptors of the instance
    BaseValues,      \* values SysRegInfo's unset members may hold
    AssertFatal,     \* whether DBG_Assert(false) aborts the run
    ExtraAA64Codes,  \* getRegInfo codes that belong to no descriptor
    ExtraCpCodes     \* getRegInfo_cp codes that belong to no descriptor

\* Results of a lookup besides a descriptor.
NotFound == "nullptr"
Aborted == "DBG_Assert"
Undefined == "no return value"

\* The lookup outcomes that are not descriptors differ from every
\* descriptor: new never returns nullptr.
ASSUME SysRegTableAssumption ==
    /\ Modelled \subseteq AllRegNames
    /\ BaseValues \subseteq 0..255 /\ BaseValues # {}
    /\ AssertFatal \in BOOLEAN
    /\ ExtraAA64Codes \subseteq [1..5 -> 0..15]
    /\ ExtraCpCodes \subseteq [1..5 -> 0..15]
    /\ {NotFound, Aborted, Undefined} \cap AllRegNames = {}

VARIABLES
    phase,       \* "boot" before initSysRegs, "ready" after, "aborted"
    objs,        \* descriptor name -> its SysRegInfo members
    sysRegMap,   \* the multimap: insertion position -> [key, reg]
    last         \* the latest lookup: [kind, code, out]

vars == <<phase, objs, sysRegMap, last>>

\* The positions in initSysRegs of the descriptors of the instance.
Slots == {i \in 1..Len(SysRegDecls) : SysRegDecls[i].name \in Modelled}

\* The declaration of descriptor r (names are unique).
DeclOf(r) == SysRegDecls[CHOOSE i \in 1..Len(SysRegDecls) : SysRegDecls[i].name = r]

AA64Codes ==
    { AA64Code(SysRegDecls[i]) : i \in {j \in Slots : SysRegDecls[j].cp = Uninit} }
      \cup ExtraAA64Codes

CpCodes ==
    { CpCode(SysRegDecls[i]) : i \in {j \in Slots : SysRegDecls[j].cp = 15} }
      \cup ExtraCpCodes

NoLookup == [kind |-> "none", code |-> <<>>, out |-> NotFound]

Outcomes == Modelled \cup {NotFound, Aborted, Undefined}

TypeOK ==
    /\ phase \in {"boot", "ready", "aborted"}
    /\ phase # "boot" => objs \in [Modelled -> SysRegInfoFields(BaseValues)]
    /\ DOMAIN sysRegMap \subseteq Slots
    /\ \A i \in DOMAIN sysRegMap : sysRegMap[i] \in [key : Nat, reg : Modelled]
    /\ last.kind \in {"none", "aa64", "cp"}
    /\ last.out \in Outcomes

Init ==
    /\ phase = "boot"
    /\ objs = [r \in {} |-> NoLookup]
    /\ sysRegMap = <<>>
    /\ last = NoLookup

\* initSysRegs: `new` every descriptor, compute its derived key from the
\* object's SysRegInfo members and insert it into the multimap, in source
\* order.  The struct constructors set only the struct's own members; the
\* SysRegInfo members the key is computed from hold a value of BaseValues.
InitSysRegs ==
    /\ phase = "boot"
    /\ \E b \in [Modelled -> SysRegInfoFields(BaseValues)] :
         /\ objs' = b
         /\ sysRegMap' = [i \in Slots |->
                            [key |-> DerivedKey(b[SysRegDecls[i].name]),
                             reg |-> SysRegDecls[i].name]]
    /\ phase' = "ready"
    /\ UNCHANGED last

\* The full-tuple comparison of getRegInfo ("aa64") or getRegInfo_cp ("cp").
Matches(kind, f, c) == IF kind = "aa64" THEN MatchAA64(f, c) ELSE MatchCp(f, c)

\* aSysRegMap.count / equal_range(sum of the code): the positions of the
\* entries with the code's key.
EqualRange(c) == {i \in DOMAIN sysRegMap : sysRegMap[i].key = CodeSum(c)}

\* The first of a set of positions, where an iteration over them begins.
Least(S) == CHOOSE i \in S : \A j \in S : i <= j

\* Mutant: the first entry with the code's sum is returned unchecked.
LookupFirstOnly(c, kind) ==
    LET cands == EqualRange(c)
    IN  IF cands = {} THEN NotFound ELSE sysRegMap[Least(cands)].reg

\* The body shared by getRegInfo and getRegInfo_cp: return nullptr when no
\* entry has the code's sum; otherwise walk equal_range(sum), returning the
\* first entry whose full tuple matches, and execute DBG_Assert(false) after
\* every entry that does not; falling out of the loop returns nothing.
Lookup(c, kind) ==
    LET cands == EqualRange(c)
        hits == {i \in cands : Matches(kind, objs[sysRegMap[i].reg], c)}
    IN  IF cands = {} THEN NotFound
        ELSE IF hits = {} THEN (IF AssertFatal THEN Aborted ELSE Undefined)
        ELSE IF Least(hits) = Least(cands) \/ ~AssertFatal
             THEN sysRegMap[Least(hits)].reg
        ELSE Aborted

Record(kind, c, o) ==
    /\ last' = [kind |-> kind, code |-> c, out |-> o]
    /\ phase' = IF o = Aborted THEN "aborted" ELSE "ready"
    /\ UNCHANGED <<objs, sysRegMap>>

\* getRegInfo(aCode, aSysRegMap) for an AArch64 code.
GetRegInfo(c) ==
    /\ phase = "ready"
    /\ Record("aa64", c, Lookup(c, "aa64"))

\* getRegInfo_cp(aCode, aSysRegMap) for a coprocessor code.
GetRegInfoCp(c) ==
    /\ phase = "ready"
    /\ Record("cp", c, Lookup(c, "cp"))

Next ==
    \/ InitSysRegs
    \/ \E c \in AA64Codes : GetRegInfo(c)
    \/ \E c \in CpCodes : GetRegInfoCp(c)

Spec == Init /\ [][Next]_vars

-----------------------------------------------------------------------------
\* r is the descriptor the source declares for this kind of code.
Registered(r, kind, c) ==
    \/ kind = "aa64" /\ DeclOf(r).cp = Uninit /\ AA64Code(DeclOf(r)) = c
    \/ kind = "cp" /\ DeclOf(r).cp = 15 /\ CpCode(DeclOf(r)) = c

\* Whenever the multimap files, under the code's key, an entry whose
\* object matches the code in full, the lookup returns such an object:
\* getRegInfo / getRegInfo_cp scan the whole equal_range before giving up
\* (spec section 4.2: entries sharing a key are told apart by the full
\* tuple, and a lookup never short-circuits on key presence alone).
FoundWhenFiled ==
    (/\ last.kind \in {"aa64", "cp"}
     /\ \E i \in EqualRange(last.code) :
            Matches(last.kind, objs[sysRegMap[i].reg], last.code))
      => /\ last.out \in Modelled
         /\ Matches(last.kind, objs[last.out], last.code)

\* Whenever some object matches the code in full, the lookup finds one:
\* initSysRegs and the lookups compute the same derived key (spec section
\* 4.2), so the matching object is filed where the lookup searches.
FoundWhenMatched ==
    (/\ last.kind \in {"aa64", "cp"}
     /\ \E r \in Modelled : Matches(last.kind, objs[r], last.code))
      => last.out \in Modelled

\* Looking up a registered descriptor's own code returns that descriptor,
\* whatever other descriptors share its derived key (spec section 8).
RegisteredLookupReturnsIt ==
    \A r \in Modelled : Registered(r, last.kind, last.code) => last.out = r

=============================================================================
