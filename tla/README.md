# Formal models of the flexus ARM decoder and system-register table

This directory holds TLA+ models of these parts of the repository:

- the system-register registry of the ARM micro-architecture model, in
  `src/components/uArchARM/systemRegister.cpp`;
- the load-pair semantic action of the ARM decoder, in
  `src/components/armDecoder/SemanticActions/LDPAction.cpp`, and an abstract
  specification of a predicated semantic action that it implements;
- the decoder's validation layer, in `src/components/armDecoder/Validations.cpp`,
  with the system-register access checks composed with the registry;
- the MAGIC instruction's validation hooks, in
  `src/components/armDecoder/encodings/armMagic.cpp`.

It also holds the TLC configurations that check those models, and TLAPS
proofs about the load-pair action, the registry, the access checks and the
validators.

## The system and its parts

| Part | Source | What it does | Model |
|---|---|---|---|
| System-register table | `uArchARM/systemRegister.cpp` | 86 structs derived from `SysRegInfo`, each declaring its own encoding and access members and setting them in its constructor. `initSysRegs` allocates each one and inserts it into a `std::multimap<int, SysRegInfo*>` keyed by a lossy sum of the members it reads through `SysRegInfo*`. `getRegInfo` and `getRegInfo_cp` look up a 5-element code. | `SysRegInfo`, `SysRegTable` |
| Load-pair action | `armDecoder/SemanticActions/LDPAction.cpp` | A predicated semantic action with one argument, the memory value. When the value has arrived, the predicate is true and the action has not been cancelled, `doLoad` does the following: retrieves the 128-bit value; splits it; writes `kResult` and `kResult1`; bypasses the halves to dependants; wakes the dependants. | `LDPAction` |
| Validation layer | `armDecoder/Validations.cpp` | `validateXRegister` and `validatePC` compare flexus' value with QEMU's unless the instruction is squashed, annulled or excepted. Four other validators have their checks commented out. `SysReg_access` reads a descriptor's access bit for the current EL. `checkSystemAccess` decodes `opc1`. | `SysRegAccess`, `Validation` |
| MAGIC decoder | `armDecoder/encodings/armMagic.cpp` | Its pre-commit hook `preValidate` compares the PC with QEMU's; `postValidate` returns true. | `Validation` |
| Startup, MMU declarations, target and debug headers | `core/qemu`, `core/targets`, `core/debug` | I/O glue and declarations. | not modelled |

The parts interact as follows:

- The decoder builds semantic actions such as `LDPAction` for each instruction.
- The core model drives each action by calling these in any order:
  - `satisfy`, when an operand arrives;
  - `predicate_on` and `predicate_off`;
  - `cancel`, when the instruction is squashed.
- Validation of system-register instructions asks the core for the descriptor that `getRegInfo` returns, and reads its `access` member through `SysRegInfo*`.

## Modules

### Member hiding in the registry

Every descriptor struct (for example `NZCV`, `systemRegister.cpp:122-146`) declares its own `cp`, `opc0`, `opc1`, `opc2`, `crn`, `crm` and `access` and sets them in its constructor. `SysRegInfo`, whose definition is not in `src/`, has members of the same names. The struct's members hide them. `initSysRegs` (`r->cp`, line 2520), the lookups (`(*it).second->opc0`, lines 2618 and 2637) and `SysReg_access` (`ri->access`, `Validations.cpp:225`) all go through a `SysRegInfo*`. So they read `SysRegInfo`'s own members, which no constructor in the sources sets. The models keep both views:

- the declarations, the encodings the structs set, which the spec gives the registers (`SysRegDecls`, used for `Registered`, the declared access mask, and the codes the runs look up);
- the objects as the registry reads them (`objs`), whose members hold a nondeterministic value of `BaseValues`, one choice per member of every object. This is what the allocation leaves in them: 0 on fresh zeroed heap, anything in general.

### `SysRegInfo`: the descriptors, as declared

- `AA64` and `CP15` are the two constructor patterns. Each record has the struct's members `name`, `cp`, `opc0`, `opc1`, `opc2`, `crn`, `crm` and `access`. The member a constructor leaves unset is `Uninit`: `cp` for AArch64 descriptors and `opc0` for cp15 ones. It only tells the kinds apart.
- The declarations come in eight groups, in source order, and `SysRegDecls` is their concatenation in `initSysRegs`' insertion order.
- `SysRegInfoFields(V)` is the view of one object through `SysRegInfo*`: seven members, each a value of `V`.
- `DerivedKey` is the sum computed in `initSysRegs`, with its `cp == 15` branch.
- `AA64Code` and `CpCode` give a declaration's code in the layout of the lookups' arrays, `opc0/cp, opc1, opc2, crm, crn`. crm comes before crn.
- `MatchAA64` and `MatchCp` are the lookups' full-tuple comparisons of an object's members against a code.

### `SysRegTable`: initialisation and lookup

State:

- `phase`: `boot`, then `ready`, or `aborted` after a fatal `DBG_Assert`.
- `objs`: each descriptor's `SysRegInfo` members.
- `sysRegMap`: the multimap, as a function from insertion positions to entries. A position is the index of the declaration in `initSysRegs`, and `Slots` is the set of positions of the instance's descriptors. `std::multimap` keeps equal keys in insertion order, so `equal_range(sum)` is the set of positions with that key (`EqualRange`), visited in increasing order from `Least`.
- `last`: the latest lookup.

Actions:

- **`InitSysRegs`** allocates every descriptor. Its `SysRegInfo` members take values chosen from `BaseValues`. The action derives each key from those members, with the `cp == 15` branch, and inserts the entries in source order.
- **`GetRegInfo(c)` and `GetRegInfoCp(c)`** share `Lookup`:
  - If no entry has the code's sum, the lookup returns `nullptr`.
  - Otherwise it walks `equal_range`. It returns the first matching entry, and runs `DBG_Assert(false)` after each entry that does not match.
  - With `AssertFatal` the first mismatch aborts.
  - Without `AssertFatal` the walk goes on. If no entry matches, the function falls off its end, and the result is `Undefined`.

### `LDPAction`: one load-pair action

- **State:** `ready`, `pred` and `cancelled`; the two result operands; the two bypassed values; the value last loaded; a count of `doLoad` runs (`loads`); a count of `satisfyDependants` calls (`notified`); and a count of the core's calls (`calls`, bounded by `MaxCalls`).
- **`Satisfy` and `PredicateOn`** model the whole overridden method: the base call, then the `!cancelled() && ready() && thePredicate` test, then the whole of `doLoad`.
- **`PredicateOff` and `Cancel`** belong to base classes that are not in `src/`. They are modelled from the spec, which says:
  - `cancel` is permanent;
  - `satisfy` and `predicate_on` have no effect once the action is cancelled.
- **A 128-bit value** is an integer below `Half*Half`. `splitBits` returns `<<high, low>>`.
- **The bypass wiring** is the constant `BypassOf`. The wiring is chosen by the decoder's LDP body, which is not in `src/`.

### `SemanticAction`: what a predicated semantic action promises

An abstract specification written from the spec (sections 4.3 and 5), with no code behind it. Its state is `arrived`, `pred`, `live`, `result` and `fired`. `Effect(v)` produces a result in the step that completes the input or the predicate of a live action. `Cancel` is permanent. With the constant `Once`, the effect may run only once.

`LDPAction` instantiates it twice under the same refinement mapping: `arrived <- ready`, `live <- ~cancelled`, `result <- PairValue` (`kResult1 * Half + kResult` once a load has run), `fired <- loads > 0`. `AbsRepeat` has `Once = FALSE` and `AbsOnce` has `Once = TRUE`.

### `SysRegAccess`: the access checks composed with the table

- `SysRegAccessAssumption` restates, for the shared constants, what `SysRegTable` assumes of them. (An assumption of an instantiated module is not a usable fact in a proof.) It adds that levels lie in 0..3 and `opc1` in 0..7.
- The module instantiates `SysRegTable` as `T` and adds two variables, `access` and `check`. Each records the outcome of the latest call of its kind. Every action resets the other record, so the state space is a sum rather than a product.
- **`SysRegAccessCall(c, el, rd)`** is `SysReg_access::operator()`.
  - It looks up `c` with `T!Lookup`. `core()->getSysRegInfo` is not in `src/`; spec section 6 says it is the AArch64 lookup.
  - For a descriptor it returns bit `el*2 + rd` of `SysRegInfo`'s `access` member (`objs[ri].access`).
  - For `nullptr` the dereference is a `Segfault`.
  - For the undefined pointer of a lookup that falls off its end, the outcome is any of allowed, denied or fault.
- **`CheckSystemAccess(o1)`** is the `switch` of `checkSystemAccess`.
  - `SwitchBlocks` lists the case blocks. Each block records what it assigns, whether it asserts, and whether it ends in `break`.
  - `SwitchRun` is the range of blocks a label executes, fallthrough included.
  - A fatal `DBG_Assert` on the way aborts. Otherwise the call returns true.
- Unlike `checkSystemAccess`, `SysReg_access` does deny: it returns 0 whenever the member it reads lacks the selected bit.

### `Validation`: validators against the instruction's life

- **State.** The flags `squashed`, `annulled` and `raised`; the result operand; QEMU's register and PC; and `verdict`, the latest validator call with its result, the instruction's liveness and the values it compared.
- **The core and QEMU.** `Squash`, `Annul`, `Raise`, `WriteOperand` and `QemuStep` belong to the core model and QEMU, which are not in `src/`. They are modelled from the spec and may interleave with validation in any order.
- **The validators.** `ValidateXRegister` and `ValidatePC` translate the two live validators. `ValidateDisabled(kind)` covers the four whose checks are commented out. `MagicPreValidate` and `MagicPostValidate` are MAGIC's hooks. The core calls `preValidate` before commit (spec section 4.4), so it never runs for a squashed instruction. It may run for an annulled or excepted one, and it then compares PCs without a liveness test.

### Model-checking and proof modules

`MCSysRegTable`, `MCLDPAction`, `MCSysRegAccess` and `MCValidation` give the constants their values. `LDPActionProofs`, `SysRegTableProofs`, `SysRegAccessProofs` and `ValidationProofs` hold the TLAPS proofs, one module per component. `LeastNat` holds the one lemma that the two registry proof modules share: every non-empty set of naturals has a least element.

## Runs

| Run | Expect | Checks | Shows |
|---|---|---|---|
| SysRegLookup | pass | FoundWhenFiled | The setup is two descriptors, every member reading 0 or 15 in every combination (16384 registries), asserts compiled out, and codes over {0, 15} looked up. Whenever `equal_range` holds an entry that matches the code in full, the lookup returns a matching object, even behind a non-matching entry with the same key. |
| SysRegCollision | violation | FoundWhenFiled | The same instance with fatal asserts. The in-loop `DBG_Assert` fires on the first non-matching entry of `equal_range`, before the matching entry behind it. |
| SysRegKeyBranch | violation | FoundWhenMatched | The key sums `cp` when `r->cp` reads 15 and `opc0` otherwise, and a lookup sums the code it compares. An object whose members match the code is filed under another key, and the lookup returns `nullptr`. |
| SysRegRegistered | violation | RegisteredLookupReturnsIt | The whole table on zeroed memory: every object's `SysRegInfo` members read 0, every entry is filed under key 0, and looking up any descriptor's declared code returns `nullptr`. |
| LDPSafety | pass | OperandsSplitLoad, BypassAgreesWithOperand, CancelFreezes, NoLostWakeup, RefinesSemanticAction | Under every order of up to 4 calls, plus cancel: the operands rebuild the loaded value; with the matching wiring, the bypassed values equal the operands; cancel freezes every effect; a live action that is ready and predicated has loaded, whichever of `satisfy` and `predicate_on` came last; `LDPAction` implements the abstract semantic action whose effect may repeat. |
| LDPRefinesOnce | violation | RefinesOnceAction | `LDPAction` does not implement the once-only action: a second `satisfy` or a `predicate_on` after the load re-runs `doLoad`, although spec section 4.3 says "exactly once". |
| LDPBypassOrder | violation | BypassAgreesWithOperand | With `theBypass0 = kResult`, the high half is forwarded to the register that commits the low half. |
| SysRegAccessPL | pass | CheckStopsOnlyUnmodelledEL | Interleaved with `SysReg_access` calls over the whole table, every `opc1` with fatal asserts: `checkSystemAccess` stops exactly for `opc1` 4, 5 and 6, despite the fall-through of cases 5 and 6. |
| SysRegAccessDeclared | violation | AccessAgreesWithPL | `SysReg_access` tests `ri->access`, `SysRegInfo`'s member, and not the `PLx` mask the descriptor declares. On zeroed memory the all-zero code finds `NZCV`, and the access its `PL0_RW` grants is denied. |
| SysRegAccessNull | violation | NoNullDeref | `SysReg_access` on a code that `getRegInfo` does not find dereferences `nullptr`. Because of the member hiding, every declared code is such a code. This is a host fault, where spec section 7 asks for a fatal assertion. |
| SysRegCheckFallthrough | violation | CheckKeepsCaseLevel | With asserts compiled out, `opc1` 5 or 6 falls through to case 7: `min_EL = EL1` and `need_secure` is set. It is latent, because the function returns true anyway. |
| ValidationSkip | pass | FalseOnlyOnLiveMismatch | However squash, annul, exceptions, operand writes, QEMU steps and MAGIC's hooks interleave with the validators, a validator of `Validations.cpp` fails only for a live instruction whose compared values differ. |

Each property of a passing run has a mutant in `PROJECT.json`: a plausible bug in the mapped code that TLC then catches. The mutants are these:

- a lookup that returns the first entry of `equal_range` without comparing;
- swapped operands;
- a bypass that forwards the wrong half;
- a `predicate_on` that ignores `cancelled()` (caught by `CancelFreezes` and by the refinement);
- a `satisfy` that tests the guard before marking the argument ready (a lost wakeup);
- a `break` missing from case 3 of `checkSystemAccess`;
- a `validateXRegister` without its `raised()` test.

**Bounds.**

- The registry runs on two descriptors, one of each kind, let every one of the 14 members read 0 or 15. 15 is the value that switches the key branch, and 0 is zeroed memory. The looked-up codes cover the sums 0, 15 and 30. So key collisions between the two objects, in both insertion orders, and matches behind a non-matching entry all occur.
- `SysRegRegistered`, the access runs and the `nullptr` run use every declaration of the source on zeroed memory. That is the state a fresh heap gives, and it shows the defect for every register at once.
- The LDP runs use `Half = 4`, so values lie in 0..15 and every split is exercised.
- `MaxCalls = 4` allows a duplicated `satisfy` and `predicate_on` after a load, and an on/off/on cycle.
- The access runs use all four ELs, both directions and all eight `opc1` values, so every case label is exercised.
- The validation run uses two values and two PCs. That suffices for a match and a mismatch of each comparison, before and after each of squash, annul and exception.

**Deadlock.** `CHECK_DEADLOCK FALSE` is set where the system really stops: after a fatal assert, and when the call bound is exhausted.

**Fairness.** None is assumed. Nothing in the code forces the core to deliver a call, so no liveness property is claimed. The progress concern of a semantic action, that the effect is not lost when its inputs and predicate have both arrived, is stated as the safety property `NoLostWakeup`: since the load runs in the very call that completes the pair, no fairness is needed.

## Proofs (TLAPS)

Each theorem holds for every value of the constants that satisfies the module's `ASSUME`, which TLC evaluates on every run. Each safety theorem has the form `Spec => []Inv` and is proved from an inductive invariant `IInv`: `Init => IInv`, `IInv /\ [Next]_vars => IInv'`, and `IInv => Inv`, with one case per action. The last step is `PTL DEF Spec`.

### `LDPActionProofs`: the load-pair action

The assumption is `LDPActionAssumption`: `Half` is a positive natural, `BypassOf` maps both bypasses to a result or to none, and `MaxCalls` is a natural.

- `SplitHalves`: for `v < Half*Half`, `Hi(v)` and `Lo(v)` are words and `Hi(v)*Half + Lo(v) = v`.
- `DoLoadTyped`, `DoLoadSplits` and `CallEffects` are lemmas about one step: every call either runs `doLoad` or leaves all effects unchanged.
- `TypeCorrect`: `Spec => []TypeOK`. `TypeOK` is inductive by itself; the other proofs rest on it.
- `SplitLoadInvariant`: `Spec => []OperandsSplitLoad`. The inductive invariant is `TypeOK /\ OperandsSplitLoad`. The invariant needs `TypeOK` because `Hi` and `Lo` are only meaningful on naturals. Each step either runs `doLoad`, which re-establishes the invariant through `SplitHalves`, or leaves all effects unchanged.
- `CancelledActionFrozen`: `Spec => CancelFreezes`, proved from `TypeOK` and the case split on `Next`.
- `NoLostWakeupInvariant`: `Spec => []NoLostWakeup`. The inductive invariant is `TypeOK /\ NoLostWakeup`. `DoLoadCounts` shows that a load makes `loads` positive. The call that makes the action ready and predicated runs `doLoad`; every other step leaves `loads`, `ready`, `pred` and `cancelled` so that the implication survives.
- `ImplementsSemanticAction`: `Spec => RefinesSemanticAction`, the refinement of `SemanticAction` with `Once = FALSE`. Initial states map by `TypeOK` and `loads = 0`. For each action, each case of the guard maps to a step or a stutter:
  - a load maps to `Effect(v)` (lemma `LoadIsEffect`, which uses `SplitHalves` to show the pair value is `v`);
  - a `satisfy` without the predicate maps to `Arrive`, and a `predicate_on` without the input to `SetPred(TRUE)`;
  - a call on a cancelled action maps to a stutter;
  - `predicate_off` maps to `SetPred(FALSE)`, and `cancel` to `Cancel`.

### `SysRegTableProofs`: the registry

The assumption is `SysRegTableAssumption`, which says two things. The markers `nullptr`, `DBG_Assert` and "no return value" name no descriptor, which holds because `new` never returns nullptr. And `BaseValues` holds bytes.

- `LeastElement` (module `LeastNat`): every non-empty set of naturals has a least element. It comes from `WFMin` and the well-foundedness of `<` on `Nat` (module `WellFoundedInduction`, without the operator-parameter theorems).
- `FirstHit`: the first matching position of `equal_range` (`Hits`) is one of them.
- `LookupMatches`: a descriptor that `Lookup` returns passed the full-tuple comparison.
- `LookupFindsHit`: with asserts compiled out, a lookup with a matching position in `equal_range` returns a descriptor. The walk passes the non-matching entries before it.
- `FoundWhenFiledInvariant`: under `AssertFatal = FALSE`, `Spec => []FoundWhenFiled`. It holds for every descriptor set and every content of the `SysRegInfo` members.
  - The inductive invariant is `FoundInv`, that is `BootState /\ MapFiles /\ FoundWhenFiled`.
  - `BootState` holds because no lookup runs before `initSysRegs`.
  - `MapFiles` says the map is indexed by naturals and files only the instance's descriptors. It is needed for the first match and for the result to be a descriptor.
  - Run `SysRegCollision` shows that the hypothesis is needed.

### `SysRegAccessProofs`: the access checks

- `SwitchShape` computes, for each `opc1` in 0..7, the case block that the switch enters and the block where it leaves. Cases 5 and 6 run on to block 7.
- `CheckOutcome`: the blocks a switch runs contain a `DBG_Assert` exactly when `opc1` is 4, 5 or 6.
- `CheckStopsInvariant`: under `AssertFatal = TRUE`, `Spec => []CheckStopsOnlyUnmodelledEL`. The invariant is inductive by itself, because every other step resets `check`. It needs `SysRegAccessAssumption` (`opc1` is a 3-bit field). With asserts compiled out, the property fails trivially: every call returns true.
- Lemmas about the PL masks:
  - `PLBitAt` computes bit `i` of every `PLx` macro, case by case on `i` in 0..7, with `2^i` evaluated for each literal `i`.
  - `PLMaskLevels` restates these bits as `HasLevels(a, lr, lw)`: the read bits (odd positions) are set from level `lr` on, and the write bits (even positions) from level `lw` on.
  - `LevelsDecide`: for any such mask, bit `el*2 + rd` is set exactly when the mask includes the read or write mask of some level at or below `el` (`PermitsAt`).
- `AccessBitMeansPL`: for each of the twelve `PLx` masks, all four levels and both directions, `SysReg_access`'s test `(a >> (el*2 + rd)) & 1` allows exactly what the mask grants. The shift is right. What run `SysRegAccessDeclared` shows wrong is the member it is applied to.

### `ValidationProofs`: the validators

- `SourceValidatorKeeps`: every validator call either records success, records one of MAGIC's hooks, or records a live instruction with differing values. The live and non-live cases of `validateXRegister` and `validatePC` are proved separately.
- `SourceValidatorsSound`: `Spec => []FalseOnlyOnLiveMismatch`. The invariant is inductive by itself, because squash, annul, raise, operand writes and QEMU steps leave the recorded verdict alone.

### What stays with TLC

- The theorems about properties of passing runs carry the hypotheses those runs match: `AssertFatal = FALSE` for `FoundWhenFiled`, fatal asserts for `CheckStopsOnlyUnmodelledEL`. `BypassAgreesWithOperand` holds only under the matching wiring of `LDPSafety`, and it is only model-checked. The violation runs show what happens outside those hypotheses.
- Every property of a violation run: those runs exhibit counterexamples, not proofs.

TLAPS cannot prove liveness, `ENABLED`, or what a recursive definition computes for every input. No property here needs them, because none is a liveness property. To keep the proofs within the provers' reach, the models avoid recursive definitions: the registry's multimap is a function over insertion positions rather than a `SelectSeq` filter, whose meaning would need induction over sequences. The proof modules reach no `RECURSIVE` operator.

## Not modelled

- **`SysRegInfo`'s definition and constructor** are not in `src/`. The models leave the values of its members open (`BaseValues`).
- **The base semantic-action classes, the core model and QEMU** are not in `src/`. Their operations that the models need are modelled from the spec: `predicate_off`, `cancel`, squash, annul, raise and the emulator's steps.
- **`Align`** in `Validations.cpp` is a pure helper that no live code calls.
- **MAGIC's `mayRetire` and `describe`** return a constant and format text.
- **Startup, MMU, target and debug headers.** These stay out: they hold I/O and declarations, not behaviour.
