# Verification of katana

katana patches a running process: it compares two builds of a program, writes
what differs as a *patch object* (an ELF file whose DWARF call frame
instructions say how to transform the data), and applies that object to a
process through `ptrace`. The same program is an editor of ELF and DWARF with a
shell and a textual form of call frame information, *dwarfscript*.

This directory holds TLA+ modules translated from katana's source, TLC
configurations that check them on small instances, and proofs checked by TLAPS.
Paths below are relative to `src/` unless they start with `src/`.

Contents: [components](#components) · [modules](#modules-and-their-code) ·
[runs](#runs) · [fairness](#fairness) · [proofs](#proofs) ·
[known departures](#known-departures) · [what is not modelled](#not-modelled) ·
[plan](#plan).

## Components

### How the system works

1. `katana -g` (patch generation): `patchwrite/sourcetree.c` and `codediff.c`
   find the objects and functions that differ; for each compilation unit
   `typediff.c` compares the types of the variables and leaves a
   `TypeTransform` in each type that differs; `write_to_dwarf.c` writes the
   transforms as FDEs with the instructions `DW_CFA_KATANA_fixups` and
   `fixups_pointer`; `patchwrite.c` lists the functions that must not be active
   in `.unsafe_functions`.
2. `katana -p` (patching): `readAndApplyPatch` (`patcher/patchapply.c`)
   attaches, finds malloc, waits for a safe state, reserves memory, copies the
   sections of the patch, duplicates the PLT and GOT, transforms variables and
   redirects functions unit by unit, relocates the new text, detaches.
3. `katana` as an editor: DWARF is parsed into structures, printed as
   dwarfscript, compiled from it and serialized.

The processes that interact are katana, the target and the kernel between
them. katana is single-threaded; all its concurrency is with the target (one
thread is supported) and with other senders of signals. Its pieces share the
target's text and memory, and a number of globals: `breakpointRestoreInfo`,
`addrFreeSpace`/`freeSpaceLeft`, `dataMoved`, and the notes that the comparison
of types leaves in the types.

### Inventory

| component | state | operations | what is hard | what makes it correct |
|---|---|---|---|---|
| Safe-state protocol (`patcher/safety.c`, `target.c`) | int3s in the target's text, `breakpointRestoreInfo`, poll counter, `avoidCurrentFrame` | attach, unwind and choose a return address, plant, poll, relax, remove, abort, detach | the target runs between any two polls; two stops can be on their way at once; any signal looks like the breakpoint | no unsafe function is active when patching starts; text and pc restored; text written only while stopped; katana ends |
| Free space (`patcher/hotpatch.c`) | two globals, the mappings | reserve a block, hand out space, map more | what does not fit goes to pages elsewhere; mmap may refuse | sections do not overlap; `.got.plt` follows `.got`; 32-bit code reaches its sections |
| Transformation of data (`dwarfvm.c`) | `dataMoved`, a list of pending writes, the new data | transform a variable, follow or copy a pointer, write the list, relocate | cyclic and shared data, any order of rules and variables, death half way | the new data have the old shape; recursion ends; nothing half-written is referred to |
| Patch application (`patcher/patchapply.c`) | first bytes of functions, operands of code, symbols of the patched binary, entries of `.rela.text.new` | apply variable, apply function, fix up and apply relocations | relocations of old text meet jumps written before; units refer to each other; no rollback | entries are code or jumps; one version of each variable; no missing symbol |
| Target memory (`patcher/target.c`) | the target's bytes | `memcpyToTarget`, `memcpyFromTarget` | words of eight bytes, four kept, ranges of any alignment | bytes outside a range do not change; reads are exact; death only at the edge of memory |
| Patch generation (`patchwrite/typediff.c`, `write_to_dwarf.c`, `patchwrite.c`) | notes in the types, FDEs with numbers, lists | compare, note, write transforms, list functions | recursive types; verdicts cached across variables in hash order; FDEs numbered before written | cached verdicts agree with types; pointers are followed exactly where a transform waits; fixups name the right FDE; unsafe functions listed |
| Call frame instructions (`fderead.c`, `dwarf_instr.c`, `leb.c`, `dwarfscript.y`) | bytes, instructions, script | parse, print, compile, serialize | four tables of operands written separately; LEB128 at the boundaries of its lengths | each reads what the other writes |
| Injected calls (`target.c`, `linkmap.c`) | text, registers and stack borrowed from the target | `mallocTarget`, `mmapTarget`, symbol look-up | any stop ends the wait; error returns; the target may hold the lock of its heap | text and registers are given back; the malloc called is the target's; undisturbed, a call is one step |
| DWARF machine (`dwarfvm.c`, `register.c`) | rules, remembered rules, expression stack | evaluate instructions and expressions, assign | the stack of remembered rules outlives an evaluation | the rules at an address are those the standard defines |
| CIEs, FDEs, exception tables, dwarfscript (`fderead.c`, `callFrameInfo.c`, `exceptTable.c`, `eh_pe.c`, `dwarfscript.y`) | the shell's ELF file, flags and tables kept with it, sections built | emit, compile, display | encodings of pointers, sizes that depend on offsets, what one command leaves to the next | an unwinder does with the sections built what it did with the compiler's; what is emitted can be compiled |
| Types from DWARF (`dwarftypes.c`) | types by name, what became of each entry, the function and structure being read | walk the tree, read a type out of order | types in circles, the reading of one interrupts that of another | types are those of the file; a function's types cover its locals; the walk ends |
| Source trees and code comparison (`sourcetree.c`, `codediff.c`, `elfcmp.c`, `patchwrite.c`) | two sorted lists of entries, the patch object | merge, compare, copy text, read-only data, relocations and symbols | names in any order, relocations in compared text, data of several objects in one section | no object is skipped; functions that differ are patched and marked unsafe; references keep their targets |
| Symbols and relocations (`symbol.c`, `relocation.c`) | indexes | match symbols of two binaries, compute and apply relocations | several symbols of a name, sections that move | what is referred to stays what it was |
| ELF files (`elfwriter.c`, `elfparse.c`, `elfutil.c`) | growing sections, string tables | add, find, write | pointers into buffers that move | indexes stay valid |
| Memory map and versions (`pmap.c`, `versioning.c`) | lists of regions and directories | parse | text input | (input only) |
| Containers (`util/`) | lists, maps, hashes, stacks | insert, remove, concatenate, sort | keys compared by part of their bits | as sequences, sets and functions |
| Shell and its commands (`shell/`) | variables holding ELF objects | load, save, replace, print | lifetime of shared objects | (sequential) |
| Reports, paths, logging, options | none that matters here | print | - | - |
| `rewriter/rewrite.c`, `katana-prelim.c` | - | - | an empty shell; an unbuilt prototype | - |

`PROJECT.json` has the same list with files and, under `hazards`, each point of
the code that is hard to test with the properties that cover it.

## Modules and their code

A definition carries the name of the C function it models where there is one.
Definitions named "Mutant of X" are plausible bugs of X, none of which a
specification uses: each property is shown to fail when X is replaced by one.
`MC*` modules give the constants their values.

### SafeState, QuiescentPatch

Two actors and the kernel. The **target** has a stack of return addresses
(`stack`), the executing function (`cur`) and possibly the return address its
pc is at (`at`); `Call`, `Return`, `Reach` (a branch to a return address),
`Trap`, `Exit`, and `OtherSignal` for signals other processes send. The
**kernel** `Deliver`s a pending signal: a traced target stops at every signal.
`event` is the change of state that a `waitpid` has not collected yet.

**katana** has one action per stretch of code between two points where the
target may run:

| action | code |
|---|---|
| `Attach`, `AttachWait` | `startPtrace`, target.c |
| `FirstBreakpoint` | `bringTargetToSafeState` up to its loop, with `findActivationFrames`, `findSafeBreakpointForPatch` (`GoodFrames`, `SafeBreakpointFrame`), `setBreakpoint`, `continuePtrace` (`PlantBreakpoint`, `Resume`) |
| `RelaxStop`, `RelaxBreakpoint` | the branch that sends `SIGSTOP`, waits, removes the breakpoint and plants one nearer |
| `Poll`, `Reached`, `TimeOut` | `waitpid(WNOHANG)`, what follows the loop, and death at the limit |
| `TargetGone` | ptrace requests that fail |
| `ApplyPatch` | the rest of `readAndApplyPatch` as one step, and `endPtrace` |

Addresses are abstracted to return addresses of call sites, the only ones at
which katana ever breaks. `Die` is `death`: katana ends, the kernel detaches
and the target continues with whatever is in its text.

`QuiescentPatch` is the abstract promise: a program whose set of active
functions changes freely, and one step that patches it while no unsafe function
is active. `SafeState` implements it (`ImplementsQuiescentPatch`) with the
mapping `active <- ActiveFuncs`, `state <- PatchState`.

### FreeSpace

`reserveFreeSpaceInTarget` and `getFreeSpaceInTarget` (hotpatch.c) as used by
`readAndApplyPatch` and `katanaPLT`. Sizes of sections are arbitrary and chosen
at the start; the target may lack `.got.plt` or `.rela.plt`. `ReserveBlock`
asks for all of what the code adds up (`Amount`), `Copy` takes a section's
space from the block or, when too little is left, from new pages, in the order
of the code. The kernel (`Maps`) answers with the address it is asked for when
that is free and with any free pages otherwise, or refuses.

### DataMove

`applyVariablePatch` → `patchDataWithFDE` → `generatePatchesFromFDEAndState` ⇄
`makePatchData`. The recursion is an explicit stack of frames; the rules of a
frame are taken in any order because they sit in a hash table. `Recurse` enters
the new address in `dataMoved` before the object is transformed, `IntoVariable`
and `IntoHeap` are the two kinds of targets, `AlreadyMoved` the pointer that
meets an entry, `CannotMove` the deaths. A variable's list of writes is applied
one by one (`ApplyPatchData`), then `relocateVar` rewrites initialized pointers
to it. The initial state is any graph of pointers of `Graphs`.

An address is an object and an offset. A frame starts at the place the pointer
leads to, wherever in the object that is (`currAddrOld`, dwarfvm.c:395 and
:475), while its new address is that of the new variable (:441): what is in the
middle of the old variable is written over the beginning of the new one. A place
in the middle of a heap block becomes a block of its own.

### PatchApply

The loop over compilation units. `ApplyVariablePatch` gives the symbol its new
value and applies the target's own relocations for it (`RelocateVar`);
`ApplyFunctionPatch` writes a jump of 14 bytes over the old function
(`InsertTrampolineJump`), its neighbour included if the function is shorter;
`FixupPatchRelocation` and `RelocateNewText` resolve and apply the entries of
`.rela.text.new`; `Die` leaves everything as it is. A program (`Programs`) says
which names the target has, where its code refers to which, which unit patches
what, and to what the new text refers. An address is *old*, *new*, of the PLT,
or overwritten by a jump; `entry` is the first bytes of a function.

### TargetMemory

`memcpyToTarget` and `memcpyFromTarget`, one action per word of `ptrace`. A
word has `WordSize` bytes and a read keeps `ValSize` of them (`uint val` on
x86-64: 4 of 8) while it copies out 8; the rest is `JUNK`, whatever the stack
holds, and is overwritten by the next step. A write reads the first and last
word of an unaligned range to keep the bytes around it.

### TypeDiff, PatchGen

`TypeDiff` is `compareTypesAndGenTransforms` with its recursion as a stack of
frames (`Call`, one action per branch) and the three notes it leaves in a type:
`diffAgainst`, `typediffStatus`, `transformer`. A transform that has been freed
while its type still refers to it keeps its entry with `live` false, and what
happens next is the outcome *undefined*. `PatchGen` extends it with the loop
over variables, the writing of transforms as FDEs
(`writeTransformationToDwarf`, again a stack of frames, with `onDisk` and
`fdeIdx` as in the code), new variables, and `writeFuncTransformationInfoForCU`.
The comparison of function bodies is the constant `Rewritten`.

### Leb128, FrameInstructions

`Leb128` has the encoder with its dropped septets, the decoder with its
computation of bytes and the assertions of its callers, and numbers of fixed
width. `FrameInstructions` takes the instructions of an FDE around the whole
path of the test `tests/dwarf/identity`: a compiler writes bytes (external),
`parseFDEInstructions` reads them instruction by instruction (`Read`),
`printInstruction` (`PrintScript`), the grammar of dwarfscript (`Compile`),
`serializeDwarfRegInstructions` with the padding of `buildFDERawData`
(`Serialize`), and the parser again. The operands that each of the four sides
believes an instruction to have are four tables: `Operands` (the standard),
`ReadOperands`, `FromScript`/`IsPrinted`/`IsParsed`, `WrittenOperands`.

`Understood` and `Survives` name the instructions for which the code departs
from the standard, so that the properties say everything about the others:
`restore_extended`, `def_cfa_sf` and `val_offset(_sf)` are not read; `set_loc`
is read as four bytes and cannot be written; the second operand of
`offset_extended(_sf)` is not stepped over; `advance_loc2` keeps one byte;
`same_value` cannot be printed; the register of `undefined` is printed from a
field that is not set; `def_cfa_offset_sf` is printed under the name of the
unsigned form; of expressions, `fbreg` and `plus_uconst` are syntax errors when
read back, negative LEB128 operands (a `breg` with a negative offset) lose their
sign, and negative jumps become -1.

### LinkMap, InjectedCall, AtomicCalls

`LinkMap` is the look-up of malloc in the dynamic linker's list of objects
(`locateRuntimeSymbolInTarget`): `Found` and `locateSymbolInLinkMap` for one
object, whose bucket of the hash table is a sequence of symbols.
`InjectedCall` composes it with `mallocTarget` and `mmapTarget`, one action per
request of ptrace: `SaveState`, `WriteCode`, `PushReturnAddress` (mmap only),
`SetTargetRegs`, `ContinuePtrace`, `Wait`, `GetResult` or `GetRefusal`,
`RestoreText`, `RestoreRegs`. The target runs between `ContinuePtrace` and its
next stop (`CallMalloc`, `MallocReturns`, `SystemCall`), where it may be stopped
(`ForeignStop`) or killed (`Kill`) by others; `TargetGone` is the request that
then fails. A target is stopped behind a call, in a leaf function that keeps
data below its stack pointer, or within malloc (`Stops`); `disturbed` records
that a signal had anything to do with it.

`AtomicCalls` is what the rest of katana takes such a call for: one step that
returns memory nobody has, or death; the promise ends with the first signal.
`InjectedCall` implements it (`ImplementsAtomicCalls`).

### EhPointer, ExceptTable, DwarfMachine, FrameSections

`FrameSections` is a session of the shell on one ELF file: `Emit` (of
`.eh_frame` or `.debug_frame`), `Info` and `Compile`, in any order,
each item by item. Its state is what outlives a command in the code:
`callFrameInfo` with its flags (`cfi`), the list of LSDA pointers, the script on
disk, what the scanner has not read of a script that failed (`leftover`), the
stack of remembered rules.

| action | code |
|---|---|
| `ReadCie`, `ReadFde`, `ReadLsda` | `readDebugFrame`, `readExceptFrame`, `parseAugmentationStringAndData` |
| `Sort`, `EmitScript` | `qsort` by address, the emitter of dwarfscript |
| `DisplayFde` | `info`: the rules for each range of addresses, evaluated anew |
| `ParseCie`, `ParseFde`, `ParseLsda`, `Fail` | the grammar and its semantic actions |
| `BuildLsda`, `BuildCie`, `BuildFde`, `BuildTable` | `buildExceptTableRawData`, `buildCallFrameSectionData`, `buildCIERawData`, `buildFDERawData`, `.eh_frame_hdr` |
| `Die` | `death`, a failed assertion or a crash in any of them |

A field of a section has a value and a size; its offset is what the code
computes, so that alignment, pointers relative to themselves and uleb128s whose
length moves what follows are all there. `EhPointer` decodes and encodes
pointers and has the unwinder's reading of them besides; `ExceptTable` takes
LSDAs apart as `exceptTable.c` does and `SitesAt` as libgcc does.
`DwarfMachine` is `evaluateInstructionsToRules` as a fold over instructions.
The unwinder, the compiler (`Meaning`: what it meant by its sections) and the
evaluation of the standard (`DwarfRules`) are the reference definitions.

### DwarfTypes

`walkDieTree` over the entries of one file. `stack` holds its nested calls: a
type that is needed before it has been read is walked to on the spot
(`WalkToType`), which leaves the structure, array or function in the middle of
which it happens on the stack. One action per kind of entry, named as the
function that handles it. `active` is `activeSubprograms`, `parsed` is
`parsedDies`. `Meant` and `SameType` say what a file declares, `Readable` what
katana reads to the end.

### SourceTree, ObjectFile, CodeDiff, PatchUnits

From two source trees to the code of a patch. `SourceTree` is the merge of two
sorted directories (`SameDirectory`, `SameObject`, `Removed`, `Added`,
`EndDirectory`, with `Bewildered` for the death); a tree is a function from
paths to what is there. `ObjectFile` has the look-ups
in an object: a section by the beginning of its name, a symbol of another
binary (`findSymbol`), relocations of a range and their addends. The
relocations of a section are a set, which `InOrder` lists as the code sorts
them. `CodeDiff` is
`areSubprogramsIdentical`. `PatchUnits` extends both with the loops of
`createPatch`: over objects, over the compilation units of each, over the
functions of a unit, and what is written for one that differs: text,
relocations with the symbols they need, read-only data of the object, the entry
among the unsafe functions. `Meaning` of a function (what is at each of its
bytes, references by the symbol's name) is the reference definition.

### How the modules fit together

The models are per component because the code runs the components one after
the other, in a target that is stopped: `SafeState` ends in the state in which
all the others run, and its `ApplyPatch` stands for them. `DataMove`,
`PatchApply` and `FreeSpace` take a call of malloc or mmap for one step, which
is what `InjectedCall` is shown to implement; `InjectedCall` starts where
`SafeState` stops the target (`"afterCall"`) or where `StopTarget` may have
(`"leaf"`, `"inMalloc"`). `DataMove` and `PatchApply` take a successful
reservation (`FreeSpace`) and exact access to memory (`TargetMemory`) for
granted, which is what those modules establish. `PatchApply` treats the
transformation of a variable as one step, which `DataMove` opens up.
`DataMove`'s fields and rules are what `PatchGen` writes; `PatchGen` and
`PatchUnits` are the two halves of `createPatch`, data and code, on types that
`DwarfTypes` reads. These correspondences are by reading; the checked
refinements are `SafeState` → `QuiescentPatch`, proved as well, and
`InjectedCall` → `AtomicCalls`, proved too. By composition (EXTENDS), `PatchGen` contains
`TypeDiff`, `PatchUnits` contains `SourceTree`, `CodeDiff` and `ObjectFile`,
`FrameSections` contains `ExceptTable`, `EhPointer` and `DwarfMachine`,
`InjectedCall` contains `LinkMap`, and `FrameInstructions` uses `Leb128`.

## Runs

`tlc -workers 2 -config X.cfg M` in this directory. Deadlock is not checked in
any run: each system modelled is a program that ends.

| run | instance | what it shows |
|---|---|---|
| `safestate_acyclic` | 7 functions, 7 call sites, one function of a library between two of the target, one unsafe; at most 6 calls in progress; no foreign signals, no recursion; 4 polls, relaxation after 1 | `PatchOnlyWhenSafe`, `BreakpointAhead`, `ImplementsQuiescentPatch`: every interleaving of calls, returns, polls and relaxation, the simultaneous trap and SIGSTOP among them |
| `safestate_hostile` | the same with recursion through the unsafe function, 2 foreign signals, the target left stopped, 3 polls | `TextRestored`, `WritesWhileStopped`, `KatanaFinishes` hold even there |
| `freespace_low` | pages of 4, sections of 0, 2 or 3 bytes (all combinations for 8 sections), a gap of 3 pages below the heap, 32-bit addresses up to 40 of 80 | `EachSectionHasItsOwnMemory`, `GotPltFollowsGot`, whatever mmap answers |
| `injected_calls` | link maps of the program and up to two libraries; 2 calls, 2 signals or kills, a target stopped behind a call, in a leaf function or in malloc | `TargetIsItsOwn`, `OnlyRefusalLeavesCode`, `MallocIsTheTargets`, `ImplementsAtomicCalls`, `KatanaEnds` |
| `datamove_shape` | 3 variables (2 in the patch), 2 heap blocks, 1 pointer each: all graphs, those with a pointer into the middle of a variable or of a block, and variables initialized to each other's address with the relocations kept; 4 blocks of malloc | `SameShape`, `RecursionBounded`, `WrittenDataIsComplete`, `Ends`: cycles, shared blocks, every order, malloc failing |
| `patchapply_units` | 864 programs: 3 functions, 2 variables, a library function, 2 units; short functions, references in a function's first bytes, names old, new or both | `EntriesKept`, `OneVersion`, `SymbolsFound` |
| `targetmemory_words` | words of 4 with 2 kept, 20 mapped bytes, reads and writes of 0..11 bytes from 2 below the mapping to its end | `WriteIsExact`, `ReadIsExact`, `DeathOnlyNearTheEnd` |
| `patchgen_linked` | 606 pairs of versions: two structs with pointers to each other, a list node, const, a const that leads back to itself, union, enum, array; members that come, go, swap or change; 3 variables in any order | `SameIsSame`, `PointersLeadToTransforms`, `DiffDepthBounded`, `FdesFit` |
| `patch_units` | 4096 pairs of trees of 3 names; 8232 pairs of one function with two or three relocations, of both kinds (REL and RELA); 10 programs of several objects or units, with and without a section for each function | `NoObjectIsLost`, `DifferencesArePatched`, `RelocationsKeepTheirTargets` |
| `dwarf_types` | the debugging entries of 19 short C programs: types in circles, forward declarations, nested blocks, function pointers, two units, and what katana cannot read | `TypesAsDeclared`, `UsesCoverLocals`, `DefinitionsWin`, `ReadsToTheEnd` |
| `frame_identity` | 197 instructions at the boundaries of every encoding, the expression of the procedure linkage table among them, alone and in pairs, and 0..2 nops of padding | `ReadsTheProgram`, `Identity` |
| `frame_sections` | sessions of up to 5 commands on 24 programs of one to three functions: with and without exception tables, pointers absolute, relative and indirect, type tables around the length at which a uleb128 grows, FDEs out of order, signal frames, both frame sections | `SameUnwinding`, `HeaderFindsFdes`, `CompilesWhatItEmits`, `RowsAreTheTable` |

### Why the bounds are enough

- *SafeState*: six calls in progress hold the longest chain of the acyclic
  instance, so `MaxDepth` cuts nothing there; with recursion it allows the
  unsafe function twice on the stack. Polls beyond one before and one after the
  relaxation repeat a state up to the counter. Signals are the means by which a
  stop can be mistaken for another, and two of them can be pending with a
  SIGSTOP and a trap.
- *FreeSpace*: sizes 0, 2 and 3 against pages of 4 give sections that fill a
  page exactly, straddle two, or are empty; the gap of three pages is too small
  for the larger sums, so that both answers of mmap occur. Proved for all
  values besides.
- *DataMove*: two heap blocks suffice for sharing and for a cycle outside of
  the variables, three variables for one that the patch lacks. With one pointer
  per object a graph is a set of lists and cycles; `Fields` is a parameter, and
  branching is bounded by the state space. The pointers of the variable that is
  not in the patch are never read and stay NULL; one pointer, of `v1`, leads into
  the middle of an object. `MaxMalloc` is 4: the two blocks, a place in the
  middle of one, and a copy of a new variable. More of malloc would only lengthen
  a chain of such copies.
- *PatchGen*: two structs are the least for mutual recursion and three
  variables for a verdict made, reused and reused again.
- *InjectedCall*: the second call is the first that starts from what another
  has left. Two signals are enough for one to end a wait early and the other to
  hit katana while it puts things back; two libraries for one to hide the
  other.
- *PatchUnits*: three names give a file or a directory before, between and
  behind others, in one tree or both. A difference behind two relocations shows
  how far a comparison went; one in the first of them what it saw. The bytes of
  an operand are 4 of the `AddrSize` the code steps over, 8 or 4.
- *DwarfTypes*: the files are chosen, not enumerated; between them they take
  every branch of the walk (each action and disjunct fires), with the entry a
  type refers to before it, behind it and around it.
- *FrameSections*: five commands hold every pair of commands between the two
  that show what they leave behind, and an emit before. Addresses are below
  4096, and numbers of four and eight bytes are those modulo 2^13 and 2^25
  (`Modulus`): large enough for a pointer of either sign, and not the same.
- *PatchApply*: two units are the least for one to refer to another. Proved for
  any number.
- *TargetMemory*: the ratio of word and kept bytes is that of x86-64; ranges
  cover no, one, two and three words at each alignment. Proved for all values.
- *FrameInstructions*: a reader that goes wrong on one instruction shows it at
  the next, hence pairs. Numbers are below 2^30 (`MaxNumber`), the integers of
  TLC being of 32 bits; larger ones end a behaviour.

## Fairness

`SafeState` assumes weak fairness of `Katana` (a runnable process is scheduled)
and of `Deliver` (the kernel delivers the pending signals of a running
process). Nothing is assumed of the target: it need not call, return or exit,
and `KatanaFinishes` holds because the waits of `startPtrace` and of the
relaxation follow a SIGSTOP and the polling is bounded. `InjectedCall` assumes
weak fairness of `Katana` and of `Target`, the code that katana has the target
run: malloc and the kernel return, which nothing in katana makes sure of.
Signals are not assumed. `KatanaEnds` excepts the wait for a lock that the
target itself holds, and then a signal must have stopped it there. `DataMove`
and `DwarfTypes` assume weak fairness of their only process, katana; their
liveness is termination. The other modules state no liveness: they are
sequential, and their only question is what they reach.

## Proofs

`tlapm M_proofs.tla` in this directory. Eight modules hold the theorems, each
about one component and for every value of the
constants that the `ASSUME`s of the component's module allow. Those say what
the constants are (finite types, names that differ, link maps with one meaning
per name, `ConstsAssumption`: in C the const of a const type is that type), and
TLC evaluates them on the instances.

The searches of the code (the first symbol, the first member of a name, the
next member) are `CHOOSE`s of a least index. `LeastNatural`, a lemma of the
modules that need it, shows that there is one: a set of naturals that is not
empty has a least element, because intervals are well-founded by inclusion. It
is the only induction over numbers in the proofs.

**SafeState_proofs.** `TypeCorrect`. `TextIsRestored` (`TextRestored`, whatever
the call graph and the signals) from `TextInv`: what the text holds, and which
int3 the pc has just passed, at each point of katana. `SafePatching`
(`PatchOnlyWhenSafe`), `NeverOutrun` (`BreakpointAhead`) and `Implementation`
(the refinement) assume `AcyclicCalls`, a ranking of functions that calls
increase, and `MaxSignals = 0`. Both are necessary: a signal
ends the wait at an arbitrary point (safety.c:520), and with recursion an inner
activation reaches the breakpoint of an outer one. Their invariant `IInv(rank)` is not the
property: at the moment of the patch nothing is left that says why no unsafe
function is active. It is `Chain`, the stack is a chain of increasing rank, so
no function and hence no return address occurs twice, and `Control`, which
says what each point of katana knows: while it polls, the breakpoint is `Ahead`
(the return address of a frame with no unsafe frame at or above it) or has just
been `Hit`, and if the target is stopped, it is there. The case with two stops
on their way (the trap, then the SIGSTOP of the relaxation) is the reason for
its conjuncts about pending signals. `TextWrittenWhileStopped`
(`WritesWhileStopped`) is the action property: no step of katana writes text
of a target that runs, whatever the signals.

**FreeSpace_proofs.** `TypeCorrect`, `SectionsApart`
(`EachSectionHasItsOwnMemory`), `GotAndGotPltAdjacent` (`GotPltFollowsGot`).
Sections stay apart because the free space always lies in one mapping
(`FreeSpaceMapped`) and mappings are apart from the target's (`MappedApart`).
Adjacency needs `Budget`: up to the copy of `.got.plt` what is left of the
block is at least the sum of the sections still to come, so that none of them
takes the way to other pages. It is the arithmetic behind the comment that
announces the reservation.

**PatchApply_proofs.** `TypeCorrect`, `EntriesAreKept` (`EntriesKept`),
`OneVersionRemains` (`OneVersion`), `SymbolsAreFound` (`SymbolsFound`). The
invariant relates everything to `Applied(x)`, the unit of x is over or x is no
longer left: symbols, operands of code that can still run, and first bytes of
functions are functions of it. `EntriesKept` carries the hypotheses `LongEnough`
and `~RefersForward`, which are limits of the code: a jump of 14 bytes may be
longer than the function it replaces, and relocations for a variable of a later
unit are written over a jump that is already there.

**TargetMemory_proofs.** `TypeCorrect`, `WritesAreExact`, `ReadsAreExact`. A
prefix of the range has been written and nothing else (`PrefixWritten`); of a
read, the bytes before its index are right whatever junk is behind them
(`PrefixRead`); `Purpose` ties the three uses of a read to the position they
serve. `DeathIsNearTheEnd` (`DeathOnlyNearTheEnd`): a range fails only if it
comes within a word of what is mapped; what lies between is arithmetic on
remainders of the position.

**InjectedCall_proofs.** `TypeCorrect`, `TextAndRegistersReturned`
(`TargetIsItsOwn`), `DeathLeavesOwnCode` (`OnlyRefusalLeavesCode`),
`FirstDefinitionIsCalled` (`MallocIsTheTargets`) and `CallsAreAtomic`, the
refinement of `AtomicCalls`. The properties speak of the moments between two
calls, and of death; `Borrowed` says for every request in between which of text
and registers is the target's and what has been saved of it. `Running` ties the
target's run to katana's wait, without which a kill could come at any point.
`Search` keeps, object by object, that no earlier one has the symbol. The
refinement needs `Undisturbed`, the only conjunct that knows of the result: as
long as no signal has interfered, what is in the register when katana reads it
is memory not given before, or a refusal. Every step from `SaveState` to
`RestoreText` is a stutter of `AtomicCalls`, `RestoreRegs` its step.

**DataMove_proofs.** `TypeCorrect`, `WrittenIsComplete`
(`WrittenDataIsComplete`), `RecursionIsBounded` (`RecursionBounded`),
`ShapeIsKept` (`SameShape`). Completeness follows from `NoneForgotten`: every
field of an object that has been begun is still open in a frame or entered in a
list, and new pointers lead only to such objects. The depth follows because
every frame but the first has entered an address in `dataMoved` (`Depth`), so
that their number is that of addresses in pointers, not of objects: a pointer
into a variable is entered apart from one to its beginning.

`SameShape` speaks of the end only, and its strengthening `ShapeInv` of every
moment: the frames, the entries of the map and the written pointers agree on the
`Place` of an address, a variable's for all places in it, a block's own
otherwise; `MovedOnce`, the map is a function and a block of malloc belongs to
one address; and `NoneUnfollowed`, every pointer of an address that has been come
to is still in hand, has been dealt with, or was misread. At the end nothing is
in hand, so that what has been come to is closed under the pointers and contains
all that `SameShape` speaks of. `ShapeIsKept` has one hypothesis, `KeysDistinct`:
the map compares addresses by part of their bits (`util/map.c:103`), which tells
the addresses apart.

**PatchGen_proofs.** `VerdictsAgree` (`SameIsSame`), `PointersLead`
(`PointersLeadToTransforms`), `RecursionIsBounded` (`DiffDepthBounded`),
`TypeCorrect`, `FixupsFit` (`FdesFit`). The proofs are about `PatchGen`, which
contains the comparison, because the notes outlive a comparison and a
comparison starts from the notes of those before. `Core` is inductive as a
whole: a verdict (`Verdicts`) is right because of what is known at each frame of
the recursion (`InProgress`, `AtMember`) and of the answer it waits for
(`Answered`), and a member noted as copied is right (`Pointers`) because the
verdict on what it points to does not change again. `Depth`: each call in
progress has begun a type of its own. The writer's invariant is about numbers
that are given out before they are used: `WrittenTypes`, the number of a type is
that of an FDE for it; `WriterFrames`, what a frame stands for has its transform
and, past its entry, its number; `MembersInOrder`, the members an FDE has dealt
with are those up to the last, and a struct's frame is not left before all are;
`AllFit`, each fixup names the FDE of its type. With the first version of
`FdesFit` the proof failed at a const that a pointer within what it qualifies
leads back to: it is marked `onDisk` while its index is still 0
(write_to_dwarf.c:286). TLC then found the run, and the property names the case.

**PatchUnits_proofs.** The three invariants of the run and a theorem about the
comparison itself, for trees, objects and functions of any size.
`NoneIsLost` (`NoObjectIsLost`): nothing says in the end why an object was not
passed over; `Complete` (in `IInv`) says it of every moment of the merge. Each
object of both trees has been noted, or is still ahead of exactly one call of
the walk; one that only the new tree has is noted as new, ahead, or `Hidden`.
It holds because what has been passed of the old directory comes before all
that is left of the new one (`CallFits`).
`ComparisonIsRight`: what `areSubprogramsIdentical` calls identical does not
differ in sight, and what it tells apart has different `Meaning`s. Its
hypotheses (`Comparable`) are that addends are made out and that code and
relocations are where an assembler puts them. `DifferencesGetIn`
(`DifferencesArePatched`) carries that verdict to the end of `createPatch` with
`CodeInv`: every function of a unit that is behind has been `Judged`, and what
is in the patch comes from a unit that has been reached (`Origins`), so that
nothing gets in but by a verdict. The units of a tree have distinct names,
without which a function in the patch could be another one's.
`TargetsAreKept` (`RelocationsKeepTheirTargets`): a reference may be made true
by a step and false by a later one, when symbols and data of other objects
arrive. `RelocInv` says what does not change: the patch is only extended, each
function in it is `From` an object whose references it has (`RefsIn`), the data
of that object is where `writeROData` noted (`DataThere`), and the symbol for a
section is the one that `SectionSymbol` makes (`SymbolsFit`), so that an addend
of another object is not taken for this one's. `OneRodata` is a hypothesis of
the property and a limit of the code (below). `TreesAssumption` and
`ObjectsAssumption` say what directories and assemblers produce: a tree has the
directories of its files, symbols and relocations refer to what the object has,
both versions are for one machine.

What is model-checked only:

- liveness (`KatanaFinishes`, `KatanaEnds`, `Ends`, `ReadsToTheEnd`), which
  needs fairness;
- `DwarfTypes` (`DefinitionsWin`, `TypesAsDeclared`, `UsesCoverLocals`) and
  `FrameSections` (`CompilesWhatItEmits`, `SameUnwinding`, `HeaderFindsFdes`,
  `RowsAreTheTable`): most compare what recursive definitions over types, bytes
  and instructions give, by induction over data; for the others see the plan;
- `ReadsTheProgram` and `Identity`: what an encoder computes for every number
  is an induction over digits, which is out of the prover's reach.

## Known departures

The code is modelled as it is. Where it departs from what it is for, a property
excludes the case by a named condition, or holds of it in a weaker form, so
that it says everything about the rest. In this list a name in
parentheses is that condition.

Patching:
- safety.c:520 takes any stop for the breakpoint (`MaxSignals = 0`);
  doc/katana.txt:473 speaks of functions without an activation record.
  safety.c:534 aborts with the int3 in the text; target.c:547 keeps the entry of
  a removed breakpoint.
- target.c:386 and :489 take any stop for the end of an injected call, and the
  refusals of :391 and :494 leave katana's code in the target (`disturbed`,
  `Refused`). An error number other than -1 is taken for an address (`Errno`).
  malloc waits for ever in a target stopped within malloc. Names are compared
  as prefixes (linkmap.c; `Longer`), and objects without a SysV hash table are
  passed over.
- patchapply.c:135 rewrites pointers that are initialized to a variable before
  their own variable is transformed; the new address is taken for heap and the
  new variable copied once more (`misread`; `Copies` says where the pointer leads
  then). It also writes over a jump that is there
  (`RefersForward`). doc/katana.txt:343 recommends the `--emit-relocs` that
  brings these relocations. A jump of 14 bytes may not fit (`LongEnough`).
- patchapply.c:658: `.rela.plt` is not counted in the reservation.
- dwarfvm.c:441 drops the offset of a pointer into a variable, and :395 and :475
  read from the place it leads to: the new pointer leads to the beginning, over
  which the fields from the middle have been written, before or after those of
  the beginning (`Merged`). A pointer into the middle of a heap block gets a copy
  of its own, apart from the block's.

Generating:
- typediff.c:118 fails an assertion on a list node whose struct differs, and
  typediff.c:310 frees a transform that is still referred to (outcomes of
  `TypeDiff`). write_to_dwarf.c:292: a pointer
  to a const within what the const qualifies is written with index 0
  (excepted in `FdesFit`);
  write_to_dwarf.c:355: a field that shrinks.
- patchwrite.c:589 looks for transformed types among those of the new version,
  so functions that use them are not listed as unsafe, against types.h:115.
- sourcetree.c:199 asks the old tree whether an entry of the new one is a
  directory (`Hidden`), new objects and directories end katana.
- codediff.c:245: a relocation counts for `AddrSize` bytes, so those behind its
  own four are not compared (`Shadow`) and another one among them makes
  all later ones be missed (`Spaced`); :217 and :223 leave a loop with the verdict
  "identical" (`SectionsKept`).
- patchwrite.c:699: the first unit that the new version omits ends the loop over
  units (`kept`). patchwrite.c:142 asserts that an object has read-only data.
- patchwrite.c:120 and :218: of references to sections only those to
  `.rodata` are rebased; a symbol that lies in `.rodata` is rebased too.
  elfparse.c:308 takes the last section whose name begins with `.rodata` for
  it, so that references into one like `.rodata.str1.1` are wrong
  (`OneRodata`).
  relocation.c:533 makes out the addend of a REL relocation for some kinds only
  (`Exact`), which can hide a difference between two functions or feign one
  (`AllExact`). elfparse.c:290 takes the last of several sections of a kind;
  symbol.c:258 the last of several local symbols of a name.

Types (`HasItsName`, `Readable`): `const char *` and `char *const` share a
name, as do `extern int a[]` and `int b[1]`, and two local types of one name. The
const of an array that is still being read has length 0. Arrays are one element
short and their dimensions are added (dwarftypes.c:883); members of unions have
the offsets of a struct (:991). `restrict`, functions without a prototype and
enumerations without a size end katana, and so does a third unit of the same
name and directory. A parameter with an abstract origin is void; the
ellipsis of a function pointer marks the function around it.

Call frame information:
- `Understood`, `Survives` (instructions, above).
- exceptTable.c:290: type pointers relative to their place go wrong from the
  second on, or with a null one (`RelativeTypes`). callFrameInfo.c:366: ranges
  are always four bytes (`WideFdes`). fderead.c:719 finds augmentation data by
  searching for a byte (`Lookalike`). callFrameInfo.c:79 fails an assertion on
  signal frames (`SignalFrames`); an FDE without the LSDA its CIE announces and
  an exception table before `.eh_frame` end katana (`NullLsda`, `TableBefore`).
  udata8 pointers count for four bytes.
- fderead.c:771 sorts FDEs that keep their number, and dwarfscript.y:350 wants
  them in order (`InOrder`); the scanner then starts the next script with the
  rest of this one. fderead.c:551: flags of `.eh_frame` stay for `.debug_frame`.
- dwarfvm.c:135 keeps remembered rules from one evaluation to the next; :151
  keeps rules that were not remembered (`NotPutBack`); :243 reads a name that
  :197 has freed, and instructions that are not evaluated end katana
  (`Undisplayable`).

## Not modelled

- *SafeState*: threads other than the main one; the unwinder's correctness; the
  contents of the patch's text while `ApplyPatch` runs.
- *FreeSpace*: that 32-bit code reaches its sections, because only the first
  address of the block is compared with the limit and the rest depends on the
  memory map.
- *InjectedCall*: the contents of the hash tables; the alignment of the stack
  (a fault in malloc is a signal).
- *DataMove*: fields that are not pointers, rules of other kinds.
- *PatchApply*: the patched binary written to disk, bytes of the PLT,
  relocation types that katana does not support, the arithmetic of the others.
- *TargetMemory*: `modifyTarget`'s comparison after a write.
- *PatchGen*: more than one compilation unit, entries of `.debug_info`.
- *PatchUnits*: visibility and sizes of symbols, symbols with absolute values,
  string tables, headers and bytes of ELF. Local symbols of one name in one
  object, and .data and .bss in references by section, are not in its instance.
- *DwarfTypes*: location expressions, `.debug_str`, names put together as
  strings (a name is a base with what is before and behind it).
- *FrameInstructions*: instructions of CIEs, katana's own instructions, labels
  in expressions.
- *FrameSections*: exception specifications, landing pads relative to `lpStart`
  and filters of 64 or more; instructions have the operands that the machine
  asks for (their bytes are in `FrameInstructions`).
- *DwarfMachine*: evaluation of expressions, assignment to registers of katana
  itself.
- No module: `/proc/PID/maps` and the directory of versions (`pmap.c`,
  `versioning.c`: text in, lists out); the containers of `util/` (sequences,
  sets and functions in the models); the language and variables of the shell
  but for the session of `FrameSections`; reports, paths, logging and options;
  what the build leaves out (`rewriter/`, `katana-prelim.c`, `fdewrite.c`).
  `PROJECT.json` gives the reason for each.

## Plan

Done: patching (safe state, memory, injected calls, data, application),
generation (source trees, code, types read and compared, transforms), and the
editor's way from sections to dwarfscript and back (instructions, CIEs, FDEs,
exception tables, evaluation). Next, by weight:

1. Proofs: all properties of `SafeState`, `FreeSpace`, `PatchApply`,
   `TargetMemory`, `InjectedCall`, `DataMove`, `TypeDiff`, `PatchGen` and
   `PatchUnits` but those of liveness are theorems. Next `DefinitionsWin` and
   `UsesCoverLocals` under hypotheses on the tree of entries.
2. Composition: `DataMove` as the refinement of `PatchApply`'s step for a
   variable; `InjectedCall` within the stopped states of `SafeState`.
3. The shell's variables and the objects they share; `relocation.c`'s arithmetic
   per type; the map of heap addresses (`util/map.c:103`).
