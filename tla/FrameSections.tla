---------------------------- MODULE FrameSections ----------------------------
(***************************************************************************)
(* A session of katana's shell on one ELF file: dwarfscript is emitted for *)
(* .eh_frame or .debug_frame, the call frame information is displayed, and *)
(* dwarfscript is compiled to sections again (dwarfscriptCommand.cpp,      *)
(* infoCommand.cpp).  The sections are read by fderead.c and exceptTable.c,*)
(* printed and parsed (dwarfscript.y) and built by callFrameInfo.c and     *)
(* exceptTable.c, item by item.                                            *)
(*                                                                         *)
(* An item of .eh_frame is a record that says where it is; its             *)
(* augmentation data is a buffer.  libdwarf, which takes the section apart,*)
(* the compiler that wrote it and the unwinder that will use it are        *)
(* external.                                                               *)
(***************************************************************************)
EXTENDS ExceptTable, DwarfMachine

CONSTANTS Binaries,     \* programs, as their compiler knows them
          MaxCommands   \* the most commands in a session

VARIABLES
  elf,        \* the program, and its .eh_frame and .debug_frame sections
  cfi,        \* its callFrameInfo in katana's memory
  lsdaPointers, \* the distinct LSDA pointers, in the order they were read
  script,     \* the dwarfscript file
  parsed,     \* parsedCallFrameInfo, made of a dwarfscript file
  leftover,   \* whether the scanner holds the rest of a file that was not parsed
  out,        \* the sections built so far or, between commands, last
  stack,      \* the stack of DW_CFA_remember_state
  rows,       \* the register rules that are displayed
  command,    \* the command katana executes: "none" between commands
  step,       \* what it does next
  k,          \* and with which item
  count,      \* how many commands there have been
  died        \* katana has ended in a death or an assertion

session == <<elf, script, count>>
vars == <<elf, cfi, lsdaPointers, script, parsed, leftover, out, stack, rows,
          command, step, k, count, died>>

-----------------------------------------------------------------------------
(* Records.                                                                 *)

NoSections == [built |-> FALSE]

\* The size of an instruction: operands here take a byte.
InstrBytes(i) ==
  CASE i.type \in {"nop", "advance_loc", "remember_state", "restore_state", "restore"} -> 1
    [] i.type \in {"advance_loc1", "offset", "def_cfa_register", "def_cfa_offset",
                   "undefined"}                                                      -> 2
    [] OTHER                                                                          -> 3

InstrsBytes(instrs) == FoldLeft(LAMBDA n, i : n + InstrBytes(i), 0, instrs)

\* Where the augmentation data of a CIE begins and where the CIE ends, from
\* the offset of the CIE: the length, the id, the version, the augmentation
\* string, the alignments, the return address and the length of the data.
\* Addresses are aligned to size.
AugmentationAt(letters, dataAlign) ==
  9 + Len(letters) + 1 + 1 + Sleb(dataAlign).n + 1 + (IF letters = <<>> THEN 0 ELSE 1)

CieBytes(c, size) ==
  4 + Aligned(AugmentationAt(c.letters, c.dataAlign) - 4 + c.aug.len + InstrsBytes(c.instrs), size)

FdeBytes(f, size) ==
  4 + Aligned(4 + f.initial.n + f.range.n + f.augLen + f.aug.len + InstrsBytes(f.instrs), size)

\* The offset of the augmentation data in an FDE.
FdeAugmentationAt(f) == 8 + f.initial.n + f.range.n + f.augLen

-----------------------------------------------------------------------------
(* The compiler and libdwarf (external).  b is a program.                   *)

\* The augmentation data of a CIE.
WrittenAug(c, address) ==
  Filled(Empty, FlattenSeq([j \in DOMAIN c.letters |->
    CASE c.letters[j] = "P" -> <<Field(c.persEnc, 1),
                                 encodeEHPointerFromEncoding(c.pers, c.persEnc, address + 1)>>
      [] c.letters[j] = "L" -> <<Field(c.lsdaEnc, 1)>>
      [] c.letters[j] = "R" -> <<Field(c.fdeEnc, 1)>>
      [] OTHER              -> <<>>]))

CieOf(c, off, address) ==
  [off |-> off, letters |-> c.letters, dataAlign |-> c.dataAlign, instrs |-> c.instrs,
   aug |-> WrittenAug(c, address + off + AugmentationAt(c.letters, c.dataAlign))]

FdeEncoding(c) == IF "R" \in Range(c.letters) THEN c.fdeEnc ELSE DW_EH_PE_absptr

LsdaField(b, f, at, lsdaAt) ==
  LET enc == b.cies[f.cie].lsdaEnc
  IN  IF f.lsda = 0 THEN Field(0, getPointerSizeFromEHPointerEncoding(enc))
      ELSE encodeEHPointerFromEncoding(b.exceptTableAddress + lsdaAt[f.lsda], enc, at)

FdeOf(b, f, off, lsdaAt) ==
  LET c   == b.cies[f.cie]
      enc == FdeEncoding(c)
      n   == getPointerSizeFromEHPointerEncoding(enc)
      z   == IF c.letters = <<>> THEN 0 ELSE 1
  IN  [off |-> off, cie |-> f.cie, augLen |-> z, instrs |-> f.instrs,
       initial |-> encodeEHPointerFromEncoding(f.low, enc, b.ehAddress + off + 8),
       range   |-> Field(f.high - f.low, n),
       aug     |-> IF "L" \in Range(c.letters)
                     THEN Filled(Empty, <<LsdaField(b, f, b.ehAddress + off + 8 + 2 * n + z, lsdaAt)>>)
                     ELSE Empty]

\* The types of an LSDA with their pointers to where they really are.
CompiledTypes(l, address) ==
  LET n == getPointerSizeFromEHPointerEncoding(l.ttEncoding)
  IN  [j \in 1..Len(l.typeTable) |->
         LET type == l.typeTable[Len(l.typeTable) + 1 - j]
         IN  IF type = 0 THEN Field(0, n)
             ELSE encodeEHPointerFromEncoding(type, l.ttEncoding, address + (j - 1) * n)]

\* gcc writes an LSDA as katana does, but for the types.
CompiledLsda(buf, l, address) ==
  LET actions == Actions(l.actionTable)
      sites   == CallSites(l.callSiteTable, actions.offsets)
      layout  == Layout(l, sites, actions.fields)
  IN  Filled(PaddedTo4(buf),
             FieldsOf(l, layout, sites, actions.fields,
                      CompiledTypes(l, address + Aligned(buf.len, 4) + layout.top)))

\* Where things begin: offs of a sequence of sizes, from start on.
Offsets(sizes, start) ==
  [j \in 1..(Len(sizes) + 1) |-> start + FoldLeft(LAMBDA a, n : a + n, 0, SubSeq(sizes, 1, j - 1))]

Compiled(b) ==
  LET tables  == FoldLeft(LAMBDA r, l : [buf |-> CompiledLsda(r.buf, l, b.exceptTableAddress),
                                         at  |-> Append(r.at, Aligned(r.buf.len, 4))],
                          [buf |-> Empty, at |-> <<>>], b.lsdas)
      cieAt   == Offsets([j \in DOMAIN b.cies |-> CieBytes(CieOf(b.cies[j], 0, 0), 4)], 0)
      cies    == [j \in DOMAIN b.cies |-> CieOf(b.cies[j], cieAt[j], b.ehAddress)]
      fdeAt   == Offsets([j \in DOMAIN b.fdes |-> FdeBytes(FdeOf(b, b.fdes[j], 0, tables.at), 4)],
                         Last(cieAt))
  IN  [built |-> TRUE, ehAddress |-> b.ehAddress, ehHdrAddress |-> b.ehHdrAddress,
       exceptTableAddress |-> b.exceptTableAddress, hdrTableEncoding |-> b.hdrTableEncoding,
       cies |-> cies, except |-> tables.buf,
       fdes |-> [j \in DOMAIN b.fdes |-> FdeOf(b, b.fdes[j], fdeAt[j], tables.at)]]

\* What libdwarf says of the location of an FDE.
LowPc(s, f, enc) == UnwinderPointer(f.initial, s.ehAddress + f.off + 8, enc)

\* The same program without augmentation, as .debug_frame has it.
Stripped(b) == [b EXCEPT !.ehAddress = 0, !.lsdas = <<>>,
                         !.cies = [j \in DOMAIN b.cies |-> [b.cies[j] EXCEPT !.letters = <<>>]]]

-----------------------------------------------------------------------------
(* Reading (readDebugFrame of fderead.c).                                   *)

NoCfi == [isEHFrame |-> FALSE, ehAddress |-> 0, ehHdrAddress |-> 0, exceptTableAddress |-> 0,
          hdrTableEncoding |-> DW_EH_PE_absptr, cies |-> <<>>, fdes |-> <<>>,
          exceptTable |-> <<>>]

\* A number of dwarfscript, or an address that katana keeps in an int, where
\* it is used as an address again.
SavedInt(v) == Signed(v % Modulus[4], Modulus[4]) % Modulus[8]

NewCIE(c) == [flags |-> {}, dataAlign |-> c.dataAlign, instrs |-> c.instrs,
              fdePointerEncoding |-> DW_EH_PE_absptr, fdeLSDAPointerEncoding |-> DW_EH_PE_absptr,
              personalityPointerEncoding |-> DW_EH_PE_absptr, personalityFunction |-> 0,
              initialRules |-> NoRules, addressSize |-> 0]

\* parseAugmentationStringAndData, letter by letter; data says where the
\* data comes to be.  The assertion that data is left precedes each letter.
ParseLetter(r, letter, aug, address) ==
  IF ~r.ok \/ r.offset \notin DOMAIN aug.at THEN [r EXCEPT !.ok = FALSE]
  ELSE CASE letter = "z" -> [r EXCEPT !.cie.flags = @ \cup {"z"}]
         [] letter = "R" -> [r EXCEPT !.cie.flags = @ \cup {"R"}, !.offset = @ + 1,
                                      !.cie.fdePointerEncoding = aug.at[r.offset].v]
         [] letter = "L" -> [r EXCEPT !.cie.flags = @ \cup {"L"}, !.offset = @ + 1,
                                      !.cie.fdeLSDAPointerEncoding = aug.at[r.offset].v]
         [] letter = "P" ->
              LET enc == aug.at[r.offset].v
                  d   == decodeEHPointer(aug.at[r.offset + 1], address + r.offset + 1, enc)
              IN  [r EXCEPT !.cie.flags = @ \cup {"P"}, !.offset = @ + 1 + d.read,
                            !.cie.personalityPointerEncoding = enc,
                            !.cie.personalityFunction = d.value, !.ok = Handled(enc)]
         [] OTHER        -> r

parseAugmentationStringAndData(c, address) ==
  FoldLeft(LAMBDA r, letter : ParseLetter(r, letter, c.aug, address),
           [cie |-> NewCIE(c), offset |-> 0, ok |-> TRUE], c.letters)

\* Where the data is reckoned to be, with a byte for each number before it
\* and none for its own length.
AugDataAddress(s, c) == s.ehAddress + c.off + 9 + Len(c.letters) + 1 + 1 + 1 + 1

\* The scan for the augmentation data in the bytes of an FDE: a number of
\* the same bytes before it is taken for it.
NumbersBefore(f, cieOff) ==
  <<[at |-> 0, f |-> Field(FdeBytes(f, 4) - 4, 4)], [at |-> 4, f |-> Field(f.off + 4 - cieOff, 4)],
    [at |-> 8, f |-> f.initial], [at |-> 8 + f.initial.n, f |-> f.range]>>

AugDataOffset(f, cieOff) ==
  LET same == SelectSeq(NumbersBefore(f, cieOff), LAMBDA x : x.f = f.aug.at[0])
  IN  f.off + (IF same = <<>> THEN FdeAugmentationAt(f) ELSE same[1].at)

\* The LSDA of an FDE, counted from 1, among the pointers found so far and
\* its own.
LsdaIndex(pointers, p) ==
  IF p \in Range(pointers) THEN IndexOf(pointers, p) + 1 ELSE Len(pointers) + 1

NewFDE(f, idx, low, lsda) ==
  [idx |-> idx, cie |-> f.cie, lowpc |-> SavedInt(low), highpc |-> SavedInt(low + f.range.v),
   instrs |-> f.instrs, lsda |-> lsda]

NoLsda == 0

-----------------------------------------------------------------------------
(* The steps.  Goto is the next one; the item it starts with is the first.  *)

Goto(c, s, n) == /\ command' = c
                 /\ step' = s
                 /\ k' = n

Next1(s) == Goto(command, s, 1)

Finish == Goto("none", "none", 1)

Die == /\ died' = TRUE
       /\ UNCHANGED <<cfi, lsdaPointers, parsed, leftover, out, stack, rows, command, step, k>>

Section == IF command = "emit .debug_frame" THEN elf.debug ELSE elf.eh

NewCommand(c, s) ==
  /\ command = "none"
  /\ count < MaxCommands
  /\ count' = count + 1
  /\ rows' = {}
  /\ Goto(c, s, 1)

\* emit and info: the sections are read into the object's callFrameInfo.
\* Nothing says there that a section is not .eh_frame but what was there.
Read(c) ==
  /\ NewCommand(c, "CIE")
  /\ LET s == IF c = "emit .debug_frame" THEN elf.debug ELSE elf.eh
     IN  cfi' = IF c = "emit .debug_frame"
                  THEN [cfi EXCEPT !.ehAddress = s.ehAddress, !.cies = <<>>, !.fdes = <<>>]
                  ELSE [cfi EXCEPT !.isEHFrame = TRUE, !.ehAddress = s.ehAddress,
                                   !.ehHdrAddress = s.ehHdrAddress,
                                   !.hdrTableEncoding = s.hdrTableEncoding,
                                   !.cies = <<>>, !.fdes = <<>>]
  /\ lsdaPointers' = <<>>
  /\ UNCHANGED <<elf, script, parsed, leftover, out, stack, died>>

Emit == \E c \in {"emit .eh_frame", "emit .debug_frame"} : Read(c)

Info == Read("info")

ReadCie ==
  /\ step = "CIE" /\ ~died
  /\ \E c \in {Section.cies[k]} :
     \E r \in {parseAugmentationStringAndData(c, AugDataAddress(Section, c))} :
     \E e \in {evaluateInstructionsToRules(c.instrs, NoRules, NoRules, 0, -1, stack)} :
       IF ~r.ok \/ e.state = "dead" THEN Die
       ELSE /\ cfi' = [cfi EXCEPT !.cies = Append(@, [r.cie EXCEPT !.initialRules = e.rules])]
            /\ stack' = e.stack
            /\ IF k < Len(Section.cies) THEN Goto(command, "CIE", k + 1) ELSE Next1("FDE")
            /\ UNCHANGED <<lsdaPointers, parsed, leftover, out, rows, died>>
  /\ UNCHANGED session

\* The LSDA pointer of an FDE with augmentation data (parseFDEAugmentationData);
\* on a section that is not .eh_frame it is not looked for.
LsdaPointer(f) ==
  IF cfi.isEHFrame /\ f.aug.len > 0 /\ "L" \in cfi.cies[f.cie].flags
    THEN {decodeEHPointer(f.aug.at[0], cfi.ehAddress + AugDataOffset(f, Section.cies[f.cie].off),
                          cfi.cies[f.cie].fdeLSDAPointerEncoding).value}
    ELSE {}

\* Then the next FDE, or the LSDAs if there is a section of them; an FDE's
\* encoding is libdwarf's concern.
AfterFde ==
  IF k < Len(Section.fdes) THEN Goto(command, "FDE", k + 1)
  ELSE Next1(IF command # "emit .debug_frame" /\ elf.eh.except.len > 0 THEN "LSDA" ELSE "sort")

ReadFde ==
  /\ step = "FDE" /\ ~died
  /\ \E f \in {Section.fdes[k]} :
     \E pointer \in {LsdaPointer(f)} :
     \E low \in {LowPc(Section, f, cfi.cies[f.cie].fdePointerEncoding)} :
       IF pointer # {} /\ ~Handled(cfi.cies[f.cie].fdeLSDAPointerEncoding) THEN Die
       ELSE /\ lsdaPointers' = lsdaPointers \o SetToSeq(pointer \ Range(lsdaPointers))
            /\ \E lsda \in IF pointer = {} THEN {NoLsda}
                           ELSE {LsdaIndex(lsdaPointers, p) : p \in pointer} :
                 cfi' = [cfi EXCEPT !.fdes = Append(@, NewFDE(f, k - 1, low, lsda))]
            /\ AfterFde
            /\ UNCHANGED <<parsed, leftover, out, stack, rows, died>>
  /\ UNCHANGED session

\* parseExceptFrame, one LSDA: its pointer must lie in the section.  With the
\* first one the table replaces that of an earlier command.
TableRead(lsdas) ==
  cfi' = [cfi EXCEPT !.exceptTableAddress = elf.eh.exceptTableAddress,
                     !.exceptTable = (IF k = 1 THEN <<>> ELSE @) \o lsdas]

ReadLsda ==
  /\ step = "LSDA" /\ ~died
  /\ IF lsdaPointers = <<>>
       THEN TableRead(<<>>) /\ Next1("sort") /\ UNCHANGED died
       ELSE \E offset \in {(lsdaPointers[k] - elf.eh.exceptTableAddress) % Modulus[8]} :
              IF offset \notin DOMAIN elf.eh.except.at
                THEN died' = TRUE /\ UNCHANGED <<cfi, command, step, k>>
                ELSE /\ \E l \in {parseLSDA(elf.eh.except, offset, elf.eh.exceptTableAddress)} :
                          TableRead(<<l>>)
                     /\ IF k < Len(lsdaPointers) THEN Goto(command, "LSDA", k + 1) ELSE Next1("sort")
                     /\ UNCHANGED died
  /\ UNCHANGED <<session, lsdaPointers, parsed, leftover, out, stack, rows>>

\* Mutant: the last one first.
SortDescending ==
  /\ step = "sort"
  /\ cfi' = [cfi EXCEPT !.fdes =
               SortSeq(@, LAMBDA a, b : Signed(a.lowpc, Modulus[8]) > Signed(b.lowpc, Modulus[8]))]
  /\ Next1(IF command = "info" THEN "rows" ELSE "print")
  /\ UNCHANGED <<session, lsdaPointers, parsed, leftover, out, stack, rows, died>>

\* The FDEs by their locations: they keep their indices.
Sort ==
  /\ step = "sort"
  /\ cfi' = [cfi EXCEPT !.fdes =
               SortSeq(@, LAMBDA a, b : Signed(a.lowpc, Modulus[8]) < Signed(b.lowpc, Modulus[8]))]
  /\ Next1(IF command = "info" THEN "rows" ELSE "print")
  /\ UNCHANGED <<session, lsdaPointers, parsed, leftover, out, stack, rows, died>>

-----------------------------------------------------------------------------
(* Printing (dwarfscriptCommand.cpp) and displaying (fdedump.c).            *)

NoScript == [asked |-> "none"]

EncodingsOf(c) ==
     (IF "R" \in c.flags THEN {c.fdePointerEncoding} ELSE {})
  \cup (IF "L" \in c.flags THEN {c.fdeLSDAPointerEncoding} ELSE {})
  \cup (IF "P" \in c.flags THEN {c.personalityPointerEncoding} ELSE {})

\* An encoding that printEHPointerEncoding does not know is the end.
Printed ==
  /\ \A j \in DOMAIN cfi.cies : \A e \in EncodingsOf(cfi.cies[j]) : Known(e)
  /\ \A j \in DOMAIN cfi.exceptTable : Known(cfi.exceptTable[j].ttEncoding)
  /\ cfi.isEHFrame => Known(cfi.hdrTableEncoding)

\* The file tells which section katana takes it for; asked is the one that
\* was to be emitted.
EmitScript ==
  /\ step = "print" /\ ~died
  /\ IF ~Printed THEN died' = TRUE /\ UNCHANGED <<script, command, step, k>>
     ELSE /\ script' = [asked |-> command, cfi |-> cfi]
          /\ Finish
          /\ UNCHANGED died
  /\ UNCHANGED <<elf, count, cfi, lsdaPointers, parsed, leftover, out, stack, rows>>

\* printFDEInfo: for every address the instructions are evaluated from the
\* first one on, into rules that are kept; where they stop at that address
\* the rules are printed.
RowAt(r, f, pc) ==
  LET e == evaluateInstructionsToRules(f.instrs, r.rules, cfi.cies[f.cie].initialRules,
                                       f.lowpc, pc, r.stack)
      stops == e.loc = pc
  IN  IF ~r.ok THEN r
      ELSE [rules |-> e.rules, stack |-> e.stack,
            ok    |-> e.state # "dead", freed |-> r.freed \/ e.freed,
            rows  |-> IF stops THEN r.rows \cup {[fde |-> f.idx, pc |-> pc, rules |-> printRules(e.rules)]}
                      ELSE r.rows]

RowsOf(f) ==
  FoldLeft(LAMBDA r, pc : RowAt(r, f, pc),
           [rules |-> cfi.cies[f.cie].initialRules, stack |-> stack, ok |-> TRUE,
            freed |-> FALSE, rows |-> {}],
           [j \in 1..(f.highpc - f.lowpc) |-> f.lowpc + j - 1])

\* A name that has been freed may still be there, or not be found.
DisplayFde ==
  /\ step = "rows" /\ ~died
  /\ \E r \in {RowsOf(cfi.fdes[k])} :
     \E found \in {TRUE, ~r.freed} :
       IF ~(r.ok /\ found) THEN died' = TRUE /\ UNCHANGED <<rows, stack, command, step, k>>
       ELSE /\ rows' = rows \cup r.rows
            /\ stack' = r.stack
            /\ IF k < Len(cfi.fdes) THEN Goto(command, "rows", k + 1) ELSE Finish
            /\ UNCHANGED died
  /\ UNCHANGED <<session, cfi, lsdaPointers, parsed, leftover, out>>

-----------------------------------------------------------------------------
(* Parsing (dwarfscript.y).  What is not printed takes its default.         *)

ParsedCIE(c) ==
  [NewCIE(c) EXCEPT
     !.flags = IF c.flags \ {"z"} = {} THEN {} ELSE c.flags \cup {"z"},
     !.fdePointerEncoding = IF "R" \in c.flags THEN c.fdePointerEncoding ELSE @,
     !.fdeLSDAPointerEncoding = IF "L" \in c.flags THEN c.fdeLSDAPointerEncoding ELSE @,
     !.personalityPointerEncoding = IF "P" \in c.flags THEN c.personalityPointerEncoding ELSE @,
     !.personalityFunction = IF "P" \in c.flags THEN SavedInt(c.personalityFunction) ELSE @,
     !.addressSize = IF parsed.isEHFrame THEN 4 ELSE 8]

ParsedLSDA(l) ==
  [l EXCEPT !.typeTable = [j \in DOMAIN l.typeTable |-> SavedInt(l.typeTable[j])]]

\* A file that is read after a parse has failed is not what is parsed: the
\* scanner goes on with the one before, in the middle.
Fail == /\ leftover' = TRUE
        /\ Finish

\* compile: the properties at the top.
Compile ==
  /\ script # NoScript
  /\ \E s \in {script.cfi} :
       parsed' = [NoCfi EXCEPT
         !.isEHFrame = s.isEHFrame, !.ehAddress = SavedInt(s.ehAddress),
         !.ehHdrAddress = IF s.isEHFrame THEN SavedInt(s.ehHdrAddress) ELSE 0,
         !.exceptTableAddress = IF s.isEHFrame THEN SavedInt(s.exceptTableAddress) ELSE 0,
         !.hdrTableEncoding = IF s.isEHFrame THEN s.hdrTableEncoding
                              ELSE Enc("sdata4", "datarel", FALSE)]
  /\ IF leftover
       THEN count < MaxCommands /\ command = "none" /\ count' = count + 1 /\ rows' = {} /\ Fail
       ELSE NewCommand("compile", "parse CIE") /\ UNCHANGED leftover
  /\ UNCHANGED <<elf, script, cfi, lsdaPointers, out, stack, died>>

ParseCie ==
  /\ step = "parse CIE"
  /\ parsed' = [parsed EXCEPT !.cies = Append(@, ParsedCIE(script.cfi.cies[k]))]
  /\ IF k < Len(script.cfi.cies) THEN Goto(command, step, k + 1) ELSE Next1("parse FDE")
  /\ UNCHANGED <<session, cfi, lsdaPointers, leftover, out, stack, rows, died>>

\* FDEs must be listed in the order of their indices.
ParseFde ==
  /\ step = "parse FDE"
  /\ \E f \in {script.cfi.fdes[k]} :
       IF f.idx # Len(parsed.fdes)
         THEN Fail /\ UNCHANGED parsed
         ELSE /\ parsed' = [parsed EXCEPT !.fdes = Append(@, f)]
              /\ IF k < Len(script.cfi.fdes) THEN Goto(command, step, k + 1)
                 ELSE Next1(IF script.cfi.exceptTable = <<>> THEN "build" ELSE "parse LSDA")
              /\ UNCHANGED leftover
  /\ UNCHANGED <<session, cfi, lsdaPointers, out, stack, rows, died>>

ParseLsda ==
  /\ step = "parse LSDA"
  /\ parsed' = [parsed EXCEPT !.exceptTable = Append(@, ParsedLSDA(script.cfi.exceptTable[k]))]
  /\ IF k < Len(script.cfi.exceptTable) THEN Goto(command, step, k + 1) ELSE Next1("build")
  /\ UNCHANGED <<session, cfi, lsdaPointers, leftover, out, stack, rows, died>>

-----------------------------------------------------------------------------
(* Building (buildCallFrameSectionData of callFrameInfo.c).                 *)

Build ==
  /\ step = "build"
  /\ out' = [built |-> FALSE, asked |-> script.asked, isEHFrame |-> parsed.isEHFrame,
             ehAddress |-> parsed.ehAddress, ehHdrAddress |-> parsed.ehHdrAddress,
             exceptTableAddress |-> parsed.exceptTableAddress,
             hdrTableEncoding |-> parsed.hdrTableEncoding,
             cies |-> <<>>, fdes |-> <<>>, len |-> 0, hdr |-> <<>>,
             except |-> Empty, lsdaAt |-> <<>>]
  /\ Next1(IF parsed.isEHFrame /\ parsed.exceptTable # <<>> THEN "build LSDA" ELSE "build CIE")
  /\ UNCHANGED <<session, cfi, lsdaPointers, parsed, leftover, stack, rows, died>>

BuildLsda ==
  /\ step = "build LSDA"
  /\ out' = [out EXCEPT
       !.except = buildLSDA(@, parsed.exceptTable[k], parsed.exceptTableAddress),
       !.lsdaAt = Append(@, parsed.exceptTableAddress + Aligned(out.except.len, 4))]
  /\ IF k < Len(parsed.exceptTable) THEN Goto(command, step, k + 1) ELSE Next1("build CIE")
  /\ UNCHANGED <<session, cfi, lsdaPointers, parsed, leftover, stack, rows, died>>

\* buildCIERawData.  A personality that does not fit four bytes is written
\* as one of eight, with four of them.
LettersOf(flags) == SelectSeq(<<"z", "P", "L", "R">>, LAMBDA letter : letter \in flags)

PersonalityFields(c, address) ==
  IF c.personalityFunction < Modulus[4]
    THEN <<Field(c.personalityPointerEncoding, 1),
           encodeEHPointerFromEncoding(c.personalityFunction, c.personalityPointerEncoding, address)>>
    ELSE <<Field(Enc("udata8", "none", FALSE), 1), Field(c.personalityFunction % Modulus[4], 8)>>

AugFields(c, address) ==
     (IF "P" \in c.flags THEN PersonalityFields(c, address) ELSE <<>>)
  \o (IF "L" \in c.flags THEN <<Field(c.fdeLSDAPointerEncoding, 1)>> ELSE <<>>)
  \o (IF "R" \in c.flags THEN <<Field(c.fdePointerEncoding, 1)>> ELSE <<>>)

\* The length of the augmentation data is left out of the address of the
\* personality, as it is in AugDataAddress.
BuiltCIE(c, off) ==
  [off |-> off, letters |-> LettersOf(c.flags), dataAlign |-> c.dataAlign, instrs |-> c.instrs,
   aug |-> Filled(Empty, AugFields(c, parsed.ehAddress + off
             + AugmentationAt(LettersOf(c.flags), c.dataAlign)))]

BuildCie ==
  /\ step = "build CIE"
  /\ \E c \in {BuiltCIE(parsed.cies[k], out.len)} :
       out' = [out EXCEPT !.cies = Append(@, c),
                          !.len = @ + CieBytes(c, parsed.cies[k].addressSize)]
  /\ IF k < Len(parsed.cies) THEN Goto(command, step, k + 1) ELSE Next1("build FDE")
  /\ UNCHANGED <<session, cfi, lsdaPointers, parsed, leftover, stack, rows, died>>

\* buildFDERawData: the range takes four bytes in .eh_frame, whatever the
\* encoding is.
InitialLocation(f, c, off) ==
  IF parsed.isEHFrame
    THEN encodeEHPointerFromEncoding(f.lowpc, c.fdePointerEncoding, parsed.ehAddress + off + 8)
    ELSE Field(f.lowpc, c.addressSize)

BuiltFDE(f, c, off, initial, range) ==
  [off |-> off, cie |-> f.cie, augLen |-> IF "z" \in c.flags THEN 1 ELSE 0, instrs |-> f.instrs,
   initial |-> initial, range |-> Field((f.highpc - f.lowpc) % Modulus[4], range),
   aug |-> IF "L" \in c.flags /\ f.lsda # NoLsda
             THEN Filled(Empty, <<encodeEHPointerFromEncoding(out.lsdaAt[f.lsda],
                    c.fdeLSDAPointerEncoding, parsed.ehAddress + off + 8 + initial.n + range + 1)>>)
             ELSE Empty]

BuildFde ==
  /\ step = "build FDE"
  /\ \E f \in {parsed.fdes[k]} : \E c \in {parsed.cies[f.cie]} :
     \E b \in {BuiltFDE(f, c, out.len, InitialLocation(f, c, out.len),
                        IF parsed.isEHFrame THEN 4 ELSE c.addressSize)} :
       out' = [out EXCEPT !.fdes = Append(@, b), !.len = @ + FdeBytes(b, c.addressSize)]
  /\ IF k < Len(parsed.fdes) THEN Goto(command, step, k + 1) ELSE Next1("build table")
  /\ UNCHANGED <<session, cfi, lsdaPointers, parsed, leftover, stack, rows, died>>

\* Mutant: an FDE's address is where it is in .eh_frame.
TableEntryByOffset(j) ==
  [initialLocation |-> Signed((parsed.fdes[j].lowpc - parsed.ehHdrAddress) % Modulus[4], Modulus[4]),
   fdeAddress |-> out.fdes[j].off]

\* The table of .eh_frame_hdr: where an FDE's code is and where the FDE is,
\* from the table's section on, sorted by the first.
TableEntry(j) ==
  [initialLocation |-> Signed((parsed.fdes[j].lowpc - parsed.ehHdrAddress) % Modulus[4], Modulus[4]),
   fdeAddress |-> Signed((parsed.ehAddress + out.fdes[j].off - parsed.ehHdrAddress) % Modulus[4],
                         Modulus[4])]

BuildTable ==
  /\ step = "build table"
  /\ out' = [out EXCEPT !.built = TRUE,
       !.hdr = IF parsed.isEHFrame
                 THEN SortSeq([j \in DOMAIN parsed.fdes |-> TableEntry(j)],
                              LAMBDA a, b : a.initialLocation < b.initialLocation)
                 ELSE <<>>]
  /\ Finish
  /\ UNCHANGED <<session, cfi, lsdaPointers, parsed, leftover, stack, rows, died>>

-----------------------------------------------------------------------------
Init ==
  /\ \E b \in Binaries : elf = [program |-> b, eh |-> Compiled(b), debug |-> Compiled(Stripped(b))]
  /\ cfi = NoCfi
  /\ lsdaPointers = <<>>
  /\ script = NoScript
  /\ parsed = NoCfi
  /\ leftover = FALSE
  /\ out = NoSections
  /\ stack = <<>>
  /\ rows = {}
  /\ command = "none" /\ step = "none" /\ k = 1
  /\ count = 0
  /\ died = FALSE

Next == \/ ~died /\ (Emit \/ Info \/ Compile)
        \/ ReadCie \/ ReadFde \/ ReadLsda \/ Sort \/ EmitScript \/ DisplayFde
        \/ ParseCie \/ ParseFde \/ ParseLsda
        \/ Build \/ BuildLsda \/ BuildCie \/ BuildFde \/ BuildTable

Spec == Init /\ [][Next]_vars

-----------------------------------------------------------------------------
(* What the sections mean: to the unwinder, which reads them, and to the    *)
(* compiler.                                                                *)

NoData == [pers |-> 0, lsdaEnc |-> DW_EH_PE_omit, fdeEnc |-> DW_EH_PE_absptr, offset |-> 0]

AugData(s, c) ==
  LET at == s.ehAddress + c.off + AugmentationAt(c.letters, c.dataAlign)
  IN  FoldLeft(LAMBDA r, letter :
        CASE letter = "P" ->
               LET enc == c.aug.at[r.offset].v
               IN  [r EXCEPT !.pers = UnwinderPointer(c.aug.at[r.offset + 1], at + r.offset + 1, enc),
                             !.offset = @ + 1 + getPointerSizeFromEHPointerEncoding(enc)]
          [] letter = "L" -> [r EXCEPT !.lsdaEnc = c.aug.at[r.offset].v, !.offset = @ + 1]
          [] letter = "R" -> [r EXCEPT !.fdeEnc = c.aug.at[r.offset].v, !.offset = @ + 1]
          [] OTHER -> r,
        NoData, c.letters)

\* The types that a chain of actions catches; 0 is any and cleanup is none.
Cleanup == -1

TypesCaught(s, h, o) ==
  LET n == getPointerSizeFromEHPointerEncoding(h.ttEncoding)
      Type(filter) ==
        IF filter = 0 THEN Cleanup
        ELSE UnwinderPointer(s.except.at[h.ttBase - filter * n],
                             s.exceptTableAddress + h.ttBase - filter * n, h.ttEncoding)
      from[p \in Nat] ==
        LET a == ActionAt(s.except, h.actions, p)
        IN  <<Type(a.filter + 1)>> \o (IF a.next = NoAction THEN <<>> ELSE from[a.next])
  IN  from[o]

SitesAt(s, offset) ==
  LET h     == Header(s.except, offset)
      sites == readCallSiteTable(s.except, h.sites, h.actions, h.format, s.exceptTableAddress)
  IN  [j \in DOMAIN sites |->
         [position |-> sites[j][1], length |-> sites[j][2], pad |-> sites[j][3],
          types |-> IF sites[j][4] = 0 THEN <<>> ELSE TypesCaught(s, h, sites[j][4] - 1)]]

UnwoundFde(s, f, data) ==
  [low |-> LowPc(s, f, data.fdeEnc), range |-> f.range, pers |-> data.pers, instrs |-> f.instrs,
   initial |-> s.cies[f.cie].instrs,
   sites |-> IF "L" \notin Range(s.cies[f.cie].letters) THEN <<>>
             ELSE SitesAt(s, UnwinderPointer(f.aug.at[0], s.ehAddress + f.off + FdeAugmentationAt(f),
                                             data.lsdaEnc) - s.exceptTableAddress)]

Unwound(s) == [j \in DOMAIN s.fdes |-> UnwoundFde(s, s.fdes[j], AugData(s, s.cies[s.fdes[j].cie]))]

\* The same from what the compiler knows.
CompilerTypes(l, action) ==
  LET from[a \in Int] ==
        IF a = NoAction THEN <<>>
        ELSE <<IF l.actionTable[a + 1].typeFilterIndex = TYPE_IDX_MATCH_ALL THEN Cleanup
               ELSE l.typeTable[l.actionTable[a + 1].typeFilterIndex + 1]>>
               \o from[l.actionTable[a + 1].nextAction]
  IN  from[action]

Meaning(b) ==
  [j \in DOMAIN b.fdes |->
     LET f == b.fdes[j]
         c == b.cies[f.cie]
     IN  [low |-> f.low, instrs |-> f.instrs, initial |-> c.instrs,
          range |-> Field(f.high - f.low, getPointerSizeFromEHPointerEncoding(FdeEncoding(c))),
          pers |-> IF "P" \in Range(c.letters) THEN c.pers ELSE 0,
          sites |-> IF f.lsda = 0 THEN <<>>
                    ELSE [i \in DOMAIN b.lsdas[f.lsda].callSiteTable |->
                            LET site == b.lsdas[f.lsda].callSiteTable[i]
                            IN  [position |-> site.position, length |-> site.length,
                                 pad |-> site.landingPadPosition,
                                 types |-> CompilerTypes(b.lsdas[f.lsda], site.firstAction)]]]]

-----------------------------------------------------------------------------
(* What katana is known not to handle: see the README.                      *)

InOrder(b) == \A i, j \in DOMAIN b.fdes : i < j => b.fdes[i].low < b.fdes[j].low

\* Signal frames, whose letter has no data, and FDEs without the LSDA that
\* their CIE says they have.
SignalFrames(b) == \E j \in DOMAIN b.cies : "S" \in Range(b.cies[j].letters)

NullLsda(b) == \E j \in DOMAIN b.fdes : b.fdes[j].lsda = 0 /\ "L" \in Range(b.cies[b.fdes[j].cie].letters)

\* Pointers from the types' table to itself: more than one, or a null one.
RelativeTypes(b) ==
  \E j \in DOMAIN b.lsdas : /\ b.lsdas[j].ttEncoding.application = "pcrel"
                            /\ Len(b.lsdas[j].typeTable) > 1 \/ 0 \in Range(b.lsdas[j].typeTable)

\* FDEs with addresses of other than four bytes.
WideFdes(b) ==
  \E j \in DOMAIN b.cies : getPointerSizeFromEHPointerEncoding(FdeEncoding(b.cies[j])) # 4

\* A number in an FDE that looks like its augmentation data; only if all
\* else is well does that matter.
Lookalike(s) ==
  \E j \in DOMAIN s.fdes : /\ s.fdes[j].aug.len > 0
                           /\ AugDataOffset(s.fdes[j], s.cies[s.fdes[j].cie].off)
                                # s.fdes[j].off + FdeAugmentationAt(s.fdes[j])

\* An exception table before .eh_frame.
TableBefore(b) == b.lsdas # <<>> /\ b.exceptTableAddress < b.ehAddress

\* Instructions that the machine does not evaluate, and restored registers,
\* whose initial rule it may not find.
Undisplayable(b) ==
  \E j \in DOMAIN b.fdes : \E i \in DOMAIN b.fdes[j].instrs :
    LET in == b.fdes[j].instrs[i]
    IN  in.type \in Unexpected \cup Asserting \cup {"restore"}

-----------------------------------------------------------------------------
(* Properties.                                                              *)

\* Sections that were built from the dwarfscript of .eh_frame tell the
\* unwinder what the compiler's told it: for every function where to find
\* its caller's registers, which personality routine to call, and where each
\* of its calls lands for which exceptions.
SameUnwinding ==
  (command = "none" /\ out.built /\ out.asked = "emit .eh_frame") =>
    \/ RelativeTypes(elf.program) \/ WideFdes(elf.program) \/ Lookalike(elf.eh)
    \/ Unwound(out) = Meaning(elf.program)

\* The table of .eh_frame_hdr, which the unwinder searches by halving, leads
\* from every address of a function to its FDE.
EntryFor(pc) ==
  LET below == {j \in DOMAIN out.hdr : out.hdr[j].initialLocation <= pc - out.ehHdrAddress}
  IN  out.hdr[CHOOSE j \in below : \A i \in below : i <= j]

HeaderFindsFdes ==
  (command = "none" /\ out.built /\ out.isEHFrame /\ out.asked = "emit .eh_frame") =>
    /\ \A i, j \in DOMAIN out.hdr : i < j => out.hdr[i].initialLocation < out.hdr[j].initialLocation
    /\ \A j \in DOMAIN out.fdes :
         LET f   == out.fdes[j]
             low == parsed.fdes[j].lowpc
         IN  \A pc \in low..(low + f.range.v - 1) :
               EntryFor(pc).fdeAddress + out.ehHdrAddress = out.ehAddress + f.off

\* What katana emits it compiles, in whatever session: a compilation fails
\* only where the functions are not in the order of their addresses, and, of
\* those katana does not know how to handle, only such programs end it.
CompilesWhatItEmits ==
  /\ leftover => ~InOrder(elf.program)
  /\ died => \/ SignalFrames(elf.program) \/ NullLsda(elf.program) \/ TableBefore(elf.program)
             \/ Lookalike(elf.eh)
             \/ command = "info" /\ Undisplayable(elf.program)

\* The rules that are displayed for an address are those that hold there,
\* although each evaluation goes on with the rules of the ones before; but
\* not for a register whose rule is only set between DW_CFA_remember_state
\* and DW_CFA_restore_state.
RowsAreTheTable ==
  \A row \in rows :
    LET f == elf.program.fdes[row.fde + 1]
        initial == DwarfRules(elf.program.cies[f.cie].instrs, NoRules, 0, 0)
        rules == DwarfRules(f.instrs, initial, f.low, row.pc)
    IN  \A r \in DOMAIN rules \ NotPutBack(f.instrs) : row.rules[r] = printRules(rules)[r]
=============================================================================
