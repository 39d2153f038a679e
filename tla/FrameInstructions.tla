--------------------------- MODULE FrameInstructions ---------------------------
(***************************************************************************)
(* Call frame instructions on their way through katana: the bytes of an    *)
(* FDE are parsed (fderead.c), printed as dwarfscript (dwarf_instr.c),     *)
(* compiled again (dwarfscript.y), serialized (dwarf_instr.c), put back in *)
(* the ELF file with padding (callFrameInfo.c) and, by the next katana,    *)
(* parsed.  tests/dwarf/identity goes this way.                            *)
(*                                                                         *)
(* An instruction is a record: its opcode, its operands that are numbers   *)
(* or registers, and its expression, a sequence of operations with one     *)
(* operand each (0 for those that have none).  Words of 64 bits are taken  *)
(* as signed.  Tables give the operands each side sees, by their encoding. *)
(***************************************************************************)
EXTENDS Leb128

CONSTANTS Programs,   \* the instructions that compilers write, in FDEs
          MaxPadding  \* the most nops that fill up an FDE

VARIABLES
  stage,    \* what katana does next
  program,  \* the compiler's instructions
  bytes,    \* the instructions of the FDE in the ELF file
  pos,      \* parseFDEInstructions: where it has come to in them
  instrs,   \* the RegInstructions, as parsed or compiled
  first,    \* those that the first katana parsed
  died      \* the stage that ended in a death, an assertion or an error,
            \* or that came upon bytes beyond the FDE's or numbers beyond
            \* MaxNumber, where the model does not follow it

vars == <<stage, program, bytes, pos, instrs, first, died>>

-----------------------------------------------------------------------------
CFA == [nop |-> 0, set_loc |-> 1, advance_loc1 |-> 2, advance_loc2 |-> 3,
        advance_loc4 |-> 4, offset_extended |-> 5, restore_extended |-> 6,
        undefined |-> 7, same_value |-> 8, register |-> 9,
        remember_state |-> 10, restore_state |-> 11, def_cfa |-> 12,
        def_cfa_register |-> 13, def_cfa_offset |-> 14,
        def_cfa_expression |-> 15, expression |-> 16,
        offset_extended_sf |-> 17, def_cfa_sf |-> 18, def_cfa_offset_sf |-> 19,
        val_offset |-> 20, val_offset_sf |-> 21, val_expression |-> 22,
        GNU_args_size |-> 46, advance_loc |-> 64, offset |-> 128, restore |-> 192]

Instr(op, args, expr) == [op |-> op, args |-> args, expr |-> expr]

Opcodes == { CFA[name] : name \in DOMAIN CFA }

(* What follows the opcode by the DWARF standard.                          *)
Operands(op) ==
  CASE op = CFA.set_loc -> <<"s8">>
    [] op = CFA.advance_loc1 -> <<"u1">>
    [] op = CFA.advance_loc2 -> <<"u2">>
    [] op = CFA.advance_loc4 -> <<"u4">>
    [] op \in {CFA.offset, CFA.def_cfa_offset, CFA.GNU_args_size} -> <<"uleb">>
    [] op = CFA.def_cfa_offset_sf -> <<"sleb">>
    [] op \in {CFA.undefined, CFA.same_value, CFA.def_cfa_register,
               CFA.restore_extended} -> <<"reg">>
    [] op = CFA.register -> <<"reg", "reg">>
    [] op \in {CFA.def_cfa, CFA.offset_extended, CFA.val_offset} -> <<"reg", "uleb">>
    [] op \in {CFA.def_cfa_sf, CFA.offset_extended_sf, CFA.val_offset_sf} -> <<"reg", "sleb">>
    [] op \in {CFA.expression, CFA.val_expression} -> <<"reg", "block">>
    [] op = CFA.def_cfa_expression -> <<"block">>
    [] OTHER -> << >>

(* What parseFDEInstructions reads there.  The second operand of           *)
(* offset_extended and of its signed form is read without stepping over    *)
(* it, set_loc is taken for four bytes and advance_loc2 for one of its two.*)
NotHandled == {CFA.restore_extended, CFA.def_cfa_sf, CFA.val_offset, CFA.val_offset_sf}

ReadOperands(op) ==
  CASE op \in NotHandled \/ op \notin Opcodes -> <<"unsupported">>
    [] op = CFA.set_loc -> <<"u4">>
    [] op = CFA.advance_loc2 -> <<"u1 of u2">>
    [] op = CFA.offset -> <<"uword">>
    [] op = CFA.offset_extended -> <<"reg", "uword, not passed">>
    [] op = CFA.offset_extended_sf -> <<"reg", "sword, not passed">>
    [] OTHER -> Operands(op)

(* What addInstruction writes of the operands that                         *)
(* regInstructionToRawDwarfInstruction has encoded.                        *)
WrittenOperands(op) ==
  CASE op = CFA.set_loc \/ op \in NotHandled \ {CFA.restore_extended} -> <<"unsupported">>
    [] op = CFA.same_value -> << >>
    [] op = CFA.offset -> <<"int">>
    [] OTHER -> Operands(op)

(* The operations of expressions, and how the operand of each is encoded.  *)
OP == [addr |-> 3, const1u |-> 8, const1s |-> 9, const2u |-> 10, const2s |-> 11,
       const4u |-> 12, const4s |-> 13, const8u |-> 14, const8s |-> 15,
       constu |-> 16, consts |-> 17, pick |-> 21, plus_uconst |-> 35,
       bra |-> 40, skip |-> 47, fbreg |-> 145, deref_size |-> 148,
       xderef_size |-> 149]

Breg == 112..143

WithoutOperand == ({6} \cup 18..46 \cup 48..111 \cup 150..151 \cup 155..156)
                    \ {OP.pick, OP.plus_uconst, OP.bra}

OpOperand(op) ==
  CASE op \in {OP.const1u, OP.pick, OP.deref_size, OP.xderef_size} -> "u1"
    [] op = OP.const1s -> "s1"
    [] op = OP.const2u -> "u2"
    [] op \in {OP.const2s, OP.skip, OP.bra} -> "s2"
    [] op = OP.const4u -> "u4"
    [] op = OP.const4s -> "s4"
    [] op \in {OP.addr, OP.const8u, OP.const8s} -> "s8"
    [] op \in {OP.constu, OP.plus_uconst} -> "uleb"
    [] op \in {OP.consts, OP.fbreg} \cup Breg -> "sleb"
    [] op \in WithoutOperand -> "none"
    [] OTHER -> "unsupported"

-----------------------------------------------------------------------------
Width == [u1 |-> 1, u2 |-> 2, u4 |-> 4, s1 |-> 1, s2 |-> 2, s4 |-> 4, s8 |-> 8]
Signed == {"s1", "s2", "s4", "s8"}

WithNext(r, p) == [r EXCEPT !.next = p]

(* A register number whose low byte is that of the registers of patches is *)
(* not expected in an ordinary FDE.                                        *)
ReadRegister(r) == IF r.err = "none" /\ r.val % 256 >= 240 THEN Err("assertion") ELSE r

(* A number at p, read as its kind says.                                   *)
ReadNumber(kind, s, p) ==
  CASE kind \in DOMAIN Width -> ReadFixed(s, p, Width[kind], kind \in Signed)
    [] kind = "u1 of u2" -> WithNext(ReadFixed(s, p, 1, FALSE), p + 2)
    [] kind = "reg" -> ReadRegister(Decode(s, p, FALSE, 7))
    [] kind = "uleb" -> Decode(s, p, FALSE, 4)
    [] kind = "sleb" -> Decode(s, p, TRUE, 4)
    [] kind = "uword" -> Decode(s, p, FALSE, 8)
    [] kind = "uword, not passed" -> WithNext(Decode(s, p, FALSE, 8), p)
    [] kind = "sword, not passed" -> WithNext(Decode(s, p, TRUE, 8), p)
    [] kind = "none" -> Got(0, p)
    [] OTHER -> Err("death")

(* parseDwarfExpression copies the bytes of a decoded operand into a word  *)
(* of zeros: a negative one loses its sign.                                *)
LoseSign(r, s, p) ==
  IF r.val >= 0 THEN r
  ELSE [r EXCEPT !.val = @ + 256^NumBytes(r.next - p, s[r.next - 1], TRUE)]

ReadOpNumber(op, s, p) ==
  CASE OpOperand(op) = "sleb" -> LoseSign(Decode(s, p, TRUE, 8), s, p)
    [] OpOperand(op) = "uleb" -> Decode(s, p, FALSE, 8)
    [] OTHER -> ReadNumber(OpOperand(op), s, p)

(* The operations from p up to end, and the one at so.next.                *)
Beyond(so) == [so EXCEPT !.err = "beyond"]

AddOperation(so, op, r) ==
  [expr |-> Append(so.expr, [op |-> op, arg |-> r.val]), next |-> r.next, err |-> r.err]

ReadOperation(so, s, end) ==
  CASE so.err # "none" \/ so.next = end -> so
    [] so.err = "none" /\ (so.next > end \/ (so.next < end /\ so.next > Len(s))) -> Beyond(so)
    [] OTHER -> AddOperation(so, s[so.next], ReadOpNumber(s[so.next], s, so.next + 1))

ReadExpression(s, p, end) ==
  LET most == IF end <= Len(s) + 1 THEN end - p ELSE Len(s) + 1
      parse[k \in 0..most] ==
        IF k = 0 THEN [expr |-> << >>, next |-> p, err |-> "none"]
        ELSE ReadOperation(parse[k - 1], s, end)
      whole(e) == IF e.err = "none" /\ e.next # end THEN Beyond(e) ELSE e
  IN whole(parse[most])

(* An operand after what so has of the instruction.                        *)
AddNumber(so, r) == [so EXCEPT !.args = Append(@, r.val), !.next = r.next, !.err = r.err]

AddBlock(so, s, n) ==
  IF n.err # "none" THEN [so EXCEPT !.err = n.err]
  ELSE ReadExpression(s, n.next, n.next + n.val) @@ so

ReadOperand(so, kind, s) ==
  CASE so.err # "none" -> so
    [] so.err = "none" /\ kind = "block" -> AddBlock(so, s, Decode(s, so.next, FALSE, 4))
    [] OTHER -> AddNumber(so, ReadNumber(kind, s, so.next))

(* One turn of the loop of parseFDEInstructions.                           *)
ReadInstruction(s, p) ==
  LET high == s[p] - (s[p] % 64)
      start == [op |-> IF high # 0 THEN high ELSE s[p],
                args |-> IF high # 0 THEN <<s[p] % 64>> ELSE << >>,
                expr |-> << >>, next |-> p + 1, err |-> "none"]
      kinds == ReadOperands(start.op)
      operands[k \in 0..Len(kinds)] ==
        IF k = 0 THEN start ELSE ReadOperand(operands[k - 1], kinds[k], s)
  IN operands[Len(kinds)]

-----------------------------------------------------------------------------
WriteNumber(kind, v) ==
  CASE kind \in DOMAIN Width -> Fixed(v, Width[kind])
    [] kind = "reg" -> UintToLeb(v)
    [] kind = "uleb" -> Encode(v, 8, FALSE)
    [] kind = "sleb" -> Encode(v, 8, TRUE)
    [] kind = "int" -> IntToLeb(v)
    [] OTHER -> << >>

(* encodeDwarfExprAsFormBlock                                              *)
FormBlock(expr) ==
  LET operations == [k \in DOMAIN expr |->
                       <<expr[k].op>> \o WriteNumber(OpOperand(expr[k].op), expr[k].arg)]
      data == FlattenSeq(operations)
  IN UintToLeb(Len(data)) \o data

(* The bytes of an instruction i whose operands are as the table says.     *)
Written(i, kinds) ==
  LET inOpcode == IF i.op >= 64 THEN 1 ELSE 0
      operands == [k \in DOMAIN kinds |->
                     IF kinds[k] = "block" THEN FormBlock(i.expr)
                     ELSE WriteNumber(kinds[k], i.args[k + inOpcode])]
  IN <<i.op + IF inOpcode = 1 THEN i.args[1] ELSE 0>> \o FlattenSeq(operands)

Serialized(is) ==
  FlattenSeq([k \in DOMAIN is |-> Written(is[k], WrittenOperands(is[k].op))])

(* What the compiler wrote.                                                *)
Compiled(is) ==
  FlattenSeq([k \in DOMAIN is |-> Written(is[k], Operands(is[k].op))])

-----------------------------------------------------------------------------
(* What becomes of an operation that is printed and parsed.  The operand   *)
(* of plus_uconst is printed and not expected, fbreg is not implemented:   *)
(* syntax errors.                                                          *)
OpIsParsed(o) == o.op \notin {OP.fbreg, OP.plus_uconst}

(* A jump is printed as an unsigned word, and a negative one is more than  *)
(* strtol can return.                                                      *)
OpFromScript(o) ==
  IF o.op \in {OP.skip, OP.bra} /\ o.arg < 0 THEN [o EXCEPT !.arg = -1] ELSE o

(* What becomes of an instruction.  printInstruction prints the register   *)
(* of undefined from a field that is not set, and the signed form of       *)
(* def_cfa_offset by the name of the other, which takes no negative number.*)
IsPrinted(i) == i.op # CFA.same_value

IsParsed(i) == /\ i.op = CFA.def_cfa_offset_sf => i.args[1] >= 0
               /\ \A k \in DOMAIN i.expr : OpIsParsed(i.expr[k])

(* Mutant of FromScript: makeBasicRegister1 sets no arg1, which restore is *)
(* written from.                                                           *)
FromScriptUnset(i) ==
  [i EXCEPT !.op = IF @ = CFA.def_cfa_offset_sf THEN CFA.def_cfa_offset ELSE @,
            !.args = IF i.op \in {CFA.undefined, CFA.restore} THEN <<0>> ELSE @,
            !.expr = [k \in DOMAIN @ |-> OpFromScript(@[k])]]

FromScript(i) ==
  [i EXCEPT !.op = IF @ = CFA.def_cfa_offset_sf THEN CFA.def_cfa_offset ELSE @,
            !.args = IF i.op = CFA.undefined THEN <<0>> ELSE @,
            !.expr = [k \in DOMAIN @ |-> OpFromScript(@[k])]]

All(P(_), s) == \A k \in DOMAIN s : P(s[k])

-----------------------------------------------------------------------------
Init ==
  /\ stage = "assembling"
  /\ program \in Programs
  /\ bytes = << >>
  /\ pos = 1
  /\ instrs = << >>
  /\ first = << >>
  /\ died = "no"

(* The compiler writes the FDE.                                            *)
Assemble ==
  /\ stage = "assembling"
  /\ bytes' = Compiled(program)
  /\ stage' = "reading"
  /\ UNCHANGED <<program, pos, instrs, first, died>>

Die == /\ stage' = "dead"
       /\ died' = stage
       /\ UNCHANGED <<program, bytes, pos, instrs, first>>

(* Mutant of Read: nops are counted.                                       *)
ReadNopsToo ==
  /\ stage \in {"reading", "rereading"}
  /\ pos <= Len(bytes)
  /\ \E r \in {ReadInstruction(bytes, pos)} :
     \/ r.err # "none" /\ Die
     \/ /\ r.err = "none"
        /\ instrs' = Append(instrs, Instr(r.op, r.args, r.expr))
        /\ pos' = r.next
        /\ UNCHANGED <<stage, program, bytes, first, died>>

(* The loop of parseFDEInstructions: nops leave nothing.                   *)
Read ==
  /\ stage \in {"reading", "rereading"}
  /\ pos <= Len(bytes)
  /\ \E r \in {ReadInstruction(bytes, pos)} :
     \/ r.err # "none" /\ Die
     \/ /\ r.err = "none"
        /\ instrs' = IF r.op = CFA.nop THEN instrs
                     ELSE Append(instrs, Instr(r.op, r.args, r.expr))
        /\ pos' = r.next
        /\ UNCHANGED <<stage, program, bytes, first, died>>

HaveRead ==
  /\ stage \in {"reading", "rereading"}
  /\ pos > Len(bytes)
  /\ stage' = IF stage = "reading" THEN "printing" ELSE "done"
  /\ first' = IF stage = "reading" THEN instrs ELSE first
  /\ UNCHANGED <<program, bytes, pos, instrs, died>>

(* printInstruction for each                                               *)
PrintScript ==
  /\ stage = "printing"
  /\ \/ ~All(IsPrinted, instrs) /\ Die
     \/ /\ All(IsPrinted, instrs)
        /\ stage' = "compiling"
        /\ UNCHANGED <<program, bytes, pos, instrs, first, died>>

Compile ==
  /\ stage = "compiling"
  /\ \/ ~All(IsParsed, instrs) /\ Die
     \/ /\ All(IsParsed, instrs)
        /\ instrs' = [k \in DOMAIN instrs |-> FromScript(instrs[k])]
        /\ stage' = "serializing"
        /\ UNCHANGED <<program, bytes, pos, first, died>>

(* serializeDwarfRegInstructions and the padding of buildFDERawData        *)
IsWritten(i) == WrittenOperands(i.op) # <<"unsupported">>

Serialize ==
  /\ stage = "serializing"
  /\ \/ ~All(IsWritten, instrs) /\ Die
     \/ /\ All(IsWritten, instrs)
        /\ \E n \in 0..MaxPadding :
             bytes' = Serialized(instrs) \o [k \in 1..n |-> CFA.nop]
        /\ stage' = "rereading"
        /\ pos' = 1
        /\ instrs' = << >>
        /\ UNCHANGED <<program, first, died>>

Next == Assemble \/ Read \/ HaveRead \/ PrintScript \/ Compile \/ Serialize

Spec == Init /\ [][Next]_vars

-----------------------------------------------------------------------------
Stages == {"assembling", "reading", "printing", "compiling", "serializing", "rereading"}

(* The variables have their types.                                         *)
TypeOK ==
  /\ stage \in Stages \cup {"done", "dead"}
  /\ \A k \in DOMAIN program : program[k].op \in Opcodes
  /\ \A k \in DOMAIN bytes : bytes[k] \in 0..255
  /\ pos \in Nat
  /\ \A is \in {instrs, first} : \A k \in DOMAIN is :
        is[k].op \in Opcodes \ NotHandled
  /\ died \in Stages \cup {"no"}
  /\ (stage = "dead") = (died # "no")

(* Instructions parseFDEInstructions reads as they are meant.              *)
OpUnderstood(o) == o.op \in {OP.consts, OP.fbreg} \cup Breg => o.arg >= 0

Understood(i) ==
  /\ i.op \notin NotHandled \cup {CFA.set_loc, CFA.offset_extended, CFA.offset_extended_sf}
  /\ i.op = CFA.advance_loc2 => i.args[1] < 256
  /\ All(OpUnderstood, i.expr)

IsNotNop(i) == i.op # CFA.nop

(* The first reading yields the program the compiler wrote, without its    *)
(* nops, unless it uses what parseFDEInstructions is known not to          *)
(* understand: no operand is taken for an instruction, no instruction for  *)
(* an operand, and no number loses bits or its sign.                       *)
ReadsTheProgram ==
  All(Understood, program) =>
    /\ died # "reading"
    /\ stage \notin {"assembling", "reading"} => first = SelectSeq(program, IsNotNop)

(* Instructions that come back from dwarfscript, as it is and not as it    *)
(* should be.                                                              *)
OpSurvives(o) == OpIsParsed(o) /\ OpFromScript(o) = o

Survives(i) ==
  /\ i.op \notin {CFA.same_value, CFA.set_loc, CFA.offset_extended, CFA.offset_extended_sf,
                  CFA.def_cfa_offset_sf}
  /\ i.op = CFA.undefined => i.args[1] = 0
  /\ i.op = CFA.advance_loc2 => i.args[1] < 256
  /\ All(OpSurvives, i.expr)

(* tests/dwarf/identity, for every instruction instead of those of one     *)
(* test program: whatever the first katana has parsed, rightly or not, can *)
(* be printed, compiled and serialized, and the second parses the same,    *)
(* unless there is an instruction among them that is known not to survive. *)
Identity ==
  died # "reading" /\ All(Survives, first) =>
    /\ died = "no"
    /\ stage = "done" => instrs = first
===============================================================================
