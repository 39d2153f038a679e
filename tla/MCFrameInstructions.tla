-------------------------- MODULE MCFrameInstructions --------------------------
(***************************************************************************)
(* One or two instructions in every FDE: each instruction of DWARF 4, with *)
(* operands on both sides of the boundaries of its encodings, and each     *)
(* group of operations of expressions.  Two suffice for a misread operand  *)
(* to be taken for an instruction with operands.                           *)
(***************************************************************************)
EXTENDS FrameInstructions

I(op, args) == Instr(op, args, << >>)
Op(op, arg) == [op |-> op, arg |-> arg]

MCUnsigned == {0, 8, 63, 64, 127, 128, 255, 256, 16384}
MCSigned == {-65, -64, -1, 0, 63, 64, 8191}

(* What linkers write for the procedure linkage table: breg7 8, breg16 0,  *)
(* lit15, and, lit11, ge, lit3, shl, plus.                                 *)
PltExpression ==
  <<Op(112 + 7, 8), Op(112 + 16, 0), Op(48 + 15, 0), Op(26, 0), Op(48 + 11, 0),
    Op(42, 0), Op(48 + 3, 0), Op(36, 0), Op(34, 0)>>

MCExpressions ==
  { << >>, <<Op(6, 0)>>, <<Op(48, 0), Op(112 + 7, 8), Op(34, 0)>>, PltExpression }
  \cup { <<Op(112 + 6, n), Op(6, 0)>> : n \in {-128, -65, -64, -1, 0, 63, 64, 100} }
  \cup { <<Op(OP[name], n)>> : name \in {"const1u", "pick", "deref_size"}, n \in {0, 255} }
  \cup { <<Op(OP[name], n), Op(6, 0)>> : name \in {"const1s", "const2s", "const4s", "const8s",
                                                   "bra", "skip", "consts", "fbreg"},
                                          n \in {-128, -1, 0, 100} }
  \cup { <<Op(OP[name], n)>> : name \in {"addr", "const4u", "const8u", "constu", "plus_uconst"},
                               n \in {0, 127, 128, 70000} }

MCInstrs ==
  { I(CFA[name], << >>) : name \in {"nop", "remember_state", "restore_state"} }
  \cup { I(CFA[name], <<n>>) : name \in {"advance_loc", "restore"}, n \in {0, 63} }
  \cup { I(CFA.advance_loc1, <<n>>) : n \in {0, 255} }
  \cup { I(CFA.advance_loc2, <<n>>) : n \in {0, 255, 256} }
  \cup { I(CFA.advance_loc4, <<n>>) : n \in {0, 2^24 + 1} }
  \cup { I(CFA.set_loc, <<n>>) : n \in {0, 70000} }
  \cup { I(CFA.offset, <<r, n>>) : r \in {0, 63}, n \in MCUnsigned }
  \cup { I(CFA[name], <<n>>) : name \in {"def_cfa_offset", "GNU_args_size"}, n \in MCUnsigned }
  \cup { I(CFA.def_cfa_offset_sf, <<n>>) : n \in MCSigned }
  \cup { I(CFA[name], <<r>>) : name \in {"undefined", "same_value", "def_cfa_register",
                                         "restore_extended"}, r \in {0, 66, 128} }
  \cup { I(CFA.register, <<r, q>>) : r \in {0, 66}, q \in {7, 128} }
  \cup { I(CFA[name], <<16, n>>) : name \in {"def_cfa", "offset_extended", "val_offset"},
                                   n \in MCUnsigned }
  \cup { I(CFA[name], <<16, n>>) : name \in {"def_cfa_sf", "offset_extended_sf", "val_offset_sf"},
                                   n \in MCSigned }
  \cup { Instr(CFA.def_cfa_expression, << >>, e) : e \in MCExpressions }
  \cup { Instr(CFA[name], <<16>>, e) : name \in {"expression", "val_expression"},
                                       e \in { <<Op(48, 0)>>, <<Op(OP.const2s, -2), Op(6, 0)>> } }

MCPrograms == { <<i>> : i \in MCInstrs } \cup { <<i, j>> : i, j \in MCInstrs }
===============================================================================
