--------------------------- MODULE MCFrameSections ---------------------------
(***************************************************************************)
(* Instance for TLC: programs of one to three functions.  Addresses are    *)
(* numbers below 4096, words of four bytes those modulo 8192 and words of  *)
(* eight bytes those modulo 2^25.                                          *)
(***************************************************************************)
EXTENDS FrameSections

MCModulus == (2 :> 1024) @@ (4 :> 8192) @@ (8 :> 8192 * 4096)

MCRegisters == {"rbx", "rbp", "rsp", "ra"}

I(type, reg, other, offset, by) ==
  [type |-> type, reg |-> reg, other |-> other, offset |-> offset, by |-> by]

advance(n)      == I("advance_loc", "none", "none", 0, n)
DefCfa(r, n)    == I("def_cfa", "none", r, n, 0)
DefCfaReg(r)    == I("def_cfa_register", "none", r, 0, 0)
DefCfaOffset(n) == I("def_cfa_offset", "none", "none", n, 0)
SaveAt(r, n)    == I("offset", r, "none", n, 0)
RestoreReg(r)   == I("restore", r, "none", 0, 0)
remember        == I("remember_state", "none", "none", 0, 0)
restore         == I("restore_state", "none", "none", 0, 0)

Initial == <<DefCfa("rsp", 8), SaveAt("ra", -8)>>

Bodies ==
  << <<advance(1), DefCfaOffset(16), SaveAt("rbp", -16), advance(3), DefCfaReg("rbp"),
       advance(4), DefCfa("rsp", 8)>>,
     <<advance(2), DefCfa("rsp", 16), SaveAt("rbx", -16), advance(1), remember, advance(2),
       DefCfaOffset(8), advance(1), restore, advance(2), RestoreReg("ra")>>,
     <<remember, advance(1), SaveAt("rbx", -16), DefCfaOffset(24), advance(1), restore>>,
     <<advance(1), RestoreReg("rbx")>>,
     <<advance(2), I("same_value", "rbx", "none", 0, 0)>> >>

sdata4rel == Enc("sdata4", "pcrel", FALSE)
indirect  == Enc("sdata4", "pcrel", TRUE)
udata4    == Enc("udata4", "none", FALSE)
sorted4   == Enc("sdata4", "datarel", FALSE)

Cie(letters, fdeEnc, lsdaEnc, persEnc) ==
  [letters |-> letters, dataAlign |-> -8, fdeEnc |-> fdeEnc, lsdaEnc |-> lsdaEnc,
   persEnc |-> persEnc, pers |-> 2560, instrs |-> Initial]

C    == Cie(<<"z", "R">>, sdata4rel, udata4, udata4)
Cpp  == Cie(<<"z", "P", "L", "R">>, sdata4rel, sdata4rel, indirect)
CppA == Cie(<<"z", "P", "L", "R">>, udata4, udata4, DW_EH_PE_absptr)
Sig  == Cie(<<"z", "R", "S">>, sdata4rel, udata4, udata4)
Old  == Cie(<<>>, udata4, udata4, udata4)

Fde(cie, low, high, lsda, body) ==
  [cie |-> cie, low |-> low, high |-> high, lsda |-> lsda, instrs |-> Bodies[body]]

Lsda(enc, sites, actions, types) ==
  [ttEncoding |-> enc, callSiteTable |-> sites, actionTable |-> actions, typeTable |-> types]

\* catch (A), catch (...) and a cleanup, with chains that share their ends.
Chains  == <<Action(0, NoAction), Action(1, 0), Action(TYPE_IDX_MATCH_ALL, NoAction), Action(1, 2)>>
Calls   == <<CallSite(2, 3, 9, 1), CallSite(5, 1, 0, NoAction), CallSite(6, 130, 200, 3),
             CallSite(7, 1, 10, 0)>>
Cleanups == <<Action(TYPE_IDX_MATCH_ALL, NoAction)>>
One     == <<Action(TYPE_IDX_MATCH_ALL, NoAction), Action(0, 0)>>

OneCall == <<CallSite(0, 4, 0, NoAction), CallSite(4, 2, 11, 1)>>

Absolute  == Lsda(udata4, Calls, Chains, <<2564, 0>>)
Relative  == Lsda(indirect, OneCall, One, <<2568>>)
Relatives == Lsda(indirect, Calls, Chains, <<2564, 2568>>)
NoTypes   == Lsda(DW_EH_PE_omit, <<CallSite(1, 2, 8, 0)>>, Cleanups, <<>>)
\* Enough types to bring the offset to their end to 127 and beyond.
Many(n)   == Lsda(udata4, OneCall, One, [j \in 1..n |-> 2560 + 4 * j])

Program(cies, fdes, lsdas) ==
  [ehAddress |-> 1088, ehHdrAddress |-> 1024, exceptTableAddress |-> 1600,
   hdrTableEncoding |-> sorted4, cies |-> cies, fdes |-> fdes, lsdas |-> lsdas]

Two(lsda1, lsda2, cpp) ==
  Program(<<C, cpp>>, <<Fde(1, 256, 264, 0, 1), Fde(2, 264, 276, 1, 2), Fde(2, 277, 290, 2, 1)>>,
          <<lsda1, lsda2>>)

\* A function as long as its LSDA is far away.
Far == [Program(<<Cpp>>, <<Fde(1, 256, 287, 1, 1)>>, <<NoTypes>>) EXCEPT !.exceptTableAddress = 1168]

MCBinaries ==
     {Two(l1, l2, cpp) : l1 \in {Absolute, Relative}, l2 \in {NoTypes, Relative}, cpp \in {Cpp, CppA}}
  \cup {Two(Absolute, Many(n), Cpp) : n \in 23..28}
  \cup {Two(Relatives, NoTypes, Cpp)}
  \cup { Far,
         Program(<<C>>, <<Fde(1, 300, 308, 0, 1), Fde(1, 256, 270, 0, 2)>>, <<>>),
         Program(<<C>>, <<Fde(1, 256, 264, 0, 3), Fde(1, 270, 274, 0, 4)>>, <<>>),
         Program(<<C>>, <<Fde(1, 256, 264, 0, 2), Fde(1, 264, 270, 0, 5)>>, <<>>),
         Program(<<C, Sig>>, <<Fde(1, 256, 264, 0, 1), Fde(2, 264, 270, 0, 1)>>, <<>>),
         Program(<<C, Old>>, <<Fde(1, 256, 264, 0, 1), Fde(2, 264, 270, 0, 1)>>, <<>>),
         Program(<<Cpp>>, <<Fde(1, 256, 264, 1, 1), Fde(1, 264, 270, 0, 1), Fde(1, 270, 280, 1, 2)>>,
                 <<Absolute>>),
         Program(<<CppA>>, <<Fde(1, 256, 264, 1, 1), Fde(1, 264, 270, 1, 1)>>, <<Absolute>>),
         [Program(<<Cpp>>, <<Fde(1, 256, 264, 1, 1)>>, <<Absolute>>) EXCEPT !.exceptTableAddress = 1040,
                                                                           !.ehHdrAddress = 1000] }

\* The unwinder makes of what the compiler writes what the compiler means.
ASSUME \A b \in MCBinaries : SignalFrames(b) \/ NullLsda(b) \/ Unwound(Compiled(b)) = Meaning(b)
=============================================================================
