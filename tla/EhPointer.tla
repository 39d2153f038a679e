------------------------------ MODULE EhPointer ------------------------------
(***************************************************************************)
(* Pointers of .eh_frame and .gcc_except_table in their encodings          *)
(* (eh_pe.c), and the buffers katana builds sections in                    *)
(* (util/growingBuffer.c).  A buffer is made of fields: a field holds a    *)
(* number and takes some bytes, and at leads from an offset to the field   *)
(* that begins there.                                                      *)
(***************************************************************************)
EXTENDS Integers, Sequences, SequencesExt, TLC

CONSTANT Modulus   \* numbers of n bytes are numbers modulo Modulus[n]

ASSUME ModulusAssumption == Modulus \in [{2, 4, 8} -> Nat \ {0}]

Field(v, n) == [v |-> v, n |-> n]

Empty == [len |-> 0, at |-> <<>>]

addToGrowingBuffer(buf, f) == [len |-> buf.len + f.n, at |-> (buf.len :> f) @@ buf.at]

Filled(buf, fields) == FoldLeft(addToGrowingBuffer, buf, fields)

\* Numbers in LEB128 take one byte or two here; of a signed one the field
\* holds the bits.
Uleb(v) == Field(v, IF v < 128 THEN 1 ELSE 2)

Sleb(v) == IF v \in -64..63 THEN Field(v % 128, 1) ELSE Field(v % 16384, 2)

Signed(v, modulus) == IF v < modulus \div 2 THEN v ELSE v - modulus

SlebValue(f) == Signed(f.v, IF f.n = 1 THEN 128 ELSE 16384)

Aligned(n, to) == to * ((n + to - 1) \div to)

-----------------------------------------------------------------------------
\* An encoding: the format, what the pointer is relative to, and whether it
\* is the address of the pointer.
Enc(format, application, indirect) ==
  [format |-> format, application |-> application, indirect |-> indirect]

DW_EH_PE_omit   == Enc("omit", "omit", TRUE)
DW_EH_PE_absptr == Enc("absptr", "none", FALSE)

getPointerSizeFromEHPointerEncoding(enc) ==
  CASE enc.format = "omit"                  -> 0
    [] enc.format \in {"udata2", "sdata2"}  -> 2
    [] enc.format \in {"udata4", "sdata4"}  -> 4
    [] OTHER                                -> 8   \* absptr, udata8, sdata8

\* Encodings that do not end in death(): in decodeEHPointer, in
\* encodeEHPointerFromEncoding and in printEHPointerEncoding.
Handled(enc) == enc.application \in {"none", "pcrel"}

Sized(enc) == enc.format \notin {"uleb128", "sleb128"}

Known(enc) == enc = DW_EH_PE_omit \/ ~enc.indirect \/ enc.application = "pcrel"

\* The pointer in field f at address loc, and how many bytes decodeEHPointer
\* says it has read: of eight bytes, four.
decodeEHPointer(f, loc, enc) ==
  [value |-> (IF enc.application = "pcrel" THEN f.v + loc ELSE f.v) % Modulus[8],
   read  |-> IF enc.format \in {"udata8", "sdata8"} THEN 4 ELSE f.n]

\* The low bytes of what encodeEHPointerFromEncoding returns.
encodeEHPointerFromEncoding(pointer, enc, loc) ==
  LET n == getPointerSizeFromEHPointerEncoding(enc)
  IN  Field((IF enc.application = "pcrel" THEN pointer - loc ELSE pointer) % Modulus[n], n)

-----------------------------------------------------------------------------
(* What an unwinder (libgcc, external) takes a pointer for: a null pointer  *)
(* is null in every encoding, and numbers that are signed are extended.     *)
UnwinderPointer(f, loc, enc) ==
  IF f.v = 0 THEN 0
  ELSE (  (IF enc.format \in {"sdata2", "sdata4"} THEN Signed(f.v, Modulus[f.n]) ELSE f.v)
        + (IF enc.application = "pcrel" THEN loc ELSE 0)) % Modulus[8]
=============================================================================
