------------------------- MODULE TargetMemory_proofs -------------------------
(***************************************************************************)
(* Proofs about TargetMemory, for any size of words, mapping and request:  *)
(* memcpyToTarget writes its range and nothing else, and memcpyFromTarget  *)
(* returns what is in the memory.                                          *)
(***************************************************************************)
EXTENDS TargetMemory, TLAPS

InRange(x) == req.addr <= x /\ x < req.addr + req.n

(* A prefix of the range has been written, and nothing else.               *)
PrefixWritten ==
  \A x \in Mapped :
    mem[x] = IF req.write /\ InRange(x) /\ x < at + i THEN Byte(x) ELSE Old[x]

PrefixMapped ==
  req.write => \A x \in Int : InRange(x) /\ x < at + i => x \in Mapped

(* The first j bytes of a read are right, whatever is behind them.         *)
PrefixRead ==
  pc \in {"read", "readFirst", "readLast"} \/ (pc = "done" /\ ~req.write) =>
    \A k \in 0..(n - 1) : k < j => from + k \in Mapped /\ buf[k] = mem[from + k]

(* What a read is for.                                                     *)
Purpose ==
  /\ pc = "begin" => at = req.addr /\ i = 0
  /\ pc = "read" => ~req.write /\ from = req.addr /\ n = req.n
  /\ pc = "readFirst" =>
       /\ req.write /\ Misalignment # 0 /\ at = req.addr /\ i = 0
       /\ from = req.addr - Misalignment /\ n = WordSize
  /\ pc = "readLast" =>
       /\ req.write /\ i < Left /\ i + WordSize > Left
       /\ from = at + i /\ n = WordSize
  /\ pc = "words" => req.write
  /\ pc = "done" /\ req.write => at + i >= req.addr + req.n
  /\ pc = "done" /\ ~req.write => from = req.addr /\ n = req.n /\ j >= n

(* A read looks at every ValSize-th position.                              *)
Stride == \E c \in Nat : j = ValSize * c

NearTheEnd == req.addr + req.n - 1 + 2 * WordSize - ValSize > High

(* Every word a request looks at is mapped, but near the end.              *)
Survival ==
  Low <= req.addr /\ ~NearTheEnd => pc # "dead"

IInv == TypeOK /\ PrefixWritten /\ PrefixMapped /\ PrefixRead /\ Purpose

-----------------------------------------------------------------------------
LEMMA ConstantTypes ==
  /\ WordSize \in Nat \ {0} /\ ValSize \in 1..WordSize
  /\ Low \in Int /\ High \in Int /\ DOMAIN Old = Mapped
BY MemoryAssumption DEF MemoryAssumption

LEMMA RequestTypes ==
  ASSUME TypeOK
  PROVE  req.write \in BOOLEAN /\ req.addr \in Int /\ req.n \in Nat
BY MemoryAssumption DEF MemoryAssumption, TypeOK

LEMMA MisalignmentType ==
  ASSUME TypeOK
  PROVE  Misalignment \in 0..(WordSize - 1)
BY ConstantTypes, RequestTypes DEF Misalignment

(* Writing a word whose bytes outside of the range come from a read of     *)
(* that word extends the prefix.                                           *)
LEMMA PokeExtends ==
  ASSUME IInv, req.write, NEW a \in Int, InMapping(a), NEW y \in Int,
         a <= at + i, at + i <= y + 1, y < a + WordSize, y < req.addr + req.n,
         Poke(a, at + i, y), req' = req,
         NEW u \in Int, NEW v \in Int, at' = u, i' = v, u + v >= y + 1,
         \A x \in Int : InRange(x) /\ x < u + v => x <= y,
         \A z \in Mapped : z \in a..(a + WordSize - 1) /\ z \notin (at + i)..y
            => buf[z - a] = mem[z]
  PROVE  PrefixWritten' /\ PrefixMapped'
<1>0. /\ at \in Int /\ i \in Int /\ req.addr \in Int /\ req.n \in Nat
      /\ req.addr <= at + i /\ WordSize \in Nat \ {0} /\ Low \in Int /\ High \in Int
  BY ConstantTypes, RequestTypes DEF IInv, TypeOK
<1>1. ASSUME NEW x \in Mapped
      PROVE  mem'[x] = IF req.write /\ InRange(x) /\ x < u + v THEN Byte(x) ELSE Old[x]
  <2>0. x \in Int
    BY <1>0 DEF Mapped
  <2>1. mem[x] = IF req.write /\ InRange(x) /\ x < at + i THEN Byte(x) ELSE Old[x]
    BY DEF IInv, PrefixWritten
  <2>2. CASE x \in (at + i)..y
    <3>1. mem'[x] = Byte(x)
      BY <1>0, <2>2, <2>0 DEF Poke
    <3>2. InRange(x) /\ x < u + v
      BY <1>0, <2>0, <2>2 DEF InRange
    <3>. QED
      BY <3>1, <3>2
  <2>3. CASE x \notin (at + i)..y
    <3>1. mem'[x] = mem[x]
      BY <2>3 DEF Poke
    <3>2. CASE x < at + i
      <4>1. x < u + v
        BY <1>0, <2>0, <3>2
      <4>. QED
        BY <2>1, <3>1, <3>2, <4>1
    <3>3. CASE ~(x < at + i)
      <4>1. x > y
        BY <1>0, <2>0, <2>3, <3>3
      <4>2. ~(InRange(x) /\ x < u + v)
        BY <1>0, <2>0, <4>1
      <4>. QED
        BY <2>1, <3>1, <3>3, <4>2
    <3>. QED
      BY <3>2, <3>3
  <2>. QED
    BY <2>2, <2>3
<1>2. ASSUME NEW x \in Int, InRange(x), x < u + v
      PROVE  x \in Mapped
  <2>0. x <= y
    BY <1>2
  <2>1. CASE x < at + i
    BY <1>2, <2>1 DEF IInv, PrefixMapped
  <2>2. CASE ~(x < at + i)
    BY <1>0, <2>0, <2>2 DEF InMapping, Mapped
  <2>. QED
    BY <2>1, <2>2
<1>3. PrefixWritten'
  BY <1>1 DEF PrefixWritten, InRange, Byte
<1>4. PrefixMapped'
  BY <1>2 DEF PrefixMapped, InRange
<1>. QED
  BY <1>3, <1>4

(* A word that has been read in full is the word in the target.            *)
LEMMA WordRead ==
  ASSUME IInv, pc \in {"readFirst", "readLast"}, j >= n
  PROVE  /\ n = WordSize /\ from \in Int
         /\ \A z \in Mapped : z \in from..(from + WordSize - 1) => buf[z - from] = mem[z]
<1>1. n = WordSize /\ from \in Int /\ j \in Int /\ n \in Nat
  BY ConstantTypes DEF IInv, TypeOK, Purpose
<1>2. ASSUME NEW z \in Mapped, z \in from..(from + WordSize - 1)
      PROVE  buf[z - from] = mem[z]
  <2>1. z \in Int /\ z - from \in 0..(n - 1) /\ from + (z - from) = z
    BY <1>1, <1>2, ConstantTypes DEF Mapped
  <2>2. z - from < j
    BY <1>1, <2>1
  <2>. QED
    BY <2>1, <2>2 DEF IInv, PrefixRead
<1>. QED
  BY <1>1, <1>2

-----------------------------------------------------------------------------
LEMMA InitIInv == Init => IInv
<1>. SUFFICES ASSUME Init
              PROVE  IInv
  OBVIOUS
<1>. USE ConstantTypes
<1>0. req.write \in BOOLEAN /\ req.addr \in Int /\ req.n \in Nat
  BY MemoryAssumption DEF MemoryAssumption, Init
<1>1. TypeOK
  BY <1>0 DEF Init, TypeOK
<1>2. PrefixWritten
  BY <1>0 DEF Init, PrefixWritten, InRange, Mapped
<1>3. PrefixMapped
  BY <1>0 DEF Init, PrefixMapped, InRange
<1>4. PrefixRead /\ Purpose
  BY DEF Init, PrefixRead, Purpose
<1>. QED
  BY <1>1, <1>2, <1>3, <1>4 DEF IInv

(* Steps that do not write.                                                *)
LEMMA NothingWritten ==
  ASSUME IInv, UNCHANGED <<req, mem, at, i>>
  PROVE  PrefixWritten' /\ PrefixMapped'
BY DEF IInv, PrefixWritten, PrefixMapped, InRange, Byte

LEMMA BeginStep == IInv /\ Begin => IInv'
<1>. SUFFICES ASSUME IInv, Begin
              PROVE  IInv'
  OBVIOUS
<1>1. pc = "begin" /\ UNCHANGED <<req, mem, at, i>> /\ at = req.addr /\ i = 0
  BY DEF Begin, IInv, Purpose
<1>2. /\ req.write \in BOOLEAN /\ req.addr \in Int /\ req.n \in Nat
      /\ Misalignment \in Int /\ WordSize \in Nat \ {0} /\ ValSize \in Nat
  BY ConstantTypes, RequestTypes, MisalignmentType DEF IInv
<1>3. CASE ~req.write /\ CallRead(req.addr, req.n, "read")
  <2>1. TypeOK'
    BY <1>1, <1>2, <1>3 DEF IInv, TypeOK, CallRead
  <2>2. PrefixRead' /\ Purpose'
    BY <1>1, <1>2, <1>3 DEF CallRead, PrefixRead, Purpose
  <2>. QED
    BY <1>1, <2>1, <2>2, NothingWritten DEF IInv
<1>4. CASE /\ req.write /\ Misalignment # 0
           /\ CallRead(req.addr - Misalignment, WordSize, "readFirst")
  <2>1. TypeOK'
    BY <1>1, <1>2, <1>4 DEF IInv, TypeOK, CallRead
  <2>2. PrefixRead' /\ Purpose'
    BY <1>1, <1>2, <1>4 DEF CallRead, PrefixRead, Purpose, Misalignment
  <2>. QED
    BY <1>1, <2>1, <2>2, NothingWritten DEF IInv
<1>5. CASE req.write /\ Misalignment = 0 /\ pc' = "words" /\ UNCHANGED <<from, n, j, buf>>
  <2>1. TypeOK'
    BY <1>1, <1>5 DEF IInv, TypeOK
  <2>2. PrefixRead' /\ Purpose'
    BY <1>1, <1>5 DEF PrefixRead, Purpose
  <2>. QED
    BY <1>1, <2>1, <2>2, NothingWritten DEF IInv
<1>. QED
  BY <1>3, <1>4, <1>5 DEF Begin

LEMMA ReadStep == IInv /\ ReadWord => IInv'
<1>. SUFFICES ASSUME IInv, ReadWord
              PROVE  IInv'
  OBVIOUS
<1>1. /\ pc \in {"read", "readFirst", "readLast"} /\ j < n /\ InMapping(from + j)
      /\ buf' = [k \in 0..(n - 1) |->
                   IF k < j \/ k >= j + WordSize THEN buf[k]
                   ELSE IF k < j + ValSize THEN mem[from + k] ELSE JUNK]
      /\ j' = j + ValSize
      /\ UNCHANGED <<req, mem, at, i, from, n, pc>>
  BY DEF ReadWord, Reading
<1>2. /\ j \in Nat /\ n \in Nat /\ from \in Int /\ Low \in Int /\ High \in Int
      /\ WordSize \in Nat /\ ValSize \in Nat \ {0} /\ ValSize <= WordSize
  BY ConstantTypes DEF IInv, TypeOK
<1>3. TypeOK'
  BY <1>1, <1>2 DEF IInv, TypeOK
<1>4. PrefixRead'
  <2>. SUFFICES ASSUME NEW k \in 0..(n - 1), k < j + ValSize
                PROVE  from + k \in Mapped /\ buf'[k] = mem[from + k]
    BY <1>1 DEF PrefixRead
  <2>1. CASE k < j
    BY <1>1, <1>2, <2>1 DEF IInv, PrefixRead
  <2>2. CASE ~(k < j)
    <3>1. from + k \in Mapped
      BY <1>1, <1>2, <2>2 DEF InMapping, Mapped
    <3>2. buf'[k] = mem[from + k]
      BY <1>1, <1>2, <2>2
    <3>. QED
      BY <3>1, <3>2
  <2>. QED
    BY <2>1, <2>2
<1>5. Purpose'
  BY <1>1 DEF IInv, Purpose, Misalignment, Left
<1>. QED
  BY <1>1, <1>3, <1>4, <1>5, NothingWritten DEF IInv

LEMMA ReadEnds == IInv /\ (ReadFails \/ EndRead) => IInv'
<1>. SUFFICES ASSUME IInv, ReadFails \/ EndRead
              PROVE  IInv'
  OBVIOUS
<1>1. UNCHANGED <<req, mem, at, i, from, n, j, buf>>
  BY DEF ReadFails, EndRead
<1>2. pc' = "dead" \/ (pc = "read" /\ j >= n /\ pc' = "done")
  BY DEF ReadFails, EndRead
<1>3. TypeOK'
  BY <1>1, <1>2 DEF IInv, TypeOK
<1>4. PrefixRead'
  BY <1>1, <1>2 DEF IInv, PrefixRead
<1>5. Purpose'
  BY <1>1, <1>2 DEF IInv, Purpose
<1>. QED
  BY <1>1, <1>3, <1>4, <1>5, NothingWritten DEF IInv

-----------------------------------------------------------------------------
(* Steps that write.                                                       *)

LEMMA PokeFailsStep ==
  ASSUME IInv, NEW a, PokeFails(a), UNCHANGED <<req, from, n, j, buf>>
  PROVE  IInv'
<1>1. pc' = "dead" /\ UNCHANGED <<req, mem, at, i, from, n, j, buf>>
  BY DEF PokeFails
<1>2. TypeOK' /\ PrefixRead' /\ Purpose'
  BY <1>1 DEF IInv, TypeOK, PrefixRead, Purpose
<1>. QED
  BY <1>1, <1>2, NothingWritten DEF IInv

LEMMA WriteTypes ==
  ASSUME IInv
  PROVE  /\ req.write \in BOOLEAN /\ req.addr \in Int /\ req.n \in Nat
         /\ Misalignment \in 0..(WordSize - 1)
         /\ WordSize \in Nat \ {0} /\ ValSize \in Nat /\ at \in Int /\ i \in Nat
         /\ req.addr <= at /\ at <= req.addr + req.n
         /\ Left = req.addr + req.n - at /\ Left \in Nat
BY ConstantTypes, RequestTypes, MisalignmentType DEF IInv, TypeOK, Left

LEMMA WriteFirstStep == IInv /\ WriteFirst => IInv'
<1>. SUFFICES ASSUME IInv, WriteFirst
              PROVE  IInv'
  OBVIOUS
<1>. DEFINE a == req.addr - Misalignment
            bytes == IF Left < WordSize - Misalignment THEN Left
                     ELSE WordSize - Misalignment
<1>1. pc = "readFirst" /\ j >= n /\ UNCHANGED <<req, from, n, j, buf>>
  BY DEF WriteFirst
<1>2. CASE PokeFails(a)
  BY <1>1, <1>2, PokeFailsStep
<1>3. CASE /\ InMapping(a) /\ Poke(a, at, at + bytes - 1) /\ at' = at + bytes
           /\ pc' = (IF bytes = Left THEN "done" ELSE "words") /\ UNCHANGED i
  <2>1. req.write /\ at = req.addr /\ i = 0 /\ from = a
    BY <1>1 DEF IInv, Purpose
  <2>2. /\ a \in Int /\ bytes \in Nat /\ bytes <= Left /\ a <= at
        /\ at + bytes - 1 < a + WordSize /\ Left = req.n
    BY <2>1, WriteTypes
  <2>. DEFINE y == at + bytes - 1
              u == at + bytes
  <2>3. y \in Int /\ u \in Int /\ at + i = at /\ y + 1 = u
    BY <2>1, <2>2, WriteTypes
  <2>4. \A z \in Mapped : z \in a..(a + WordSize - 1) => buf[z - a] = mem[z]
    BY <1>1, <2>1, WordRead
  <2>5. Poke(a, at + i, y)
    BY <1>3, <2>3
  <2>6. at <= y + 1 /\ y < req.addr + req.n /\ u + 0 >= y + 1
    BY <2>1, <2>2, <2>3, WriteTypes
  <2>7. \A x \in Int : InRange(x) /\ x < u + 0 => x <= y
    BY <2>3
  <2>8. at' = u /\ i' = 0
    BY <1>3, <2>1
  <2>9. PrefixWritten' /\ PrefixMapped'
    <3>1. a \in Int /\ InMapping(a) /\ a <= at + i /\ y < a + WordSize /\ at + i <= y + 1
      BY <1>3, <2>2, <2>3, <2>6
    <3>. HIDE DEF a, u, y
    <3>. QED
      BY <1>1, <2>1, <2>3, <2>4, <2>5, <2>6, <2>7, <2>8, <3>1, PokeExtends
  <2>10. DOMAIN mem' = Mapped
    BY <1>3 DEF Poke
  <2>11. TypeOK'
    <3>1. u \in req.addr..(req.addr + req.n)
      BY <2>1, <2>2, WriteTypes
    <3>. QED
      BY <1>1, <1>3, <2>8, <2>10, <3>1 DEF IInv, TypeOK
  <2>12. PrefixRead'
    BY <1>1, <1>3, <2>1 DEF PrefixRead
  <2>13. Purpose'
    <3>1. bytes = Left => u + 0 >= req.addr + req.n
      BY <2>1, <2>2, WriteTypes
    <3>. QED
      BY <1>1, <1>3, <2>1, <2>8, <3>1 DEF Purpose
  <2>. QED
    BY <2>9, <2>11, <2>12, <2>13 DEF IInv
<1>. QED
  BY <1>2, <1>3 DEF WriteFirst

LEMMA WriteWordStep == IInv /\ WriteWord => IInv'
<1>. SUFFICES ASSUME IInv, WriteWord
              PROVE  IInv'
  OBVIOUS
<1>1. pc = "words" /\ i + WordSize <= Left /\ UNCHANGED <<req, from, n, j, buf>>
  BY DEF WriteWord
<1>2. CASE PokeFails(at + i)
  BY <1>1, <1>2, PokeFailsStep
<1>3. CASE /\ InMapping(at + i) /\ Poke(at + i, at + i, at + i + WordSize - 1)
           /\ i' = i + WordSize /\ UNCHANGED <<at, pc>>
  <2>1. req.write
    BY <1>1 DEF IInv, Purpose
  <2>. DEFINE a == at + i
              y == at + i + WordSize - 1
              v == i + WordSize
  <2>2. /\ a \in Int /\ y \in Int /\ v \in Int /\ at \in Int /\ a <= y + 1
        /\ y < a + WordSize /\ y < req.addr + req.n /\ at + v >= y + 1
        /\ at + v <= y + 1 /\ a <= at + i
    BY <1>1, WriteTypes
  <2>3. \A x \in Int : InRange(x) /\ x < at + v => x <= y
    BY <2>2
  <2>4. \A z \in Mapped : z \in a..(a + WordSize - 1) /\ z \notin (at + i)..y
           => buf[z - a] = mem[z]
    BY WriteTypes
  <2>5. PrefixWritten' /\ PrefixMapped'
    <3>1. Poke(a, at + i, y) /\ InMapping(a) /\ at' = at /\ i' = v /\ at + i <= y + 1
      BY <1>3, <2>2
    <3>. HIDE DEF a, v, y
    <3>. QED
      BY <1>1, <2>1, <2>2, <2>3, <2>4, <3>1, PokeExtends
  <2>6. DOMAIN mem' = Mapped
    BY <1>3 DEF Poke
  <2>7. TypeOK'
    <3>1. v \in 0..(req.n + WordSize)
      BY <1>1, WriteTypes
    <3>. QED
      BY <1>1, <1>3, <2>6, <3>1 DEF IInv, TypeOK
  <2>8. PrefixRead' /\ Purpose'
    BY <1>1, <1>3, <2>1 DEF PrefixRead, Purpose
  <2>. QED
    BY <2>5, <2>7, <2>8 DEF IInv
<1>. QED
  BY <1>2, <1>3 DEF WriteWord

LEMMA ReadLastStep == IInv /\ ReadLast => IInv'
<1>. SUFFICES ASSUME IInv, ReadLast
              PROVE  IInv'
  OBVIOUS
<1>1. /\ pc = "words" /\ i < Left /\ i + WordSize > Left
      /\ CallRead(at + i, WordSize, "readLast") /\ UNCHANGED <<req, mem, at, i>>
  BY DEF ReadLast
<1>2. TypeOK'
  BY <1>1, WriteTypes DEF IInv, TypeOK, CallRead
<1>3. req.write
  BY <1>1 DEF IInv, Purpose
<1>4. PrefixRead'
  BY <1>1, <1>3, WriteTypes DEF PrefixRead, CallRead
<1>5. Purpose'
  BY <1>1, <1>3 DEF Purpose, CallRead, Left
<1>. QED
  BY <1>1, <1>2, <1>4, <1>5, NothingWritten DEF IInv

LEMMA WriteLastStep == IInv /\ WriteLast => IInv'
<1>. SUFFICES ASSUME IInv, WriteLast
              PROVE  IInv'
  OBVIOUS
<1>1. pc = "readLast" /\ j >= n /\ UNCHANGED <<req, from, n, j, buf>>
  BY DEF WriteLast
<1>2. CASE PokeFails(at + i)
  BY <1>1, <1>2, PokeFailsStep
<1>3. CASE /\ InMapping(at + i) /\ Poke(at + i, at + i, at + Left - 1)
           /\ i' = i + WordSize /\ pc' = "words" /\ UNCHANGED at
  <2>1. req.write /\ i < Left /\ i + WordSize > Left /\ from = at + i
    BY <1>1 DEF IInv, Purpose
  <2>. DEFINE a == at + i
              y == at + Left - 1
              v == i + WordSize
  <2>2. /\ a \in Int /\ y \in Int /\ v \in Int /\ at \in Int /\ a <= y + 1
        /\ y < a + WordSize /\ y < req.addr + req.n /\ at + v >= y + 1
        /\ y + 1 = req.addr + req.n /\ a <= at + i
    BY <2>1, WriteTypes
  <2>3. \A x \in Int : InRange(x) /\ x < at + v => x <= y
    BY <2>2, WriteTypes DEF InRange
  <2>4. \A z \in Mapped : z \in a..(a + WordSize - 1) => buf[z - a] = mem[z]
    BY <1>1, <2>1, WordRead
  <2>5. PrefixWritten' /\ PrefixMapped'
    <3>1. Poke(a, at + i, y) /\ InMapping(a) /\ at' = at /\ i' = v /\ at + i <= y + 1
      BY <1>3, <2>2
    <3>. HIDE DEF a, v, y
    <3>. QED
      BY <1>1, <2>1, <2>2, <2>3, <2>4, <3>1, PokeExtends
  <2>6. DOMAIN mem' = Mapped
    BY <1>3 DEF Poke
  <2>7. TypeOK'
    <3>1. v \in 0..(req.n + WordSize)
      BY <2>1, WriteTypes
    <3>. QED
      BY <1>1, <1>3, <2>6, <3>1 DEF IInv, TypeOK
  <2>8. PrefixRead' /\ Purpose'
    BY <1>1, <1>3, <2>1 DEF PrefixRead, Purpose
  <2>. QED
    BY <2>5, <2>7, <2>8 DEF IInv
<1>. QED
  BY <1>2, <1>3 DEF WriteLast

LEMMA EndWordsStep == IInv /\ EndWords => IInv'
<1>. SUFFICES ASSUME IInv, EndWords
              PROVE  IInv'
  OBVIOUS
<1>1. /\ pc = "words" /\ i >= Left /\ pc' = "done"
      /\ UNCHANGED <<req, mem, at, i, from, n, j, buf>>
  BY DEF EndWords
<1>2. req.write /\ at + i >= req.addr + req.n
  BY <1>1, WriteTypes DEF IInv, Purpose
<1>3. TypeOK' /\ PrefixRead'
  BY <1>1, <1>2 DEF IInv, TypeOK, PrefixRead
<1>4. Purpose'
  BY <1>1, <1>2 DEF Purpose
<1>. QED
  BY <1>1, <1>3, <1>4, NothingWritten DEF IInv

-----------------------------------------------------------------------------
(* Every reachable state satisfies the invariant.                          *)
LEMMA Invariance == Spec => []IInv
<1>1. IInv /\ [Next]_vars => IInv'
  <2>. SUFFICES ASSUME IInv, [Next]_vars
                PROVE  IInv'
    OBVIOUS
  <2>1. CASE Next
    BY <2>1, BeginStep, ReadStep, ReadEnds, WriteFirstStep, WriteWordStep, ReadLastStep,
       WriteLastStep, EndWordsStep DEF Next
  <2>2. CASE UNCHANGED vars
    <3>1. UNCHANGED <<req, mem, at, i, from, n, j, buf, pc>>
      BY <2>2 DEF vars
    <3>2. TypeOK' /\ PrefixRead' /\ Purpose'
      BY <3>1 DEF IInv, TypeOK, PrefixRead, Purpose, Misalignment, Left
    <3>. QED
      BY <3>1, <3>2, NothingWritten DEF IInv
  <2>. QED
    BY <2>1, <2>2
<1>. QED
  BY InitIInv, <1>1, PTL DEF Spec

(* The variables keep their types: in particular memcpyToTarget never      *)
(* counts past the end of its range.                                       *)
THEOREM TypeCorrect == Spec => []TypeOK
<1>1. IInv => TypeOK
  BY DEF IInv
<1>. QED
  BY Invariance, <1>1, PTL

(* memcpyToTarget writes its range and keeps every byte around it, for any *)
(* size of words and any alignment.                                        *)
THEOREM WritesAreExact == Spec => []WriteIsExact
<1>1. IInv => WriteIsExact
  <2>. SUFFICES ASSUME IInv
                PROVE  WriteIsExact
    OBVIOUS
  <2>1. ASSUME NEW x \in Mapped
        PROVE  mem[x] = Old[x] \/ (req.write /\ x \in Range /\ mem[x] = Byte(x))
    <3>1. mem[x] = IF req.write /\ InRange(x) /\ x < at + i THEN Byte(x) ELSE Old[x]
      BY DEF IInv, PrefixWritten
    <3>2. InRange(x) => x \in Range
      BY WriteTypes, ConstantTypes DEF InRange, Range, Mapped
    <3>. QED
      BY <3>1, <3>2
  <2>2. ASSUME pc = "done", req.write, NEW x \in Range
        PROVE  x \in Mapped /\ mem[x] = Byte(x)
    <3>1. x \in Int /\ InRange(x)
      BY WriteTypes DEF Range, InRange
    <3>2. x < at + i
      <4>1. at + i >= req.addr + req.n
        BY <2>2 DEF IInv, Purpose
      <4>. QED
        BY <3>1, <4>1, WriteTypes DEF InRange
    <3>3. x \in Mapped
      BY <2>2, <3>1, <3>2 DEF IInv, PrefixMapped
    <3>. QED
      BY <2>2, <3>1, <3>2, <3>3 DEF IInv, PrefixWritten
  <2>. QED
    BY <2>1, <2>2 DEF WriteIsExact
<1>. QED
  BY Invariance, <1>1, PTL

(* memcpyFromTarget returns what is in the target's memory.                *)
THEOREM ReadsAreExact == Spec => []ReadIsExact
<1>1. IInv => ReadIsExact
  <2>. SUFFICES ASSUME IInv, pc = "done", ~req.write, NEW k \in 0..(req.n - 1)
                PROVE  req.addr + k \in Mapped /\ buf[k] = Old[req.addr + k]
    BY DEF ReadIsExact
  <2>1. from = req.addr /\ n = req.n /\ j >= n
    BY DEF IInv, Purpose
  <2>2. k < j
    BY <2>1, WriteTypes DEF IInv, TypeOK
  <2>3. from + k \in Mapped /\ buf[k] = mem[from + k]
    BY <2>1, <2>2 DEF IInv, PrefixRead
  <2>. QED
    BY <2>1, <2>3 DEF IInv, PrefixWritten
<1>. QED
  BY Invariance, <1>1, PTL

-----------------------------------------------------------------------------
(* Where requests can fail.                                                *)

LEMMA Remainder ==
  ASSUME NEW a \in Int, NEW w \in Nat \ {0}
  PROVE  a = w * (a \div w) + (a % w) /\ a \div w \in Int /\ a % w \in 0..(w - 1)
OBVIOUS

LEMMA NextMultiple ==
  ASSUME NEW w \in Nat \ {0}, NEW c \in Int, NEW d \in Int, w * c < w * d
  PROVE  w * c + w <= w * d
<1>1. c < d
  <2>1. c >= d => w * (c - d) >= 0
    OBVIOUS
  <2>2. w * (c - d) = w * c - w * d
    OBVIOUS
  <2> QED
    BY <2>1, <2>2
<1>2. w * (d - c - 1) >= 0
  BY <1>1
<1>3. w * (d - c - 1) = w * d - w * c - w
  OBVIOUS
<1> QED
  BY <1>2, <1>3

(* The word that holds the first byte of a request does not begin before   *)
(* the mapping, which begins with a word.                                  *)
LEMMA FirstWordMapped ==
  ASSUME TypeOK, Low <= req.addr
  PROVE  Low <= req.addr - Misalignment
<1>1. req.addr \in Int /\ WordSize \in Nat \ {0} /\ Low \in Int
  BY ConstantTypes, RequestTypes
<1> DEFINE q == req.addr \div WordSize
           b == Low \div WordSize
<1>2. /\ req.addr = WordSize * q + Misalignment /\ q \in Int
      /\ Misalignment \in 0..(WordSize - 1)
  BY <1>1, Remainder DEF Misalignment
<1>3. Low = WordSize * b /\ b \in Int
  BY <1>1, Remainder, AlignmentAssumption
<1> HIDE DEF q, b
<1>4. WordSize * q \in Int
  BY <1>1, <1>2
<1>5. CASE WordSize * q < WordSize * b
  <2>1. WordSize * q + WordSize <= WordSize * b
    BY <1>1, <1>2, <1>3, <1>5, NextMultiple
  <2>2. req.addr < Low
    BY <1>1, <1>2, <1>3, <1>4, <2>1
  <2> QED
    BY <1>1, <2>2
<1>6. CASE ~(WordSize * q < WordSize * b)
  BY <1>1, <1>2, <1>3, <1>4, <1>6
<1> QED
  BY <1>5, <1>6

LEMMA StrideStep == TypeOK /\ Stride /\ [Next]_vars => Stride'
<1> SUFFICES ASSUME TypeOK, Stride, [Next]_vars
             PROVE  Stride'
  OBVIOUS
<1>1. PICK c \in Nat : j = ValSize * c
  BY DEF Stride
<1>2. ValSize \in Nat /\ ValSize * 0 = 0
  BY ConstantTypes
<1>3. CASE j' = j
  BY <1>1, <1>3 DEF Stride
<1>4. CASE j' = 0
  BY <1>2, <1>4 DEF Stride
<1>5. CASE j' = j + ValSize
  <2>1. ValSize * (c + 1) = ValSize * c + ValSize /\ c + 1 \in Nat
    BY <1>2
  <2> QED
    BY <1>1, <1>5, <2>1 DEF Stride
<1> QED
  BY <1>3, <1>4, <1>5
  DEF Next, vars, Begin, CallRead, ReadWord, ReadFails, EndRead, WriteFirst, WriteWord,
      ReadLast, WriteLast, EndWords

(* A word that is looked at lies in the mapping.                           *)
LEMMA ReadingMapped ==
  ASSUME IInv, Stride, Reading, Low <= req.addr, ~NearTheEnd
  PROVE  InMapping(from + j)
<1>1. /\ j \in Nat /\ n \in Nat /\ from \in Int /\ j < n
      /\ Low \in Int /\ High \in Int
      /\ WordSize \in Nat \ {0} /\ ValSize \in Nat \ {0} /\ ValSize <= WordSize
  BY ConstantTypes DEF IInv, TypeOK, Reading
<1>2. n = WordSize => j + ValSize <= WordSize
  <2>1. PICK c \in Nat : j = ValSize * c
    BY DEF Stride
  <2> DEFINE d == WordSize \div ValSize
  <2>2. WordSize = ValSize * d /\ d \in Int
    BY <1>1, Remainder, AlignmentAssumption
  <2> HIDE DEF d
  <2> QED
    BY <1>1, <2>1, <2>2, NextMultiple
<1>3. req.addr + req.n - 1 + 2 * WordSize - ValSize <= High /\ req.n \in Nat /\ req.addr \in Int
  BY <1>1, WriteTypes DEF NearTheEnd
<1>4. CASE pc = "read"
  <2>1. from = req.addr /\ n = req.n
    BY <1>4 DEF IInv, Purpose
  <2> QED
    BY <1>1, <1>3, <2>1 DEF InMapping
<1>5. CASE pc = "readFirst"
  <2>1. from = req.addr - Misalignment /\ n = WordSize /\ Misalignment # 0
    BY <1>5 DEF IInv, Purpose
  <2>2. Low <= from /\ from <= req.addr - 1
    BY <2>1, <1>3, WriteTypes, FirstWordMapped DEF IInv
  <2> QED
    BY <1>1, <1>2, <1>3, <2>1, <2>2 DEF InMapping
<1>6. CASE pc = "readLast"
  <2>1. from = at + i /\ n = WordSize /\ i < Left
    BY <1>6 DEF IInv, Purpose
  <2>2. Low <= from /\ from <= req.addr + req.n - 1
    BY <1>1, <2>1, WriteTypes
  <2> QED
    BY <1>1, <1>2, <1>3, <2>1, <2>2 DEF InMapping
<1> QED
  BY <1>4, <1>5, <1>6 DEF Reading

(* A word that is written lies in the mapping.                             *)
LEMMA WritingMapped ==
  ASSUME IInv, Low <= req.addr, ~NearTheEnd
  PROVE  /\ WriteFirst => InMapping(req.addr - Misalignment)
         /\ WriteWord \/ WriteLast => InMapping(at + i)
<1>1. /\ Low \in Int /\ High \in Int
      /\ WordSize \in Nat \ {0} /\ ValSize \in Nat \ {0} /\ ValSize <= WordSize
  BY ConstantTypes
<1>2. req.addr + req.n - 1 + 2 * WordSize - ValSize <= High
  BY <1>1, WriteTypes DEF NearTheEnd
<1>3. ASSUME WriteFirst
      PROVE  InMapping(req.addr - Misalignment)
  <2>1. Misalignment # 0
    BY <1>3 DEF WriteFirst, IInv, Purpose
  <2>2. Low <= req.addr - Misalignment
    BY FirstWordMapped DEF IInv
  <2> QED
    BY <1>1, <1>2, <2>1, <2>2, WriteTypes DEF InMapping
<1>4. ASSUME WriteWord \/ WriteLast
      PROVE  InMapping(at + i)
  <2>1. i < Left
    BY <1>1, <1>4, WriteTypes DEF WriteWord, WriteLast, IInv, Purpose
  <2> QED
    BY <1>1, <1>2, <2>1, WriteTypes DEF InMapping
<1> QED
  BY <1>3, <1>4

LEMMA SurvivalStep == IInv /\ Stride /\ Survival /\ [Next]_vars => Survival'
<1> SUFFICES ASSUME IInv, Stride, Survival, [Next]_vars,
                    Low <= req'.addr, ~NearTheEnd'
             PROVE  pc' # "dead"
  BY DEF Survival
<1>1. req' = req
  BY DEF Next, vars, Begin, ReadWord, ReadFails, EndRead, WriteFirst, WriteWord,
         ReadLast, WriteLast, EndWords
<1>2. Low <= req.addr /\ ~NearTheEnd
  BY <1>1 DEF NearTheEnd
<1>3. pc # "dead"
  BY <1>2 DEF Survival
<1>4. CASE ReadFails
  BY <1>2, <1>4, ReadingMapped DEF ReadFails
<1>5. CASE WriteFirst
  BY <1>2, <1>3, <1>5, WritingMapped DEF WriteFirst, PokeFails
<1>6. CASE WriteWord
  BY <1>2, <1>3, <1>6, WritingMapped DEF WriteWord, PokeFails
<1>7. CASE WriteLast
  BY <1>2, <1>3, <1>7, WritingMapped DEF WriteLast, PokeFails
<1>8. CASE Begin \/ ReadWord \/ EndRead \/ ReadLast \/ EndWords \/ UNCHANGED vars
  BY <1>3, <1>8 DEF Begin, CallRead, ReadWord, EndRead, ReadLast, EndWords, vars
<1> QED
  BY <1>4, <1>5, <1>6, <1>7, <1>8 DEF Next

(* No request within the mapping fails that ends two words, less what a    *)
(* read keeps of one, before its end: the loop of memcpyFromTarget looks   *)
(* at whole words at steps of ValSize, and a word written is read first.   *)
THEOREM DeathIsNearTheEnd == Spec => []DeathOnlyNearTheEnd
<1>1. Init => Stride /\ Survival
  <2>1. Init => j = ValSize * 0 /\ 0 \in Nat /\ pc # "dead"
    BY ConstantTypes DEF Init
  <2> QED
    BY <2>1 DEF Stride, Survival
<1>2. IInv => TypeOK
  BY DEF IInv
<1>3. IInv /\ Survival => DeathOnlyNearTheEnd
  BY WriteTypes, ConstantTypes DEF Survival, NearTheEnd, DeathOnlyNearTheEnd
<1> QED
  BY Invariance, <1>1, <1>2, <1>3, StrideStep, SurvivalStep, PTL DEF Spec
=============================================================================
