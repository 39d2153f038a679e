----------------------------- MODULE TargetMemory -----------------------------
(***************************************************************************)
(* How katana reads and writes bytes of its stopped target with ptrace's   *)
(* words (memcpyToTarget, memcpyFromTargetNoDeath and modifyTarget in      *)
(* patcher/target.c).                                                      *)
(*                                                                         *)
(* ptrace gives and takes WordSize bytes (PTRACE_WORD_SIZE). katana keeps  *)
(* the first ValSize bytes of a word it has read (sizeof(uint)) and reads  *)
(* on ValSize bytes further. A behavior is one request.                    *)
(***************************************************************************)
EXTENDS Integers

CONSTANTS
  WordSize, ValSize,
  Low, High,   \* mapped memory is Low..(High - 1), whole pages
  Requests,
  Old,         \* contents of the memory
  Data,        \* Data[k]: byte k of what katana writes
  JUNK         \* what is behind val on katana's stack

Mapped == Low..(High - 1)

ASSUME MemoryAssumption ==
  /\ WordSize \in Nat \ {0} /\ ValSize \in 1..WordSize
  /\ Low \in Int /\ High \in Int
  /\ DOMAIN Old = Mapped
  /\ Requests \subseteq [write : BOOLEAN, addr : Int, n : Nat]

(* Mappings begin at pages, and a word is two uints.                       *)
ASSUME AlignmentAssumption == Low % WordSize = 0 /\ WordSize % ValSize = 0

VARIABLES
  req,   \* the request
  mem,   \* the target's memory
  at,    \* addr of memcpyToTarget: bytes before it have been written
  i,     \* index of memcpyToTarget's loop
  from,  \* addr of memcpyFromTarget
  n,     \* its numBytes
  j,     \* its index
  buf,   \* its result
  pc

vars == <<req, mem, at, i, from, n, j, buf, pc>>

(* Bytes that are yet to be written from at on, and their place in Data.   *)
Left == req.addr + req.n - at
Byte(x) == Data[x - req.addr]

TypeOK ==
  /\ req \in Requests
  /\ DOMAIN mem = Mapped
  /\ at \in req.addr..(req.addr + req.n)
  /\ i \in 0..(req.n + WordSize)
  /\ from \in Int /\ n \in Nat /\ DOMAIN buf = 0..(n - 1)
  /\ j \in 0..(n + ValSize)
  /\ pc \in {"begin", "read", "readFirst", "readLast", "words", "done", "dead"}

Init ==
  /\ req \in Requests
  /\ mem = Old
  /\ at = req.addr /\ i = 0
  /\ from = 0 /\ n = 0 /\ j = 0 /\ buf = [k \in 0..(-1) |-> JUNK]
  /\ pc = "begin"

-----------------------------------------------------------------------------
InMapping(a) == Low <= a /\ a + WordSize <= High

(* memcpyFromTarget(buf, a, m), then the action that waits at next.        *)
CallRead(a, m, next) ==
  /\ from' = a /\ n' = m /\ j' = 0
  /\ buf' = [k \in 0..(m - 1) |-> JUNK]
  /\ pc' = next

Reading == pc \in {"read", "readFirst", "readLast"} /\ j < n

(* Mutant of ReadWord: on to the next word.                                *)
ReadWordByWord ==
  /\ Reading /\ InMapping(from + j)
  /\ buf' = [k \in 0..(n - 1) |->
               IF k < j \/ k >= j + WordSize THEN buf[k]
               ELSE IF k < j + ValSize THEN mem[from + k] ELSE JUNK]
  /\ j' = IF j + WordSize <= n THEN j + WordSize ELSE n
  /\ UNCHANGED <<req, mem, at, i, from, n, pc>>

(* PTRACE_PEEKDATA: up to WordSize bytes are copied out of val, though it  *)
(* has only ValSize.                                                       *)
ReadWord ==
  /\ Reading /\ InMapping(from + j)
  /\ buf' = [k \in 0..(n - 1) |->
               IF k < j \/ k >= j + WordSize THEN buf[k]
               ELSE IF k < j + ValSize THEN mem[from + k] ELSE JUNK]
  /\ j' = j + ValSize
  /\ UNCHANGED <<req, mem, at, i, from, n, pc>>

ReadFails ==
  /\ Reading /\ ~InMapping(from + j)
  /\ pc' = "dead"
  /\ UNCHANGED <<req, mem, at, i, from, n, j, buf>>

EndRead ==
  /\ pc = "read" /\ j >= n
  /\ pc' = "done"
  /\ UNCHANGED <<req, mem, at, i, from, n, j, buf>>

-----------------------------------------------------------------------------
Misalignment == req.addr % WordSize

Begin ==
  /\ pc = "begin"
  /\ \/ ~req.write /\ CallRead(req.addr, req.n, "read")
     \/ req.write /\ Misalignment # 0
          /\ CallRead(req.addr - Misalignment, WordSize, "readFirst")
     \/ req.write /\ Misalignment = 0
          /\ pc' = "words" /\ UNCHANGED <<from, n, j, buf>>
  /\ UNCHANGED <<req, mem, at, i>>

(* The word at a gets the bytes of Data from x to y, those around it come  *)
(* from buf.                                                               *)
Poke(a, x, y) ==
  mem' = [z \in Mapped |-> IF z \in a..(a + WordSize - 1)
                           THEN IF z \in x..y THEN Byte(z) ELSE buf[z - a]
                           ELSE mem[z]]

PokeFails(a) ==
  /\ ~InMapping(a)
  /\ pc' = "dead" /\ UNCHANGED <<mem, at, i>>

(* The first word, with the bytes before addr as they were.                *)
WriteFirst ==
  /\ pc = "readFirst" /\ j >= n
  /\ LET a == req.addr - Misalignment
         bytes == IF Left < WordSize - Misalignment THEN Left
                  ELSE WordSize - Misalignment
     IN \/ PokeFails(a)
        \/ /\ InMapping(a)
           /\ Poke(a, at, at + bytes - 1)
           /\ at' = at + bytes
           /\ pc' = IF bytes = Left THEN "done" ELSE "words"
           /\ UNCHANGED i
  /\ UNCHANGED <<req, from, n, j, buf>>

WriteWord ==
  /\ pc = "words" /\ i + WordSize <= Left
  /\ \/ PokeFails(at + i)
     \/ /\ InMapping(at + i)
        /\ Poke(at + i, at + i, at + i + WordSize - 1)
        /\ i' = i + WordSize
        /\ UNCHANGED <<at, pc>>
  /\ UNCHANGED <<req, from, n, j, buf>>

(* Mutant of ReadLast: as many bytes as the whole request.                 *)
ReadLastAll ==
  /\ pc = "words" /\ i < Left /\ i + WordSize > Left
  /\ CallRead(at + i, req.n + WordSize, "readLast")
  /\ UNCHANGED <<req, mem, at, i>>

ReadLast ==
  /\ pc = "words" /\ i < Left /\ i + WordSize > Left
  /\ CallRead(at + i, WordSize, "readLast")
  /\ UNCHANGED <<req, mem, at, i>>

(* Mutant of WriteLast: the bytes after the range are not kept.            *)
WriteLastWhole ==
  /\ pc = "readLast" /\ j >= n
  /\ \/ PokeFails(at + i)
     \/ /\ InMapping(at + i)
        /\ mem' = [z \in Mapped |-> IF z \in (at + i)..(at + i + WordSize - 1)
                     THEN IF z \in (at + i)..(at + Left - 1) THEN Byte(z) ELSE JUNK
                     ELSE mem[z]]
        /\ i' = i + WordSize
        /\ pc' = "words" /\ UNCHANGED at
  /\ UNCHANGED <<req, from, n, j, buf>>

(* The last word, with the bytes after the range as they were.             *)
WriteLast ==
  /\ pc = "readLast" /\ j >= n
  /\ \/ PokeFails(at + i)
     \/ /\ InMapping(at + i)
        /\ Poke(at + i, at + i, at + Left - 1)
        /\ i' = i + WordSize
        /\ pc' = "words" /\ UNCHANGED at
  /\ UNCHANGED <<req, from, n, j, buf>>

EndWords ==
  /\ pc = "words" /\ i >= Left
  /\ pc' = "done"
  /\ UNCHANGED <<req, mem, at, i, from, n, j, buf>>

Next ==
  \/ Begin \/ ReadWord \/ ReadFails \/ EndRead
  \/ WriteFirst \/ WriteWord \/ ReadLast \/ WriteLast \/ EndWords

Spec == Init /\ [][Next]_vars

-----------------------------------------------------------------------------
(* Properties.                                                             *)
Range == req.addr..(req.addr + req.n - 1)

(* A byte outside of the range keeps its value at every step, however the  *)
(* range lies to the words, and the range is written in the end ("copies   *)
(* numBytes from data to addr in target").                                 *)
WriteIsExact ==
  /\ \A x \in Mapped :
       mem[x] = Old[x] \/ (req.write /\ x \in Range /\ mem[x] = Byte(x))
  /\ pc = "done" /\ req.write => \A x \in Range : x \in Mapped /\ mem[x] = Byte(x)

(* What is read is what is there, though each step copies more than it has *)
(* read: the next step puts it right.                                      *)
ReadIsExact ==
  pc = "done" /\ ~req.write =>
    \A k \in 0..(req.n - 1) : req.addr + k \in Mapped /\ buf[k] = Old[req.addr + k]

(* katana dies of a request within the mapping only near its end, where a  *)
(* word it looks at goes beyond.                                           *)
DeathOnlyNearTheEnd ==
  Low <= req.addr /\ req.addr + req.n - 1 + 2 * WordSize - ValSize <= High
    => pc # "dead"
=============================================================================
