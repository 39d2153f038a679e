----------------------------- MODULE ExceptTable -----------------------------
(***************************************************************************)
(* .gcc_except_table, in and out (exceptTable.c): the language specific    *)
(* data areas (LSDAs) that tell an unwinder where to land and for which    *)
(* exceptions.  An LSDA in katana's memory is a record of its call sites,  *)
(* its actions and its types; actions and types are counted from 0.        *)
(***************************************************************************)
EXTENDS EhPointer

TYPE_IDX_MATCH_ALL == -1
NoAction == -1

CallSite(position, length, pad, action) ==
  [position |-> position, length |-> length, landingPadPosition |-> pad, firstAction |-> action]

Action(filter, next) == [typeFilterIndex |-> filter, nextAction |-> next]

uleb128 == Enc("uleb128", "none", FALSE)

IndexOf(s, x) == (CHOOSE k \in DOMAIN s : s[k] = x) - 1

-----------------------------------------------------------------------------
(* Reading.  An offset is one into the section.                             *)

\* Four pointers in a row, and where the next one is.
FourPointers(buf, offset, enc, address) ==
  FoldLeft(LAMBDA r, k : LET d == decodeEHPointer(buf.at[r.next], address + r.next, enc)
                         IN  [values |-> Append(r.values, d.value), next |-> r.next + d.read],
           [values |-> <<>>, next |-> offset], <<1, 2, 3, 4>>)

\* readCallSiteTable: the first action is still one plus an offset into the
\* action table, or 0.
readCallSiteTable(buf, start, end, enc, address) ==
  LET from[o \in Nat] ==
        IF o >= end THEN <<>>
        ELSE LET r == FourPointers(buf, o, enc, address)
             IN  <<r.values>> \o from[r.next]
  IN  from[start]

\* One record of the action table at an offset into it; 0 leads nowhere.
\* The filter is read as if it had no sign.
ActionAt(buf, base, o) ==
  LET filter == buf.at[base + o]
      next   == buf.at[base + o + filter.n]
  IN  [filter |-> filter.v - 1,
       next   |-> IF SlebValue(next) = 0 THEN NoAction ELSE o + filter.n + SlebValue(next),
       end    |-> o + filter.n + next.n]

\* The offsets of a chain of actions, from o to its end or to an action that
\* was found before.
Chain(buf, base, found, o) ==
  LET from[p \in Nat] ==
        IF p \in Range(found) THEN <<>>
        ELSE LET a == ActionAt(buf, base, p)
             IN  <<p>> \o (IF a.next = NoAction THEN <<>> ELSE from[a.next])
  IN  from[o]

\* The offsets of the actions, in the order in which readActionTable comes
\* upon them.
Found(buf, base, sites) ==
  FoldLeft(LAMBDA found, s : IF s[4] = 0 THEN found
                             ELSE found \o Chain(buf, base, found, s[4] - 1),
           <<>>, sites)

\* The highest offset that any of them reaches: there the type table may
\* begin.
ActionsEnd(buf, base, found) ==
  FoldLeft(LAMBDA m, o : IF ActionAt(buf, base, o).end > m THEN ActionAt(buf, base, o).end ELSE m,
           0, found)

readActionTable(buf, base, found) ==
  [k \in DOMAIN found |->
     LET a == ActionAt(buf, base, found[k])
     IN  Action(a.filter, IF a.next = NoAction THEN NoAction ELSE IndexOf(found, a.next))]

\* readTypeTable: as many types as fit between the actions and ttBase, the
\* first one at the end.
readTypeTable(buf, start, ttBase, enc, address) ==
  LET n == getPointerSizeFromEHPointerEncoding(enc)
  IN  IF enc = DW_EH_PE_omit \/ ttBase < start THEN <<>>
      ELSE [k \in 1..((ttBase - start) \div n) |->
              decodeEHPointer(buf.at[ttBase - k * n], address + ttBase - k * n, enc).value]

\* The header of the LSDA at an offset: the encodings, the end of the types
\* and where the call sites are.
Header(buf, offset) ==
  LET ttEncoding == buf.at[offset + 1].v
      base       == IF ttEncoding = DW_EH_PE_omit THEN Field(0, 0) ELSE buf.at[offset + 2]
      format     == offset + 2 + base.n
      length     == buf.at[format + 1]
      sites      == format + 1 + length.n
  IN  [ttEncoding |-> ttEncoding, ttBase |-> offset + 2 + base.n + base.v,
       format |-> buf.at[format].v, sites |-> sites, actions |-> sites + length.v]

\* One turn of the loop of parseExceptFrame; gcc writes no lpStart.
parseLSDA(buf, offset, address) ==
  LET h       == Header(buf, offset)
      sites   == readCallSiteTable(buf, h.sites, h.actions, h.format, address)
      found   == Found(buf, h.actions, sites)
  IN  [ttEncoding    |-> h.ttEncoding,
       callSiteTable |-> [k \in DOMAIN sites |->
                            CallSite(sites[k][1], sites[k][2], sites[k][3],
                                     IF sites[k][4] = 0 THEN NoAction
                                     ELSE IndexOf(found, sites[k][4] - 1))],
       actionTable   |-> readActionTable(buf, h.actions, found),
       typeTable     |-> readTypeTable(buf, h.actions + ActionsEnd(buf, h.actions, found),
                                       h.ttBase, h.ttEncoding, address)]

-----------------------------------------------------------------------------
(* Building.                                                                *)

Bytes(fields) == FoldLeft(LAMBDA n, f : n + f.n, 0, fields)

\* The actions that the loop of buildExceptTableRawData writes from action j
\* on: each right before its next one, up to one that is written already.
Unwritten(table, written, j) ==
  LET from[k \in Int] ==
        IF k = NoAction \/ k \in Range(written) THEN <<>>
        ELSE <<k>> \o from[table[k + 1].nextAction]
  IN  from[j]

WriteOrder(table) ==
  FoldLeft(LAMBDA order, j : order \o Unwritten(table, order, j),
           <<>>, [k \in DOMAIN table |-> k - 1])

\* One action at the end of those written: an action that follows is one
\* byte away, and to one that is there already the way is counted from the
\* number that says so.
WriteAction(w, table, k) ==
  LET a      == table[k + 1]
      filter == Uleb(a.typeFilterIndex + 1)
      here   == Bytes(w.fields) + filter.n
      next   == IF a.nextAction = NoAction THEN Field(0, 1)
                ELSE IF a.nextAction \in DOMAIN w.offsets
                       THEN Sleb(w.offsets[a.nextAction] - here)
                       ELSE Field(1, 1)
  IN  [fields |-> w.fields \o <<filter, next>>, offsets |-> (k :> Bytes(w.fields)) @@ w.offsets]

\* The action table, and at which offsets its actions are.
Actions(table) ==
  FoldLeft(LAMBDA w, k : WriteAction(w, table, k), [fields |-> <<>>, offsets |-> <<>>],
           WriteOrder(table))

WriteCallSite(s, offsets) ==
  <<Uleb(s.position), Uleb(s.length), Uleb(s.landingPadPosition),
    IF s.firstAction = NoAction THEN Field(0, 1) ELSE Uleb(1 + offsets[s.firstAction])>>

CallSites(table, offsets) == FlattenSeq([k \in DOMAIN table |-> WriteCallSite(table[k], offsets)])

\* How many bytes the offset to the end of the types takes is settled
\* before the offset is known, with room for up to three bytes of padding.
TtBaseBytes(guess) == IF guess \in 112..127 THEN 2 ELSE Uleb(guess).n

\* Mutant: the first type first.
TypesInOrder(lsda, address) ==
  [k \in 1..Len(lsda.typeTable) |->
     encodeEHPointerFromEncoding(lsda.typeTable[k], lsda.ttEncoding, address)]

\* The types, the last one first.  Where a pointer is taken to be depends on
\* how many types are yet to come.
Types(lsda, address) ==
  LET n     == getPointerSizeFromEHPointerEncoding(lsda.ttEncoding)
      count == Len(lsda.typeTable)
  IN  [k \in 1..count |->
         LET j == count - k
         IN  encodeEHPointerFromEncoding(lsda.typeTable[j + 1], lsda.ttEncoding,
                                         address + (k - 1) * n + j * n)]

\* How long the parts of an LSDA are: the number that says where the types
\* end, what is between it and the padding, and all before the types.
Layout(lsda, sites, actions) ==
  LET ttSize  == Len(lsda.typeTable) * getPointerSizeFromEHPointerEncoding(lsda.ttEncoding)
      between == 1 + Uleb(Bytes(sites)).n + Bytes(sites) + Bytes(actions)
      baseLen == TtBaseBytes(between + ttSize)
  IN  [ttSize |-> ttSize, baseLen |-> baseLen, unpadded |-> 2 + baseLen + between,
       top |-> Aligned(2 + baseLen + between, 4)]

FieldsOf(lsda, layout, sites, actions, types) ==
  LET start  == <<Field(DW_EH_PE_omit, 1), Field(lsda.ttEncoding, 1)>>
      base   == Field(layout.top + layout.ttSize - 2 - layout.baseLen, layout.baseLen)
      tables == <<Field(uleb128, 1), Uleb(Bytes(sites))>> \o sites \o actions
      pad    == IF layout.top = layout.unpadded THEN <<>>
                ELSE <<Field(0, layout.top - layout.unpadded)>>
  IN  IF lsda.ttEncoding = DW_EH_PE_omit THEN start \o tables
      ELSE start \o <<base>> \o tables \o pad \o types

\* An LSDA begins at an offset that 4 divides.
PaddedTo4(buf) ==
  IF buf.len % 4 = 0 THEN buf
  ELSE addToGrowingBuffer(buf, Field(0, Aligned(buf.len, 4) - buf.len))

\* One turn of the loop of buildExceptTableRawData.
buildLSDA(buf, lsda, address) ==
  LET actions == Actions(lsda.actionTable)
      sites   == CallSites(lsda.callSiteTable, actions.offsets)
      layout  == Layout(lsda, sites, actions.fields)
  IN  Filled(PaddedTo4(buf),
             FieldsOf(lsda, layout, sites, actions.fields,
                      Types(lsda, address + Aligned(buf.len, 4) + layout.top)))
=============================================================================
