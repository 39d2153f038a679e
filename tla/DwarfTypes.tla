------------------------------ MODULE DwarfTypes ------------------------------
(***************************************************************************)
(* How katana reads types, variables and functions from .debug_info        *)
(* (dwarftypes.c).  The entries (DIEs) of a file are a tree and refer to   *)
(* each other's types in any order and in circles: walkDieTree walks the   *)
(* tree, and where a type is needed that has not been read it walks there  *)
(* first.                                                                  *)
(*                                                                         *)
(* A DIE is named by its offset, and a type in katana's memory by the DIE  *)
(* that it was made of.  An attribute a DIE does not have is 0, "", FALSE, *)
(* or NULL for the place of a member.                                      *)
(***************************************************************************)
EXTENDS Integers, Sequences, FiniteSets, SequencesExt, TLC

CONSTANTS Files   \* contents of .debug_info: sequences of DIEs

NULL == -1
Void == 0         \* the type that parseCompileUnit makes

VARIABLES
  dies,      \* the file
  units,     \* the DIEs of compilation units that are yet to be read
  ids,       \* cuIdentifiers
  infos,     \* the TypeInfos of the unit that is read
  types,     \* its types by name
  parsed,    \* parsedDies: what katana has made of a DIE
  globals,   \* its globalVars
  subs,      \* its subprograms
  active,    \* activeSubprograms, the innermost last
  stack,     \* frames of walkDieTree, the innermost last
  pc         \* "reading", "done", or how katana ended

unit == <<infos, types, parsed, globals, subs>>
vars == <<dies, units, ids, unit, active, stack, pc>>

-----------------------------------------------------------------------------
(* DIEs.                                                                    *)

Tag(d) == dies[d].tag

\* getRangeFromDie: the bounds of an array's dimensions.
getRangeFromDie(d) ==
  LET ranges == SelectSeq(dies[d].children, LAMBDA c : Tag(c) = "subrange_type")
  IN  [k \in DOMAIN ranges |-> <<dies[ranges[k]].lower, dies[ranges[k]].upper>>]

\* A name, with what is written before it and behind it.
Called(base) == [base |-> base, of |-> 0, before |-> <<>>, behind |-> <<>>]

Before(word, name)  == [name EXCEPT !.before = <<word>> \o @]
Behind(name, ranges) == [name EXCEPT !.behind = Append(@, ranges)]
Star == <<>>      \* what a pointer has where an array has its ranges

\* getNameForDie: a DIE without a name has one after the type it refers to,
\* or after its own offset.  To the reader of the name, a const pointer and a
\* pointer to what is const are the same.
getNameForDie[d \in Int] ==
  LET ofType == IF dies[d].type = Void THEN Called("void") ELSE getNameForDie[dies[d].type]
  IN  CASE dies[d].name # ""         -> Called(dies[d].name)
        [] Tag(d) = "const_type"     -> Before("const", ofType)
        [] Tag(d) = "volatile_type"  -> Before("volatile", ofType)
        [] Tag(d) = "pointer_type"   -> Behind(ofType, Star)
        [] Tag(d) = "array_type"     -> [ofType EXCEPT !.behind = @ \o getRangeFromDie(d)]
        [] OTHER                     -> [Called("anon") EXCEPT !.of = d]

\* The children that a structure, a union or a subroutine type reads itself.
Members(d) ==
  SelectSeq(dies[d].children, LAMBDA c :
    IF Tag(d) = "subroutine_type" THEN Tag(c) \in {"formal_parameter", "unspecified_parameters"}
    ELSE Tag(c) = "member")

-----------------------------------------------------------------------------
(* Frames.  member counts the members of a type that is being read, guess   *)
(* is where the next one is expected; data is what parseDie returns.        *)

Frame(d, siblings) ==
  [die |-> d, siblings |-> siblings, at |-> "parse", member |-> 0, guess |-> 0,
   asked |-> FALSE, data |-> NULL]

top == Last(stack)

Continue(f) == stack' = Append(Front(stack), f)

At(where) == pc = "reading" /\ stack # <<>> /\ top.at = where

AtTag(where, tags) == At(where) /\ Tag(top.die) \in tags

Fails(how) == /\ pc' = how
              /\ UNCHANGED <<dies, units, ids, unit, active, stack>>

\* The type getTypeInfoFromATType is asked for, of the DIE or of a member.
Wanted(f) == dies[IF f.member = 0 THEN f.die ELSE Members(f.die)[f.member]].type

Parsed(t) == IF t = Void THEN Void ELSE IF t \in DOMAIN parsed THEN parsed[t] ELSE NULL

\* It walks to a type that has not been read, once.
WalkToType ==
  /\ At("type") /\ Parsed(Wanted(top)) = NULL /\ ~top.asked
  /\ stack' = Front(stack) \o <<[top EXCEPT !.asked = TRUE], Frame(Wanted(top), FALSE)>>
  /\ UNCHANGED <<dies, units, ids, unit, active, pc>>

\* Then there is an answer, which may be NULL.
Answered == At("type") /\ (top.asked \/ Parsed(Wanted(top)) # NULL)
Answer == Parsed(Wanted(top))

\* The end of parseDie: what was made of the DIE, and whether its children
\* are to be walked.
MapSet(map, d, result) == IF result # NULL \/ d \notin DOMAIN map THEN (d :> result) @@ map ELSE map

Return(result, children) ==
  /\ parsed' = MapSet(parsed, top.die, result)
  /\ Continue([top EXCEPT !.at = IF children THEN "children" ELSE "end", !.data = result])

-----------------------------------------------------------------------------
Type(kind, name, length) ==
  [kind |-> kind, name |-> name, length |-> length, incomplete |-> FALSE, declaration |-> FALSE,
   fields |-> <<>>, pointed |-> NULL, variadic |-> FALSE, fde |-> 0]

-----------------------------------------------------------------------------
(* Compilation units.                                                       *)

\* The unit's types are added to those of the unit before.
StartUnitOnTheTablesOfTheLast ==
  /\ pc = "reading" /\ stack = <<>> /\ units # <<>>
  /\ \E d \in {Head(units)} :
     \E id \in {IF <<dies[d].name>> \in ids THEN <<dies[d].name, dies[d].comp_dir>>
                ELSE <<dies[d].name>>} :
       IF id \in ids THEN Fails("assertion")
       ELSE /\ ids' = ids \cup {id}
            /\ units' = Tail(units)
            /\ infos' = infos @@ Void :> Type("void", Called("void"), 0)
            /\ types' = types @@ Called("void") :> Void
            /\ parsed' = d :> d
            /\ globals' = <<>> /\ subs' = <<>>
            /\ stack' = <<[Frame(d, TRUE) EXCEPT !.at = "children", !.data = d]>>
            /\ UNCHANGED <<dies, active, pc>>

\* The tables of a unit are its own; the map of DIEs is, too.  A unit whose
\* name was met before is told from it by its directory.
StartUnit ==
  /\ pc = "reading" /\ stack = <<>> /\ units # <<>>
  /\ \E d \in {Head(units)} :
     \E id \in {IF <<dies[d].name>> \in ids THEN <<dies[d].name, dies[d].comp_dir>>
                ELSE <<dies[d].name>>} :
       IF id \in ids THEN Fails("assertion")
       ELSE /\ ids' = ids \cup {id}
            /\ units' = Tail(units)
            /\ infos' = Void :> Type("void", Called("void"), 0)
            /\ types' = Called("void") :> Void
            /\ parsed' = d :> d
            /\ globals' = <<>> /\ subs' = <<>>
            /\ stack' = <<[Frame(d, TRUE) EXCEPT !.at = "children", !.data = d]>>
            /\ UNCHANGED <<dies, active, pc>>

AllRead ==
  /\ pc = "reading" /\ stack = <<>> /\ units = <<>>
  /\ pc' = "done"
  /\ UNCHANGED <<dies, units, ids, unit, active, stack>>

-----------------------------------------------------------------------------
(* parseDie.  Types are put into the table of names by dictInsert, which    *)
(* takes each name once, or by dictSet.                                     *)

NewType(d, kind) ==
  [Type(kind, getNameForDie[d], dies[d].size) EXCEPT
     !.incomplete = TRUE,
     !.declaration = dies[d].declaration \/ Tag(d) = "subroutine_type"]

Whole(d, info) == [info EXCEPT !.incomplete = FALSE, !.fde = dies[d].fde]

\* A DIE that was read before, on the way to a type.
ParsedBefore ==
  /\ At("parse") /\ top.die \in DOMAIN parsed
  /\ Continue([top EXCEPT !.at = "end"])
  /\ UNCHANGED <<dies, units, ids, unit, active, pc>>

Unread(tags) == AtTag("parse", tags) /\ top.die \notin DOMAIN parsed

\* addBaseTypeFromDie and addEnumFromDie; without a size there is no type.
addBaseTypeFromDie ==
  /\ Unread({"base_type", "enumeration_type"})
  /\ \E d \in {top.die} : \E name \in {getNameForDie[d]} :
       IF dies[d].size = 0
         THEN Return(NULL, Tag(d) = "base_type") /\ UNCHANGED <<infos, types, pc>>
       ELSE IF name \in DOMAIN types
         THEN pc' = "assertion" /\ UNCHANGED <<infos, types, parsed, stack>>
       ELSE /\ infos' = d :> Whole(d, NewType(d, Tag(d))) @@ infos
            /\ types' = name :> d @@ types
            /\ Return(d, Tag(d) = "base_type")
            /\ UNCHANGED pc
  /\ UNCHANGED <<dies, units, ids, globals, subs, active>>

\* Reading begins of a type that may lead to itself: it is entered first.
Enter(d, obj, info, name) ==
  /\ infos' = obj :> info @@ infos
  /\ types' = name :> obj @@ types
  /\ parsed' = d :> obj @@ parsed
  /\ Continue([top EXCEPT !.at = "type", !.data = obj])

\* addStructureFromDie.  A structure with the name of a declaration takes its
\* place, and what it was it remains: the definition is not read.
addStructureFromDie ==
  /\ Unread({"structure_type"})
  /\ \E d \in {top.die} : \E name \in {getNameForDie[d]} :
     LET known   == name \in DOMAIN types
         obj     == IF known THEN types[name] ELSE d
         info    == [NewType(d, "structure_type") EXCEPT
                       !.declaration = @ \/ (known /\ infos[obj].declaration)]
         members == Members(d)
     IN  IF known /\ ~infos[obj].declaration
           THEN pc' = "death" /\ UNCHANGED <<infos, types, parsed, stack>>
         ELSE IF info.declaration
           THEN /\ infos' = obj :> [info EXCEPT !.length = 0, !.incomplete = FALSE] @@ infos
                /\ types' = name :> obj @@ types
                /\ Return(obj, FALSE)
                /\ UNCHANGED pc
         ELSE IF members = <<>>
           THEN /\ infos' = obj :> Whole(d, info) @@ infos
                /\ types' = name :> obj @@ types
                /\ Return(obj, FALSE)
                /\ UNCHANGED pc
         ELSE /\ infos' = obj :> info @@ infos
              /\ types' = name :> obj @@ types
              /\ parsed' = d :> obj @@ parsed
              /\ Continue([top EXCEPT !.at = "type", !.member = 1, !.data = obj])
              /\ UNCHANGED pc
  /\ UNCHANGED <<dies, units, ids, globals, subs, active>>

\* addUnionFromDie, and addSubroutineType, which wants a prototype.
addUnionFromDie ==
  /\ Unread({"union_type", "subroutine_type"})
  /\ \E d \in {top.die} : \E name \in {getNameForDie[d]} :
     LET info == NewType(d, Tag(d))
     IN  IF Tag(d) = "subroutine_type" /\ ~dies[d].prototyped
           THEN pc' = "death" /\ UNCHANGED <<infos, types, parsed, stack>>
         ELSE IF name \in DOMAIN types
           THEN pc' = "assertion" /\ UNCHANGED <<infos, types, parsed, stack>>
         ELSE /\ types' = name :> d @@ types
              /\ IF Members(d) = <<>>
                   THEN infos' = d :> Whole(d, info) @@ infos /\ Return(d, Tag(d) = "subroutine_type")
                   ELSE /\ infos' = d :> info @@ infos
                        /\ parsed' = d :> d @@ parsed
                        /\ Continue([top EXCEPT !.at = "type", !.member = 1, !.data = d])
              /\ UNCHANGED pc
  /\ UNCHANGED <<dies, units, ids, globals, subs, active>>

\* A member whose type is known.  Where it does not say where it is, it
\* follows those before, in a union too.
NewField(c, type) ==
  [name |-> getNameForDie[c], type |-> type,
   offset |-> IF dies[c].location = NULL THEN top.guess ELSE dies[c].location]

AddMember ==
  /\ AtTag("type", {"structure_type", "union_type", "subroutine_type"}) /\ Answered
  /\ \E c \in {Members(top.die)[top.member]} :
     \E info \in {[infos[top.data] EXCEPT !.fields = Append(@, NewField(c, Answer)),
                                          !.variadic = @ \/ Tag(c) = "unspecified_parameters"]} :
       IF Answer = NULL
         THEN pc' = "death" /\ UNCHANGED <<infos, parsed, stack>>
       ELSE IF top.member < Len(Members(top.die))
         THEN /\ infos' = top.data :> info @@ infos
              /\ Continue([top EXCEPT !.member = @ + 1, !.asked = FALSE,
                                     !.guess = @ + infos[Answer].length])
              /\ UNCHANGED <<parsed, pc>>
       ELSE /\ infos' = top.data :> Whole(top.die, info) @@ infos
            /\ Return(top.data, Tag(top.die) = "subroutine_type")
            /\ UNCHANGED pc
  /\ UNCHANGED <<dies, units, ids, types, globals, subs, active>>

\* addPointerTypeFromDie and addConstTypeFromDie: there is one for a name.
addPointerTypeFromDie ==
  /\ Unread({"pointer_type", "const_type"})
  /\ \E d \in {top.die} : \E name \in {getNameForDie[d]} :
       IF name \in DOMAIN types
         THEN Return(types[name], TRUE) /\ UNCHANGED <<infos, types>>
         ELSE Enter(d, d, NewType(d, Tag(d)), name)
  /\ UNCHANGED <<dies, units, ids, globals, subs, active, pc>>

\* A const is as long as the type it refers to is by now.
FinishPointer ==
  /\ AtTag("type", {"pointer_type", "const_type"}) /\ Answered
  /\ IF Answer = NULL /\ Tag(top.die) = "const_type"
       THEN pc' = "death" /\ UNCHANGED <<infos, parsed, stack>>
       ELSE /\ infos' = [infos EXCEPT ![top.data] =
                 [Whole(top.die, @) EXCEPT !.pointed = Answer,
                    !.length = IF Tag(top.die) = "const_type" THEN infos[Answer].length ELSE @]]
            /\ Return(top.data, TRUE)
            /\ UNCHANGED pc
  /\ UNCHANGED <<dies, units, ids, types, globals, subs, active>>

\* addArrayTypeFromDie: it has no name until it is whole.  The length of a
\* dimension is the difference of its bounds, the last one of which belongs
\* to the array, and the dimensions are added up.
addArrayTypeFromDie ==
  /\ Unread({"array_type"})
  /\ infos' = top.die :> [NewType(top.die, "array_type") EXCEPT !.length = 0] @@ infos
  /\ parsed' = top.die :> top.die @@ parsed
  /\ Continue([top EXCEPT !.at = "type", !.data = top.die])
  /\ UNCHANGED <<dies, units, ids, types, globals, subs, active, pc>>

ArrayLength(element, ranges) ==
  FoldLeft(LAMBDA sum, r : sum + element * (r[2] - r[1]), 0, ranges)

FinishArray ==
  /\ AtTag("type", {"array_type"}) /\ Answered
  /\ \E name \in {getNameForDie[top.die]} :
       IF Answer = NULL THEN pc' = "death" /\ UNCHANGED <<infos, types, parsed, stack>>
       ELSE IF name \in DOMAIN types
         THEN pc' = "assertion" /\ UNCHANGED <<infos, types, parsed, stack>>
       ELSE /\ infos' = [infos EXCEPT ![top.die] =
                 [Whole(top.die, @) EXCEPT !.pointed = Answer,
                    !.length = ArrayLength(infos[Answer].length, getRangeFromDie(top.die))]]
            /\ types' = name :> top.die @@ types
            /\ Return(top.die, FALSE)
            /\ UNCHANGED pc
  /\ UNCHANGED <<dies, units, ids, globals, subs, active>>

\* What refers to a type and is none: it waits for it first.
Referring == {"typedef", "volatile_type", "variable", "formal_parameter"}

WantType ==
  /\ Unread(Referring)
  /\ Continue([top EXCEPT !.at = "type"])
  /\ UNCHANGED <<dies, units, ids, unit, active, pc>>

\* The name is entered, and no type is returned for the DIE.
addTypedefByNameOnly ==
  /\ AtTag("type", {"typedef", "volatile_type"}) /\ Answered
  /\ \E name \in {getNameForDie[top.die]} :
       types' = IF Answer = NULL \/ name \in DOMAIN types THEN types ELSE name :> Answer @@ types
  /\ Return(NULL, TRUE)
  /\ UNCHANGED <<dies, units, ids, infos, globals, subs, active, pc>>

\* addTypedefFromDie, for volatile too: another name for the type.
addTypedefFromDie ==
  /\ AtTag("type", {"typedef", "volatile_type"}) /\ Answered
  /\ \E name \in {getNameForDie[top.die]} :
       types' = IF Answer = NULL \/ name \in DOMAIN types THEN types ELSE name :> Answer @@ types
  /\ Return(Answer, TRUE)
  /\ UNCHANGED <<dies, units, ids, infos, globals, subs, active, pc>>

\* The types of parameters and variables are those the functions that are
\* being read use.
Using(type) == [s \in DOMAIN subs |-> IF s \in Range(active)
                                        THEN [subs[s] EXCEPT !.uses = Append(@, type)] ELSE subs[s]]

\* The first variable of a name stays.
addVarOnceFromDie ==
  /\ AtTag("type", {"variable"}) /\ Answered
  /\ \E name \in {getNameForDie[top.die]} :
       globals' = IF Answer = NULL \/ active # <<>> \/ name \in DOMAIN globals THEN globals
                  ELSE name :> [type |-> Answer, declaration |-> dies[top.die].declaration]
                         @@ globals
  /\ subs' = IF Answer = NULL THEN subs ELSE Using(Answer)
  /\ Return(IF Answer = NULL THEN NULL ELSE top.die, TRUE)
  /\ UNCHANGED <<dies, units, ids, infos, types, active, pc>>

\* addVarFromDie: outside functions it is a global variable, which may be
\* declared before it is defined.
addVarFromDie ==
  /\ AtTag("type", {"variable"}) /\ Answered
  /\ \E name \in {getNameForDie[top.die]} :
       IF Answer = NULL THEN Return(NULL, TRUE) /\ UNCHANGED <<globals, subs, pc>>
       ELSE IF active = <<>> /\ name \in DOMAIN globals /\ ~globals[name].declaration
         THEN pc' = "death" /\ UNCHANGED <<globals, subs, parsed, stack>>
       ELSE /\ globals' = IF active # <<>> THEN globals
                          ELSE name :> [type |-> Answer, declaration |-> dies[top.die].declaration]
                                 @@ globals
            /\ subs' = Using(Answer)
            /\ Return(top.die, TRUE)
            /\ UNCHANGED pc
  /\ UNCHANGED <<dies, units, ids, infos, types, active>>

parseFormalParameter ==
  /\ AtTag("type", {"formal_parameter"}) /\ Answered
  /\ subs' = IF Answer = NULL THEN subs ELSE Using(Answer)
  /\ Return(NULL, TRUE)
  /\ UNCHANGED <<dies, units, ids, infos, types, globals, active, pc>>

parseUnspecifiedParameters ==
  /\ Unread({"unspecified_parameters"})
  /\ subs' = [s \in DOMAIN subs |-> [subs[s] EXCEPT !.variadic = @ \/ s \in Range(active)]]
  /\ Return(NULL, TRUE)
  /\ UNCHANGED <<dies, units, ids, infos, types, globals, active, pc>>

\* addSubprogramFromDie: the function is active while its children are read.
addSubprogramFromDie ==
  /\ Unread({"subprogram"})
  /\ \E name \in {getNameForDie[top.die]} :
       IF name \in DOMAIN subs THEN pc' = "assertion" /\ UNCHANGED <<subs, active, parsed, stack>>
       ELSE /\ subs' = name :> [die |-> top.die, lowpc |-> dies[top.die].low,
                                highpc |-> dies[top.die].high, uses |-> <<>>, variadic |-> FALSE]
                         @@ subs
            /\ active' = Append(active, name)
            /\ Return(top.die, TRUE)
            /\ UNCHANGED pc
  /\ UNCHANGED <<dies, units, ids, infos, types, globals>>

\* Lexical blocks and labels, and what katana does not know.
Handled == {"base_type", "enumeration_type", "structure_type", "union_type", "subroutine_type",
            "pointer_type", "const_type", "array_type", "unspecified_parameters", "subprogram"}
             \cup Referring

\* What is inside a block is not looked at.
ParseOtherWithoutChildren ==
  /\ At("parse") /\ Tag(top.die) \notin Handled /\ top.die \notin DOMAIN parsed
  /\ Return(NULL, FALSE)
  /\ UNCHANGED <<dies, units, ids, infos, types, globals, subs, active, pc>>

ParseOther ==
  /\ At("parse") /\ Tag(top.die) \notin Handled /\ top.die \notin DOMAIN parsed
  /\ Return(NULL, TRUE)
  /\ UNCHANGED <<dies, units, ids, infos, types, globals, subs, active, pc>>

-----------------------------------------------------------------------------
(* walkDieTree after parseDie.                                              *)

WalkChildren ==
  /\ At("children")
  /\ stack' = Front(stack) \o <<[top EXCEPT !.at = "end"]>>
                \o (IF dies[top.die].children = <<>> THEN <<>>
                    ELSE <<Frame(Head(dies[top.die].children), TRUE)>>)
  /\ UNCHANGED <<dies, units, ids, unit, active, pc>>

Parent(d) == CHOOSE p \in DOMAIN dies : d \in Range(dies[p].children)

\* The DIE that follows, or NULL.
Sibling(d) ==
  IF \A p \in DOMAIN dies : d \notin Range(dies[p].children) THEN NULL
  ELSE LET s == dies[Parent(d)].children
           j == CHOOSE k \in DOMAIN s : s[k] = d
       IN  IF j < Len(s) THEN s[j + 1] ELSE NULL

\* endDieChildren, and on to the sibling.
EndDie ==
  /\ At("end")
  /\ \E next \in {IF top.siblings THEN Sibling(top.die) ELSE NULL} :
       IF Tag(top.die) = "subprogram" /\ (active = <<>> \/ subs[Last(active)].die # top.data)
         THEN Fails("assertion")
       ELSE /\ active' = IF Tag(top.die) = "subprogram" THEN Front(active) ELSE active
            /\ stack' = IF next = NULL THEN Front(stack) ELSE Append(Front(stack), Frame(next, TRUE))
            /\ UNCHANGED <<dies, units, ids, unit, pc>>

-----------------------------------------------------------------------------
Init ==
  /\ dies \in Files
  /\ units = SelectSeq([d \in DOMAIN dies |-> d], LAMBDA d : dies[d].tag = "compile_unit")
  /\ ids = {}
  /\ infos = <<>> /\ types = <<>> /\ parsed = <<>> /\ globals = <<>> /\ subs = <<>>
  /\ active = <<>> /\ stack = <<>>
  /\ pc = "reading"

Next == \/ StartUnit \/ AllRead \/ WalkToType \/ ParsedBefore
        \/ addBaseTypeFromDie \/ addStructureFromDie \/ addUnionFromDie \/ AddMember
        \/ addPointerTypeFromDie \/ FinishPointer \/ addArrayTypeFromDie \/ FinishArray
        \/ WantType \/ addTypedefFromDie \/ addVarFromDie \/ parseFormalParameter
        \/ parseUnspecifiedParameters \/ addSubprogramFromDie \/ ParseOther
        \/ WalkChildren \/ EndDie

Spec == Init /\ [][Next]_vars /\ WF_vars(Next)

-----------------------------------------------------------------------------
(* What the file says.                                                      *)

OwnTypes == {"base_type", "enumeration_type", "structure_type", "union_type", "subroutine_type",
             "pointer_type", "const_type", "array_type"}
Types == OwnTypes \cup {"typedef", "volatile_type"}

\* The DIEs under d, and d.
Under[d \in Int] == {d} \cup UNION {Under[c] : c \in Range(dies[d].children)}

\* The type that a name is given to.
Meant[t \in Int] ==
  IF t # Void /\ Tag(t) \in {"typedef", "volatile_type"} THEN Meant[dies[t].type] ELSE t

\* Pointers to the same are the same.
SameType[t \in Int, u \in Int] ==
  \/ Meant[t] = Meant[u]
  \/ /\ Meant[t] # Void /\ Meant[u] # Void
     /\ Tag(Meant[t]) = Tag(Meant[u]) /\ Tag(Meant[t]) \in {"pointer_type", "const_type"}
     /\ SameType[dies[Meant[t]].type, dies[Meant[u]].type]

\* Two types of one name: katana does not tell one from the other.
Clash(d, e) == d # e /\ getNameForDie[d] = getNameForDie[e] /\ ~SameType[d, e]

\* What katana reads to the end: of one unit, no two types of a name, no two
\* functions and no two definitions of a variable; units that differ in name
\* or directory; types that katana knows, have a size, and where there are
\* parameters a prototype.
Duplicate(d, e) ==
  /\ d # e /\ Tag(d) = Tag(e) /\ getNameForDie[d] = getNameForDie[e]
  /\ \/ Tag(d) \in {"structure_type", "array_type", "subprogram"}
     \/ Tag(d) = "variable" /\ ~dies[d].declaration /\ ~dies[e].declaration

Unreadable(d) ==
  \/ Tag(d) = "subroutine_type" /\ ~dies[d].prototyped
  \/ Tag(d) = "enumeration_type" /\ dies[d].size = 0
  \/ Tag(d) = "restrict_type"

Unit(u) == Under[u]
Outside(u) == Unit(u) \ UNION {Under[f] \ {f} : f \in {d \in Unit(u) : Tag(d) = "subprogram"}}

Readable ==
  LET cus == {u \in DOMAIN dies : Tag(u) = "compile_unit"}
  IN  /\ \A u, v \in cus : u # v => <<dies[u].name, dies[u].comp_dir>> # <<dies[v].name, dies[v].comp_dir>>
      /\ \A u \in cus :
           /\ \A d \in Unit(u) : ~Unreadable(d)
           /\ \A d, e \in {t \in Unit(u) : Tag(t) \in Types} : ~Clash(d, e) /\ ~Duplicate(d, e)
           /\ \A d, e \in {t \in Outside(u) : Tag(t) \notin Types} : ~Duplicate(d, e)

-----------------------------------------------------------------------------
(* Properties.                                                              *)

\* A unit has been read and its tables are there.
UnitRead == pc \in {"reading", "done"} /\ stack = <<>> /\ DOMAIN parsed # {}

HasItsName(d) == \A e \in DOMAIN parsed : Tag(e) \in Types => ~Clash(d, e)

\* What katana has made of a type, by whatever name it goes.
Made(t) == Parsed(Meant[t])

AsDeclared(d, info) ==
  /\ info.kind = Tag(d) /\ ~info.incomplete
  /\ dies[d].declaration \/ Tag(d) \in {"array_type", "const_type"} \/ info.length = dies[d].size
  /\ Tag(d) = "const_type" /\ Meant[dies[d].type] # Void
       => \/ Tag(Meant[dies[d].type]) = "array_type"
          \/ info.length = infos[info.pointed].length
  /\ Tag(d) \in {"pointer_type", "const_type", "array_type"} => info.pointed = Made(dies[d].type)
  /\ \A k \in DOMAIN Members(d) :
       LET c == Members(d)[k]
       IN  /\ k \in DOMAIN info.fields
           /\ info.fields[k].type = Made(dies[c].type)
           /\ dies[c].location # NULL => info.fields[k].offset = dies[c].location

\* When a unit has been read, every type katana made of it is what the file
\* declares, however the types refer to each other and wherever the reading
\* of one was interrupted by that of another, as long as it has a name of its
\* own (addStructureFromDie and its like, getTypeInfoFromATType, parsedDies).
TypesAsDeclared ==
  UnitRead =>
    \A d \in DOMAIN parsed :
      Tag(d) \in Types /\ parsed[d] # NULL /\ HasItsName(d) =>
        IF Tag(d) \in OwnTypes THEN AsDeclared(d, infos[parsed[d]])
        ELSE parsed[d] = Made(dies[d].type)

\* When a unit has been read, a function's list of types, by which katana
\* decides whether it may be on the stack while the target is patched, has
\* the type of every parameter and variable in it, in inner blocks too
\* (parseFormalParameter, addVarFromDie, endDieChildren).
UsesCoverLocals ==
  UnitRead =>
    \A s \in DOMAIN subs : \A v \in Under[subs[s].die] :
      /\ Tag(v) \in {"variable", "formal_parameter"}
           => v \in DOMAIN parsed /\ Made(dies[v].type) \in Range(subs[s].uses) \cup {NULL}
      /\ Tag(v) = "unspecified_parameters" => subs[s].variadic

\* When a unit has been read, a global variable that the unit defines is the
\* definition, wherever it is declared as well (addVarFromDie).
DefinitionsWin ==
  UnitRead =>
    \A v \in DOMAIN parsed :
      Tag(v) = "variable" /\ ~dies[v].declaration /\ parsed[v] = v
      /\ (\A s \in DOMAIN subs : v \notin Under[subs[s].die])
        => /\ globals[getNameForDie[v]].type = Made(dies[v].type)
           /\ ~globals[getNameForDie[v]].declaration

\* A readable file is read to the end: the walk ends, though types refer to
\* each other in circles, and katana does not die (walkDieTree).
ReadsToTheEnd == Readable ~> pc = "done"
=============================================================================
