--------------------------------- MODULE Types ---------------------------------
(***************************************************************************)
(* The table of types (src/src/types.c): the basic types, which are always *)
(* there, and a row for each derived type, made when it is first asked for *)
(* and found again after.  A handle is a type's place in the table.        *)
(* Pointers are also found through a cache from what they point to.        *)
(*                                                                         *)
(* A table is [rows, cache].  What makes or finds a type returns the       *)
(* handle with the table after it, and CT_VOID when there is no room.  The *)
(* host's refusals of memory look like a full table and are left out.      *)
(***************************************************************************)
EXTENDS CExpressions, SequencesExt

CONSTANTS TypeLimit,     \* how many derived types the table holds
          SizeLimit,     \* sizes are counted modulo this
          CountLimit,    \* the longest array
          NameLimit,     \* what fits of a parameter's name, in tokens
          PointerBytes, FloatBytes, DoubleBytes

ASSUME TypesAssumption ==
    /\ {TypeLimit, CountLimit, NameLimit, SizeLimit, PointerBytes, FloatBytes, DoubleBytes} \subseteq Nat \ {0}
    /\ PointerBytes < SizeLimit

CT_FLOAT  == 12
CT_DOUBLE == 13

Blank == [kind |-> "void", target |-> CT_VOID, count |-> 0, size |-> 0, align |-> 1, complete |-> FALSE,
          tag |-> "", members |-> <<>>, parameters |-> <<>>, variadic |-> FALSE]
Scalar(bytes) == [Blank EXCEPT !.kind = "scalar", !.size = bytes, !.align = bytes, !.complete = TRUE]
BasicRow(type) == CASE type \in IntegerTypes -> Scalar(Bytes[type])
                    [] type = CT_FLOAT       -> Scalar(FloatBytes)
                    [] type = CT_DOUBLE      -> Scalar(DoubleBytes)
                    [] OTHER                 -> [Blank EXCEPT !.complete = TRUE]

With(f, key, value) == [k \in DOMAIN f \cup {key} |-> IF k = key THEN value ELSE f[k]]

NoTypes == [rows |-> <<>>, cache |-> << >>]
Info(table, type) == IF type <= CT_VOID THEN BasicRow(type) ELSE table.rows[type - CT_VOID]
Kind(table, type) == Info(table, type).kind
IsObject(table, type) == Info(table, type).complete /\ Info(table, type).size # 0

Got(type, table) == [type |-> type, table |-> table]

\* append: the next row, if there is room for one.
AppendRow(table, row) ==
    IF Len(table.rows) = TypeLimit THEN Got(CT_VOID, table)
    ELSE Got(CT_VOID + Len(table.rows) + 1, [table EXCEPT !.rows = Append(@, row)])

\* What makes two derived types one: they are searched for from the first row.
Identity(row) == <<row.kind, row.target, row.count, row.parameters, row.variadic>>
Interned(table, row, at) == IF at > 0 THEN Got(CT_VOID + at, table) ELSE AppendRow(table, row)
Intern(table, row) ==
    Interned(table, row, SelectInSeq(table.rows, LAMBDA r : Identity(r) = Identity(row)))

PointerRow(target) == [Scalar(PointerBytes) EXCEPT !.kind = "pointer", !.target = target]
Remembered(got, target) ==
    IF got.type = CT_VOID THEN got ELSE [got EXCEPT !.table.cache = With(@, target, got.type)]
TypePointer(table, target) ==
    IF target \in DOMAIN table.cache THEN Got(table.cache[target], table)
    ELSE Remembered(Intern(table, PointerRow(target)), target)

\* Its element must be an object, and its size a size; an array of no elements is incomplete.
ArrayRow(element, size, align, count) ==
    [Blank EXCEPT !.kind = "array", !.target = element, !.count = count, !.size = size * count, !.align = align,
                  !.complete = count # 0]
TypeArray(table, element, count) ==
    IF \/ ~IsObject(table, element)
       \/ count > CountLimit
       \/ count # 0 /\ Info(table, element).size > (SizeLimit - 1) \div count
    THEN Got(CT_VOID, table)
    ELSE Intern(table, ArrayRow(element, Info(table, element).size, Info(table, element).align, count))

TypeFunction(table, result, parameters, variadic) ==
    Intern(table, [Blank EXCEPT !.kind = "function", !.target = result, !.parameters = parameters,
                                !.variadic = variadic])

\* An aggregate is a type of its own each time.
TypeAggregate(table, kind, tag) == AppendRow(table, [Blank EXCEPT !.kind = kind, !.tag = tag])

\* Arrays and functions are used as pointers.
TypeDecay(table, type) ==
    CASE Kind(table, type) = "array"    -> TypePointer(table, Info(table, type).target)
      [] Kind(table, type) = "function" -> TypePointer(table, type)
      [] OTHER -> Got(type, table)

-----------------------------------------------------------------------------
(* Aggregates grow until they are finished. *)

LargerOf(a, b) == IF a > b THEN a ELSE b

\* A defect to test the properties with: a member begins where the one before it ends.
Unpadded(size, align) == size

\* The next place from size that is a multiple of align.
Padded(size, align) == (IF size % align = 0 THEN size ELSE size + align - (size % align)) % SizeLimit

\* Nothing, or the table with one member more.
CanAdd(table, aggregate, name, type) ==
    /\ ~Info(table, aggregate).complete
    /\ IsObject(table, type)
    /\ \A k \in DOMAIN Info(table, aggregate).members : Info(table, aggregate).members[k].name # name

Grown(row, name, type, size, align, offset) ==
    [row EXCEPT !.members = Append(@, [name |-> name, type |-> type, offset |-> offset]),
                !.size = IF row.kind = "union" THEN LargerOf(@, size) ELSE (offset + size) % SizeLimit,
                !.align = LargerOf(@, align)]
AddMember(table, aggregate, name, type) ==
    [table EXCEPT !.rows[aggregate - CT_VOID] =
        Grown(@, name, type, Info(table, type).size, Info(table, type).align,
              IF @.kind = "union" THEN 0 ELSE Padded(@.size, Info(table, type).align))]

CanFinish(table, aggregate) ==
    ~Info(table, aggregate).complete /\ Info(table, aggregate).members # <<>>
Finish(table, aggregate) ==
    [table EXCEPT !.rows[aggregate - CT_VOID] = [@ EXCEPT !.size = Padded(@, table.rows[aggregate - CT_VOID].align),
                                                          !.complete = TRUE]]

-----------------------------------------------------------------------------
(* The name of a type, as tokens: what stands before a declarator and what after it. *)

BasicName(type) ==
    CASE type = CT_BOOL -> <<"_Bool">>    [] type = CT_CHAR -> <<"char">>
      [] type = CT_SCHAR -> <<"signed", "char">>  [] type = CT_UCHAR -> <<"unsigned", "char">>
      [] type = CT_SHORT -> <<"short">>   [] type = CT_USHORT -> <<"unsigned", "short">>
      [] type = CT_INT -> <<"int">>       [] type = CT_UINT -> <<"unsigned", "int">>
      [] type = CT_LONG -> <<"long">>     [] type = CT_ULONG -> <<"unsigned", "long">>
      [] type = CT_LLONG -> <<"long", "long">>    [] type = CT_ULLONG -> <<"unsigned", "long", "long">>
      [] type = CT_FLOAT -> <<"float">>   [] type = CT_DOUBLE -> <<"double">>   [] OTHER -> <<"void">>

NumberWord(n) == CHOOSE word \in DOMAIN Literals : Literals[word] = [value |-> n, unsigned |-> FALSE, longs |-> 0, octal |-> FALSE]

Parts(prefix, suffix) == [prefix |-> prefix, suffix |-> suffix]

\* A defect to test the properties with: the bounds of an array follow those of its elements.
BoundsLast(inner, count) == Parts(inner.prefix, inner.suffix \o <<"[", NumberWord(count), "]">>)

\* The bounds of an array come before those of its elements.
Bounds(inner, count) == Parts(inner.prefix, <<"[", NumberWord(count), "]">> \o inner.suffix)

RECURSIVE NameParts(_, _)
Joined(parts) == parts.prefix \o parts.suffix

\* ct_type_name, into the 128 characters there are for a parameter.
Cut(name) == SubSeq(name, 1, IF Len(name) > NameLimit THEN NameLimit ELSE Len(name))

PointerTo(inner, kind) ==
    IF kind \in {"array", "function"} THEN Parts(inner.prefix \o <<"(", "*">>, <<")">> \o inner.suffix)
    ELSE Parts(Append(inner.prefix, "*"), inner.suffix)
Listed(table, row) ==
    (IF row.parameters = <<>> THEN IF row.variadic THEN <<>> ELSE <<"void">>
     ELSE FlattenSeq([k \in DOMAIN row.parameters |->
                         (IF k = 1 THEN <<>> ELSE <<",">>) \o Cut(Joined(NameParts(table, row.parameters[k])))]))
    \o (IF ~row.variadic THEN <<>> ELSE IF row.parameters = <<>> THEN <<"...">> ELSE <<",", "...">>)
Called(inner, list) == Parts(inner.prefix, <<"(">> \o list \o <<")">> \o inner.suffix)

NameParts(table, type) ==
    LET row == Info(table, type)
    IN CASE row.kind = "pointer"  -> PointerTo(NameParts(table, row.target), Kind(table, row.target))
         [] row.kind = "array"    -> Bounds(NameParts(table, row.target), row.count)
         [] row.kind = "function" -> Called(NameParts(table, row.target), Listed(table, row))
         [] row.kind \in {"struct", "union"} -> Parts(<<row.kind, row.tag>>, <<>>)
         [] OTHER -> Parts(BasicName(type), <<>>)
==============================================================================
