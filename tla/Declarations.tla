------------------------------ MODULE Declarations ------------------------------
(***************************************************************************)
(* Declarations of the session, from their tokens to rows of the table of  *)
(* types and names (src/src/parser.c, src/src/types.c).                    *)
(*                                                                         *)
(* A declarator is read inside out: what follows a parenthesized           *)
(* declarator is parsed first, then the parser goes back for what is       *)
(* inside, and then returns to where it was.  The rows are the process's   *)
(* and stay when a declaration is refused; tags and typedef names are the  *)
(* session's and go with what declared them.                               *)
(*                                                                         *)
(* A script is a sequence of lines, each the tokens of a declaration or    *)
(* Restart, where the last interpreter is destroyed and another created.   *)
(* Storage classes, enums, initializers and bodies, scopes and the limit   *)
(* on syntactic depth are left out.                                        *)
(***************************************************************************)
EXTENDS ExpressionParser, CDeclarations

CONSTANT SuffixLimit      \* how many suffixes a declarator may have

VARIABLES lines,     \* what is still to be typed
          types,     \* the table of types
          known,     \* tags, by kind and name, and typedef names: from each to its type
          declared   \* what the last line came to: the parser's status and what it declared

declarationVars == <<lines, types, known, declared>>

Restart == <<"restart">>
NothingKnown == [tags |-> << >>, aliases |-> << >>]
Nothing == [status |-> "ok", names |-> <<>>]

-----------------------------------------------------------------------------
(* The parser: where it is, its status, the tables, and what it has found so far: a type, the *)
(* name declared, and the parameters that come with it.                                       *)

Parser(table, names) ==
    [at |-> 1, status |-> "ok", table |-> table, known |-> names,
     type |-> CT_INT, name |-> "", parameters |-> <<>>, variadic |-> FALSE]

Stopped(p) == p.status # "ok"
Skip(p, n) == [p EXCEPT !.at = @ + n]
Typed(p, got) == [p EXCEPT !.type = got.type, !.table = got.table]

IsAlias(p, word) == word \in DOMAIN p.known.aliases

\* basic_type: the type the specifiers name, in any order, or none.  The last sign counts.
Count(words, word) == Len(SelectSeq(words, LAMBDA w : w = word))
Sign(words) == LET signs == SelectSeq(words, LAMBDA w : w \in {"signed", "unsigned"})
               IN IF signs = <<>> THEN "" ELSE Last(signs)
Conflict(words) ==
    LET Has(word) == Count(words, word) > 0
        Widths == {"short", "char", "float", "double", "_Bool", "void"}
    IN \/ \E word \in Widths \cup {"int"} : Count(words, word) > 1
       \/ Count(words, "long") > 2
       \/ Cardinality({w \in Widths : Has(w)}) > 1
       \/ (Has("void") \/ Has("_Bool") \/ Has("float")) /\ (Has("int") \/ Has("long") \/ Sign(words) # "")
       \/ Has("double") /\ (Has("int") \/ Sign(words) # "" \/ Has("long"))
       \/ Has("char") /\ (Has("int") \/ Has("long"))
       \/ Has("short") /\ Has("long")
BasicType(words) ==
    LET Has(word) == Count(words, word) > 0
    IN CASE Has("void") -> CT_VOID [] Has("_Bool") -> CT_BOOL [] Has("double") -> CT_DOUBLE [] Has("float") -> CT_FLOAT
         [] Has("char") -> (CASE Sign(words) = "signed" -> CT_SCHAR [] Sign(words) = "unsigned" -> CT_UCHAR
                              [] OTHER -> CT_CHAR)
         [] OTHER -> (CASE Has("short") -> CT_SHORT [] Count(words, "long") = 2 -> CT_LLONG
                        [] Count(words, "long") = 1 -> CT_LONG [] OTHER -> CT_INT)
                     + (IF Sign(words) = "unsigned" THEN 1 ELSE 0)

RECURSIVE Specifiers(_, _, _, _), Declarator(_, _), SuffixList(_, _, _), Parameters(_, _), Members(_, _, _),
          MemberList(_, _, _, _), Past(_, _), AfterParenthesis(_, _, _)

\* The place after any qualifiers.
Past(s, i) == IF s[i] \in Qualifiers THEN Past(s, i + 1) ELSE i

-----------------------------------------------------------------------------
(* Specifiers: basic words, a typedef name, or an aggregate. *)

NoType == -1
Unspecified(p) == [p EXCEPT !.type = CT_INT]
Specified(s, p, words, named) ==
    CASE words = <<>> /\ named = NoType -> Fail(s, Unspecified(p))
      [] named # NoType -> [p EXCEPT !.type = named]
      [] words # <<>> /\ named = NoType /\ Conflict(words) -> Fail(s, Unspecified(p))
      [] OTHER -> [p EXCEPT !.type = BasicType(words)]

DeclareTag(p, kind, tag, type) ==
    [p EXCEPT !.type = type, !.known.tags = IF tag = "" THEN @ ELSE With(@, <<kind, tag>>, type)]
FindTag(p, kind, tag) == IF <<kind, tag>> \in DOMAIN p.known.tags THEN p.known.tags[<<kind, tag>>] ELSE NoType

\* An aggregate that was not heard of: a row, and its tag.
NewAggregate(s, p, kind, tag, got) ==
    IF got.type = CT_VOID THEN Fail(s, Unspecified(p)) ELSE DeclareTag([p EXCEPT !.table = got.table], kind, tag, got.type)
AggregateType(s, p, kind, tag) ==
    IF tag # "" /\ FindTag(p, kind, tag) # NoType THEN [p EXCEPT !.type = FindTag(p, kind, tag)]
    ELSE NewAggregate(s, p, kind, tag, TypeAggregate(p.table, kind, tag))

\* The members come between braces; a finished aggregate has no second definition.
Defined(s, q) ==
    CASE Stopped(q) -> q
      [] ~Stopped(q) /\ Info(q.table, q.type).complete -> Fail(s, Unspecified(q))
      [] OTHER -> [Members(s, Skip(q, 1), q.type) EXCEPT !.type = q.type]
AggregateAt(s, p, kind, tag) ==
    CASE s[p.at] = "{" -> Defined(s, AggregateType(s, p, kind, tag))
      [] s[p.at] # "{" /\ tag = "" -> Fail(s, Unspecified(p))
      [] OTHER -> AggregateType(s, p, kind, tag)
AggregateSpecifier(s, p) ==
    IF s[p.at + 1] \in Names THEN AggregateAt(s, Skip(p, 2), s[p.at], s[p.at + 1])
    ELSE AggregateAt(s, Skip(p, 1), s[p.at], "")

AfterAggregate(s, p, q) ==
    IF Stopped(q) THEN Unspecified(q)
    ELSE Specifiers(s, [q EXCEPT !.name = p.name, !.parameters = p.parameters, !.variadic = p.variadic], <<>>, q.type)

Specifiers(s, p, words, named) ==
    LET first == words = <<>> /\ named = NoType
    IN CASE s[p.at] \in Qualifiers -> Specifiers(s, Skip(p, 1), words, named)
         [] s[p.at] \in Aggregates -> IF first THEN AfterAggregate(s, p, AggregateSpecifier(s, p)) ELSE Fail(s, Unspecified(p))
         [] s[p.at] \in BasicWords -> IF named = NoType THEN Specifiers(s, Skip(p, 1), Append(words, s[p.at]), named)
                                                        ELSE Fail(s, Unspecified(p))
         [] IsAlias(p, s[p.at]) /\ first -> Specifiers(s, Skip(p, 1), words, p.known.aliases[s[p.at]])
         [] OTHER -> Specified(s, p, words, named)

TypeSpecifier(s, p) == Specifiers(s, p, <<>>, NoType)

\* aggregate_members: what was added before a failure stays in the aggregate.
Added(s, q, aggregate, base) ==
    CASE Stopped(q) -> q
      [] ~Stopped(q) /\ (q.name = "" \/ ~CanAdd(q.table, aggregate, q.name, q.type)) -> Fail(s, q)
      [] OTHER -> MemberList(s, [q EXCEPT !.table = AddMember(@, aggregate, q.name, q.type), !.type = base], aggregate, base)
MemberList(s, p, aggregate, base) ==
    IF s[p.at] = "," THEN Added(s, Declarator(s, Skip(p, 1)), aggregate, base)
    ELSE Members(s, Expect(s, p, ";"), aggregate)

Finished(s, p, aggregate) ==
    CASE Stopped(p) -> p
      [] ~Stopped(p) /\ ~CanFinish(p.table, aggregate) -> Fail(s, p)
      [] OTHER -> [p EXCEPT !.table = Finish(@, aggregate)]
MemberDeclaration(s, q, aggregate) == IF Stopped(q) THEN q ELSE Added(s, Declarator(s, q), aggregate, q.type)
Members(s, p, aggregate) ==
    CASE Stopped(p) -> p
      [] ~Stopped(p) /\ s[p.at] \in {"}", "end"} -> Finished(s, Expect(s, p, "}"), aggregate)
      [] OTHER -> MemberDeclaration(s, TypeSpecifier(s, p), aggregate)

-----------------------------------------------------------------------------
(* Declarators. *)

RECURSIVE Stars(_, _), Suffixed(_, _, _)
Stars(s, p) ==
    IF s[p.at] # "*" THEN p
    ELSE Stars(s, [Typed(p, TypePointer(p.table, p.type)) EXCEPT !.at = Past(s, p.at + 1)])

\* skip_parenthesized: to behind the parenthesis that closes this one.
AfterParenthesis(s, p, nesting) ==
    IF s[p.at] = "end" THEN Fail(s, p)
    ELSE LET depth == nesting + (CASE s[p.at] = "(" -> 1 [] s[p.at] = ")" -> -1 [] OTHER -> 0)
         IN IF depth = 0 THEN Skip(p, 1) ELSE AfterParenthesis(s, Skip(p, 1), depth)

\* A suffix: the bounds of an array, or the parameters of a function.
ArraySuffix(sized, count) == [function |-> FALSE, sized |-> sized, count |-> count, parameters |-> <<>>, variadic |-> FALSE]
FunctionSuffix(q) == [function |-> TRUE, sized |-> FALSE, count |-> 0, parameters |-> q.parameters, variadic |-> q.variadic]

\* A bound is a constant, and not too large.
Sized(s, p, list, e, values) ==
    CASE e.status # "ok" -> [p EXCEPT !.status = e.status, !.at = e.at]
      [] e.status = "ok" /\ ~(\E n \in values : n > 0 /\ n <= CountLimit) -> Fail(s, [p EXCEPT !.at = e.at])
      [] OTHER -> SuffixList(s, Expect(s, [p EXCEPT !.at = e.at], "]"), Append(list, ArraySuffix(TRUE, CHOOSE n \in values : TRUE)))
Bound(s, p, list, e) == Sized(s, p, list, e, IF e.status = "ok" THEN ConstantValue(e.tree) ELSE {})

\* The parameters of a suffix are set aside: only the name's own are declared with it.
AfterParameters(s, p, list, q) ==
    SuffixList(s, [p EXCEPT !.at = q.at, !.status = q.status, !.table = q.table, !.known = q.known],
             Append(list, FunctionSuffix(q)))

SuffixList(s, p, list) ==
    CASE Stopped(p) -> p
      [] ~Stopped(p) /\ s[p.at] \notin {"[", "("} -> Suffixed(s, p, list)
      [] ~Stopped(p) /\ s[p.at] \in {"[", "("} /\ Len(list) = SuffixLimit -> Fail(s, p)
      [] ~Stopped(p) /\ s[p.at] = "[" /\ s[p.at + 1] = "]" -> SuffixList(s, Skip(p, 2), Append(list, ArraySuffix(FALSE, 0)))
      [] ~Stopped(p) /\ s[p.at] = "[" /\ s[p.at + 1] # "]" -> Bound(s, p, list, Expression(s, p.at + 1, 1))
      [] OTHER -> AfterParameters(s, p, list, Parameters(s, [Skip(p, 1) EXCEPT !.parameters = <<>>, !.variadic = FALSE]))

TypesOf(parameters) == [k \in DOMAIN parameters |-> parameters[k].type]
AsFunction(s, p, suffix) ==
    IF Kind(p.table, p.type) \in {"function", "array"} THEN Fail(s, p)
    ELSE [Typed(p, TypeFunction(p.table, p.type, TypesOf(suffix.parameters), suffix.variadic))
             EXCEPT !.parameters = suffix.parameters, !.variadic = suffix.variadic]
AsArray(s, p, got) == IF got.type = CT_VOID THEN Fail(s, p) ELSE Typed(p, got)
Apply(s, p, suffix, first) ==
    CASE suffix.function -> AsFunction(s, p, suffix)
      [] ~suffix.function /\ ~suffix.sized /\ ~first -> Fail(s, p)
      [] ~suffix.function /\ (suffix.sized \/ first) /\ Kind(p.table, p.type) = "function" -> Fail(s, p)
      [] OTHER -> AsArray(s, p, TypeArray(p.table, p.type, suffix.count))

\* A defect to test the properties with: the suffix next to the name is applied to the base.
SuffixedInOrder(s, p, list) ==
    IF Stopped(p) \/ list = <<>> THEN p ELSE Suffixed(s, Apply(s, p, Head(list), Len(list) = 1), Tail(list))

\* The last suffix is the first to be applied.
Suffixed(s, p, list) ==
    IF Stopped(p) \/ list = <<>> THEN p ELSE Suffixed(s, Apply(s, p, Last(list), Len(list) = 1), Front(list))

\* What follows a parenthesized declarator is the base of what is inside.
Inside(s, p, inner) == IF Stopped(inner) THEN inner ELSE [inner EXCEPT !.at = p.at]
Nested(s, p, start) ==
    IF Stopped(p) THEN p ELSE Inside(s, p, Expect(s, Declarator(s, [p EXCEPT !.at = start + 1]), ")"))

IsNested(s, p) == s[p.at] = "(" /\ (s[p.at + 1] = "*" \/ (s[p.at + 1] \in Names /\ ~IsAlias(p, s[p.at + 1])))
Named(s, p) == IF s[p.at] \in Names THEN [Skip(p, 1) EXCEPT !.name = s[p.at]] ELSE p
AfterStars(s, p) ==
    IF IsNested(s, p) THEN Nested(s, SuffixList(s, AfterParenthesis(s, p, 0), <<>>), p.at)
    ELSE SuffixList(s, Named(s, p), <<>>)

\* declarator: from the base type in p.type to the declared one.
Declarator(s, p) == IF Stopped(p) THEN p ELSE AfterStars(s, [Stars(s, p) EXCEPT !.name = ""])

\* parameter_list: each parameter decays, whether or not it is accepted then.
Decayed(q) == Typed(q, TypeDecay(q.table, q.type))
NextParameter(s, p) == IF s[p.at] = "," THEN Parameters(s, Skip(p, 1)) ELSE Expect(s, p, ")")
Parameter(s, p, q) ==
    CASE Stopped(q) -> q
      [] ~Stopped(q) /\ ~IsObject(q.table, q.type) -> Fail(s, q)
      [] OTHER -> NextParameter(s, [q EXCEPT !.parameters = Append(p.parameters, [name |-> q.name, type |-> q.type]),
                                             !.variadic = FALSE])
Parameters(s, p) ==
    CASE p.parameters = <<>> /\ s[p.at] = ")" -> Skip(p, 1)
      [] p.parameters = <<>> /\ s[p.at] = "void" /\ s[p.at + 1] = ")" -> Skip(p, 2)
      [] s[p.at] = "..." -> IF p.parameters = <<>> THEN Fail(s, p)
                            ELSE Expect(s, [Skip(p, 1) EXCEPT !.variadic = TRUE], ")")
      [] OTHER -> Parameter(s, p, Decayed(Declarator(s, TypeSpecifier(s, p))))

\* type_name_of: a type by itself.
Nameless(s, p) == IF p.name # "" THEN Fail(s, p) ELSE p
TypeNameOf(s, p) == Nameless(s, Declarator(s, TypeSpecifier(s, p)))

-----------------------------------------------------------------------------
(* A line. *)

RECURSIVE Declarators(_, _, _, _, _)
Entry(p, form) == [name |-> p.name, type |-> p.type, form |-> form, variadic |-> p.variadic,
                   parameters |-> IF form = "function" THEN p.parameters ELSE <<>>]
Form(p, isTypedef) == CASE isTypedef -> "typedef"
                        [] ~isTypedef /\ Kind(p.table, p.type) = "function" -> "function"
                        [] OTHER -> "variable"
NextDeclarator(s, p, base, isTypedef, names) ==
    IF s[p.at] = "," THEN Declarators(s, Skip(p, 1), base, isTypedef, names)
    ELSE [parser |-> Expect(s, p, ";"), names |-> names]

\* A variable is a complete object; a typedef name is known from its own comma on.
Declaring(s, q, base, isTypedef, names) ==
    CASE Stopped(q) -> [parser |-> q, names |-> names]
      [] ~Stopped(q) /\ (q.name = "" \/ (Form(q, isTypedef) = "variable" /\ ~IsObject(q.table, q.type))) ->
           [parser |-> Fail(s, q), names |-> names]
      [] OTHER -> NextDeclarator(s, IF isTypedef THEN [q EXCEPT !.known.aliases = With(@, q.name, q.type)] ELSE q,
                                 base, isTypedef, Append(names, Entry(q, Form(q, isTypedef))))
Declarators(s, p, base, isTypedef, names) ==
    Declaring(s, Declarator(s, [p EXCEPT !.type = base, !.parameters = <<>>, !.variadic = FALSE]), base, isTypedef, names)

AfterSpecifiers(s, q, isTypedef) ==
    CASE Stopped(q) -> [parser |-> q, names |-> <<>>]
      [] ~Stopped(q) /\ ~isTypedef /\ s[q.at] = ";" -> [parser |-> Skip(q, 1), names |-> <<>>]
      [] OTHER -> Declarators(s, q, q.type, isTypedef, <<>>)
Declaration(s, p) ==
    IF s[p.at] = "typedef" THEN AfterSpecifiers(s, TypeSpecifier(s, Skip(p, 1)), TRUE)
    ELSE AfterSpecifiers(s, TypeSpecifier(s, p), FALSE)

\* A line is one declaration here: where the code would go on with the next one, the line is refused,
\* as the reference refuses it, so that what it declares is the first's alone.
Line(line) == line \o <<"end", "end">>
Ended(s, result) ==
    IF ~Stopped(result.parser) /\ s[result.parser.at] # "end" THEN [result EXCEPT !.parser.status = "error"] ELSE result
ParseLine(line) == Ended(Line(line), Declaration(Line(line), Parser(types, known)))

-----------------------------------------------------------------------------
OpenSession(script) ==
    /\ lines = script
    /\ types = NoTypes
    /\ known = NothingKnown
    /\ declared = Nothing

\* The rows of a refused line stay; its names do not.
Declare ==
    /\ lines # <<>> /\ Head(lines) # Restart
    /\ \E result \in {ParseLine(Head(lines))} :
          /\ types' = result.parser.table
          /\ known' = IF Stopped(result.parser) THEN known ELSE result.parser.known
          /\ declared' = [status |-> result.parser.status,
                          names |-> IF Stopped(result.parser) THEN <<>> ELSE result.names]
    /\ lines' = Tail(lines)

\* A defect to test the properties with: pointers are remembered longer than the rows they are.
ReleasedRows(table) == [table EXCEPT !.rows = <<>>]

\* types_release: the last interpreter takes the table with it.
Released(table) == NoTypes

StartAgain ==
    /\ lines # <<>> /\ Head(lines) = Restart
    /\ types' = Released(types)
    /\ known' = NothingKnown
    /\ declared' = Nothing
    /\ lines' = Tail(lines)

DeclareNext == Declare \/ StartAgain

-----------------------------------------------------------------------------
\* What C knows before a line, from the tables.
CStruct(table, row) ==
    [size |-> IF row.complete THEN row.size ELSE 0, align |-> row.align,
     members |-> [k \in DOMAIN row.members |-> [name |-> row.members[k].name, offset |-> row.members[k].offset,
                                                tree |-> Tree(table, row.members[k].type)]]]
CScope(table, names) ==
    [structs |-> [tag \in DOMAIN names.tags |-> CStruct(table, Info(table, names.tags[tag]))],
     aliases |-> [name \in DOMAIN names.aliases |-> Tree(table, names.aliases[name])]]

CNamed(table, entry) ==
    [name |-> entry.name, tree |-> Tree(table, entry.type), form |-> entry.form,
     parameters |-> [k \in DOMAIN entry.parameters |-> [name |-> entry.parameters[k].name,
                                                        tree |-> Tree(table, entry.parameters[k].type)]]]

\* The declarations the interpreter knowingly or unknowingly takes otherwise than C: it has no
\* parenthesis directly inside a declarator's parenthesis, takes the last of several signs, and has
\* limits.  An aggregate larger than the address space wraps.
OpensTwice(line) == \E k \in 1..(Len(line) - 1) : line[k] = "(" /\ line[k + 1] \in {"(", "["}
ManySigns(line) == \E k \in 1..(Len(line) - 1), l \in 1..Len(line) : k < l /\ {line[k], line[l]} \subseteq {"signed", "unsigned"}
ManySuffixes(line) == Len(SelectSeq(line, LAMBDA word : word \in {"(", "["})) > SuffixLimit

AgreesWith(reading, table, names, result) ==
    /\ [k \in DOMAIN result.names |-> CNamed(table, result.names[k])] = reading.names
    /\ \A tag \in DOMAIN names.tags \cap DOMAIN reading.structs :
          CScope(table, names).structs[tag] = reading.structs[tag]
Agrees(readings, line, table, names, result) ==
    IF result.status = "ok"
    THEN ManySigns(line) \/ (readings # {} /\ \A reading \in readings : AgreesWith(reading, table, names, result))
    ELSE readings = {} \/ OpensTwice(line) \/ ManySuffixes(line)
TooLarge(readings) == \E reading \in readings : \E tag \in DOMAIN reading.structs : reading.structs[tag].size >= SizeLimit

\* A line is accepted exactly when C's grammar and constraints accept it, and it declares then
\* the names, types, parameters and members that C declares, each member where C's layout puts it,
\* as long as the table has room for its types (parser.c: declarator, type_specifier; types.c).
DeclaresAsC ==
    [][lines # <<>> /\ lines' # lines /\ Head(lines) # Restart /\ Len(types'.rows) < TypeLimit =>
        \A readings \in {CDeclaration(CScope(types, known), Head(lines))} :
            TooLarge(readings) \/ Agrees(readings, Head(lines), types', known', declared')]_declarationVars

\* The table holds each derived type once; a row is derived from rows before it, and the cache leads
\* to the pointer it promises, so that two types are one exactly when their handles are
\* (types.c: type_pointer, type_array, type_function, types_release).
Derived(row) == row.kind \in {"pointer", "array", "function"}
TypesWhole ==
    /\ \A i, j \in DOMAIN types.rows :
          i # j /\ Derived(types.rows[i]) => Identity(types.rows[i]) # Identity(types.rows[j])
    /\ \A i \in DOMAIN types.rows : Derived(types.rows[i]) =>
          \A type \in {types.rows[i].target} \cup ToSet(types.rows[i].parameters) : type < CT_VOID + i
    /\ \A target \in DOMAIN types.cache :
          types.cache[target] - CT_VOID \in DOMAIN types.rows /\ Info(types, types.cache[target]) = PointerRow(target)

\* A type's name, as messages give it, can be typed again and means the same type, which is found and
\* not made again; only an array without bounds, an aggregate without a tag and a function with a
\* parameter whose name was cut have no such name (types.c: name_parts; parser.c: type_name_of).
RECURSIVE Nameable(_, _)
Nameable(table, type) ==
    LET row == Info(table, type)
    IN CASE row.kind = "array"   -> row.count # 0 /\ Nameable(table, row.target)
         [] row.kind = "pointer" -> Nameable(table, row.target)
         [] row.kind = "function" ->
                /\ \A part \in {row.target} \cup ToSet(row.parameters) : Nameable(table, part)
                /\ \A part \in ToSet(row.parameters) : Len(Joined(NameParts(table, part))) <= NameLimit
         [] row.kind \in Aggregates -> <<row.kind, row.tag>> \in DOMAIN known.tags
         [] OTHER -> TRUE
ReadBack(name) == TypeNameOf(name \o <<")", "end", "end">>, Parser(types, known))
MeansAgain(p, name, type) == /\ p.status = "ok" /\ p.at = Len(name) + 1
                             /\ p.type = type /\ p.table.rows = types.rows
NamesReadBack ==
    \A entry \in ToSet(declared.names) :
        Nameable(types, entry.type) =>
            \A name \in {Joined(NameParts(types, entry.type))} : MeansAgain(ReadBack(name), name, entry.type)
==============================================================================
