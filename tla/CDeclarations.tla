----------------------------- MODULE CDeclarations -----------------------------
(***************************************************************************)
(* What C says of a declaration, to compare the interpreter with: the      *)
(* readings its grammar and constraints allow of a line (C17 6.7), taken   *)
(* from the outside in, and the layout of aggregates that the host's ABI   *)
(* gives.                                                                  *)
(*                                                                         *)
(* A type is a tuple that begins with its form; an aggregate is its kind   *)
(* and its tag, "" when it has none.  A scope has the aggregates that were *)
(* heard of, of size 0 until they are complete, and the typedef names.     *)
(* Left out are arrays at the end of a structure without a bound, typedef  *)
(* names of void for no parameters, and whether a name was declared before.*)
(***************************************************************************)
EXTENDS Types

CONSTANT Names     \* the identifiers

BasicWords == {"signed", "unsigned", "short", "long", "char", "int", "float", "double", "_Bool", "void"}
Qualifiers == {"const", "volatile"}
Aggregates == {"struct", "union"}

\* The type of a row, without handles.
RECURSIVE Tree(_, _)
TreeOf(table, row, type) ==
    CASE row.kind = "pointer"  -> <<"pointer", Tree(table, row.target)>>
      [] row.kind = "array"    -> <<"array", row.count, Tree(table, row.target)>>
      [] row.kind = "function" -> <<"function", Tree(table, row.target),
                                    [k \in DOMAIN row.parameters |-> Tree(table, row.parameters[k])], row.variadic>>
      [] row.kind \in Aggregates -> <<row.kind, row.tag>>
      [] OTHER -> <<"basic", type>>
Tree(table, type) == TreeOf(table, Info(table, type), type)

-----------------------------------------------------------------------------
(* Specifiers: the words of each type besides long, and how often that stands among them. *)

WithInt(words) == {words, words \cup {"int"}}
CWords(type) ==
    CASE type = CT_CHAR   -> {{"char"}}   [] type = CT_SCHAR -> {{"signed", "char"}}
      [] type = CT_UCHAR  -> {{"unsigned", "char"}}
      [] type = CT_SHORT  -> WithInt({"short"}) \cup WithInt({"signed", "short"})
      [] type = CT_USHORT -> WithInt({"unsigned", "short"})
      [] type = CT_INT    -> WithInt({"signed"}) \cup {{"int"}}
      [] type \in {CT_LONG, CT_LLONG} -> WithInt({}) \cup WithInt({"signed"})
      [] type \in {CT_UINT, CT_ULONG, CT_ULLONG} -> WithInt({"unsigned"})
      [] type = CT_BOOL   -> {{"_Bool"}}  [] type = CT_FLOAT -> {{"float"}}
      [] type = CT_DOUBLE -> {{"double"}} [] type = CT_VOID  -> {{"void"}}
CLongs(type) == CASE type \in {CT_LONG, CT_ULONG} -> 1 [] type \in {CT_LLONG, CT_ULLONG} -> 2 [] OTHER -> 0

CBasic(words, others) ==
    {<<"basic", type>> : type \in {type \in CT_BOOL..CT_VOID :
                                      /\ ToSet(others) \in CWords(type)
                                      /\ Cardinality(ToSet(others)) = Len(others)
                                      /\ Len(words) - Len(others) = CLongs(type)}}
CWordList(c, words) ==
    CBasic(words, SelectSeq(words, LAMBDA w : w # "long"))
    \cup {c.aliases[name] : name \in {name \in DOMAIN c.aliases : words = <<name>>}}
    \cup {tree \in Aggregates \X Names : tree = words}
CSpecifiers(c, s) == CWordList(c, SelectSeq(s, LAMBDA w : w \notin Qualifiers))

-----------------------------------------------------------------------------
(* Sizes; 0 for what is no object. *)

RECURSIVE CSizeOf(_, _), CAlignOf(_, _)
CSizeOf(c, tree) ==
    CASE tree[1] = "basic"    -> BasicRow(tree[2]).size
      [] tree[1] = "pointer"  -> PointerBytes
      [] tree[1] = "array"    -> tree[2] * CSizeOf(c, tree[3])
      [] tree[1] = "function" -> 0
      [] OTHER -> IF tree \in DOMAIN c.structs THEN c.structs[tree].size ELSE 0
CAlignOf(c, tree) ==
    CASE tree[1] = "basic"   -> BasicRow(tree[2]).align
      [] tree[1] = "pointer" -> PointerBytes
      [] tree[1] = "array"   -> CAlignOf(c, tree[3])
      [] OTHER -> c.structs[tree].align

-----------------------------------------------------------------------------
(* Declarators, applied to the type before them, with the parameters of the name if that type *)
(* is a function's.                                                                           *)

RECURSIVE CDeclarator(_, _, _, _), CDirect(_, _, _, _), CList(_, _)

NoList == [parameters |-> <<>>, variadic |-> FALSE]
Reading(name, tree, list) == [name |-> name, tree |-> tree, parameters |-> list.parameters]

\* The numbers an array's bound may be: one, or 0 when there is none to read.
CBoundValues(e) == {meaning.n : meaning \in {m \in {Meaning(t, << >>) : t \in Trees(e)} : m.defined /\ m.n > 0}}
CBounds(e) == IF e = <<>> THEN {0} ELSE CBoundValues(e)
CArrays(c, e, tree) ==
    {<<"array", n, tree>> : n \in {n \in CBounds(e) : n <= CountLimit /\ CSizeOf(c, tree) \in 1..(SizeLimit - 1)
                                                      /\ n * CSizeOf(c, tree) < SizeLimit}}

\* A parameter is used as a pointer where it is an array or a function.
CAdjusted(tree) == CASE tree[1] = "array" -> <<"pointer", tree[3]>> [] tree[1] = "function" -> <<"pointer", tree>>
                     [] OTHER -> tree
CParameter(c, s) ==
    {p \in UNION {{[name |-> r.name, tree |-> CAdjusted(r.tree)] : r \in UNION {CDeclarator(c, SubSeq(s, k + 1, Len(s)), tree, NoList)
                                                                         : tree \in CSpecifiers(c, SubSeq(s, 1, k))}}
                  : k \in 1..Len(s)}
        : CSizeOf(c, p.tree) # 0}
CList(c, s) ==
    {<<p>> : p \in CParameter(c, s)} \cup
    UNION {{Append(before, p) : before \in CList(c, SubSeq(s, 1, k - 1)), p \in CParameter(c, SubSeq(s, k + 1, Len(s)))}
           : k \in {k \in DOMAIN s : s[k] = ","}}
CParameterLists(c, s) ==
    CASE s \in {<<>>, <<"void">>} -> {NoList}
      [] Len(s) > 2 /\ SubSeq(s, Len(s) - 1, Len(s)) = <<",", "...">> ->
           {[parameters |-> l, variadic |-> TRUE] : l \in CList(c, SubSeq(s, 1, Len(s) - 2))}
      [] OTHER -> {[parameters |-> l, variadic |-> FALSE] : l \in CList(c, s)}

CFunction(tree, list) == <<"function", tree, [k \in DOMAIN list.parameters |-> list.parameters[k].tree], list.variadic>>

\* A parenthesis before the name of a type begins parameters.
CGrouped(c, d, tree, list) ==
    IF d[1] = "(" /\ Len(d) > 2 /\ d[2] \notin DOMAIN c.aliases THEN CDeclarator(c, SubSeq(d, 2, Len(d) - 1), tree, list) ELSE {}

CDirect(c, d, tree, list) ==
    CASE d = <<>> -> {Reading("", tree, list)}
      [] Len(d) = 1 -> IF d[1] \in Names THEN {Reading(d[1], tree, list)} ELSE {}
      [] Len(d) > 1 /\ Last(d) = "]" ->
           UNION {UNION {CDirect(c, SubSeq(d, 1, k - 1), array, NoList) : array \in CArrays(c, SubSeq(d, k + 1, Len(d) - 1), tree)}
                  : k \in {k \in DOMAIN d : d[k] = "["}}
      [] Len(d) > 1 /\ Last(d) = ")" ->
           CGrouped(c, d, tree, list) \cup
           (IF tree[1] \in {"function", "array"} THEN {}
            ELSE UNION {UNION {CDirect(c, SubSeq(d, 1, k - 1), CFunction(tree, l), l)
                               : l \in CParameterLists(c, SubSeq(d, k + 1, Len(d) - 1))}
                        : k \in {k \in DOMAIN d : d[k] = "("}})
      [] OTHER -> {}

CDeclarator(c, d, tree, list) ==
    CDirect(c, d, tree, list) \cup
    (IF d = <<>> \/ d[1] # "*" THEN {}
     ELSE UNION {CDeclarator(c, SubSeq(d, k, Len(d)), <<"pointer", tree>>, NoList)
                 : k \in {k \in 2..(Len(d) + 1) : \A i \in 2..(k - 1) : d[i] \in Qualifiers}})

\* Declarators between commas, each with a name.
RECURSIVE CDeclarators(_, _, _)
CDeclared(c, d, tree) == {r \in CDeclarator(c, d, tree, NoList) : r.name # ""}
CDeclarators(c, s, tree) ==
    {<<r>> : r \in CDeclared(c, s, tree)} \cup
    UNION {{Append(before, r) : before \in CDeclarators(c, SubSeq(s, 1, k - 1), tree), r \in CDeclared(c, SubSeq(s, k + 1, Len(s)), tree)}
           : k \in {k \in DOMAIN s : s[k] = ","}}
CSpecified(c, s) ==
    UNION {UNION {CDeclarators(c, SubSeq(s, k + 1, Len(s)), tree) : tree \in CSpecifiers(c, SubSeq(s, 1, k))} : k \in DOMAIN s}

-----------------------------------------------------------------------------
(* Aggregates. *)

\* The first multiple of a from n on.
Aligned(n, a) == ((n + a - 1) \div a) * a

RECURSIVE CMembers(_, _), CPlaced(_, _, _, _)
CMembers(c, body) ==
    IF body = <<>> THEN {<<>>}
    ELSE UNION {{first \o rest : first \in CSpecified(c, SubSeq(body, 1, k - 1)), rest \in CMembers(c, SubSeq(body, k + 1, Len(body)))}
                : k \in {k \in DOMAIN body : body[k] = ";" /\ \A i \in 1..(k - 1) : body[i] # ";"}}

\* Each member of a structure at the first place for it behind the one before.
CPlaced(c, kind, members, end) ==
    IF members = <<>> THEN <<>>
    ELSE LET offset == IF kind = "union" THEN 0 ELSE Aligned(end, CAlignOf(c, Head(members).tree))
         IN <<[name |-> Head(members).name, offset |-> offset, tree |-> Head(members).tree]>>
            \o CPlaced(c, kind, Tail(members), offset + CSizeOf(c, Head(members).tree))
Largest(S) == CHOOSE n \in S : \A m \in S : m <= n
CLaidOut(c, placed, align) ==
    [members |-> placed, align |-> align,
     size |-> Aligned(Largest({m.offset + CSizeOf(c, m.tree) : m \in ToSet(placed)}), align)]
CLayout(c, kind, members) ==
    CLaidOut(c, CPlaced(c, kind, members, 0), Largest({CAlignOf(c, m.tree) : m \in ToSet(members)}))

\* Members are objects with names of their own, and there is one at least.
CDefines(c, members) ==
    /\ members # <<>>
    /\ \A k, l \in DOMAIN members : k # l => members[k].name # members[l].name
    /\ \A m \in ToSet(members) : CSizeOf(c, m.tree) # 0
Incomplete == [size |-> 0, align |-> 1, members |-> <<>>]

\* The scopes after the definition of an aggregate.
CDefined(c, tree, body) ==
    IF tree \in DOMAIN c.structs /\ c.structs[tree].size # 0 THEN {}
    ELSE {[c EXCEPT !.structs = With(@, tree, CLayout(c, tree[1], members))]
             : members \in {members \in CMembers(c, body) : CDefines(c, members)}}

-----------------------------------------------------------------------------
(* A line: its names, and the aggregates known after it. *)

CForm(isTypedef, tree) == CASE isTypedef -> "typedef" [] ~isTypedef /\ tree[1] = "function" -> "function" [] OTHER -> "variable"
CEntry(isTypedef, r) ==
    [name |-> r.name, tree |-> r.tree, form |-> CForm(isTypedef, r.tree),
     parameters |-> IF CForm(isTypedef, r.tree) = "function" THEN r.parameters ELSE <<>>]
CAccepts(c, isTypedef, names) ==
    \A r \in ToSet(names) : CForm(isTypedef, r.tree) = "variable" => CSizeOf(c, r.tree) # 0
CLine(c, isTypedef, lists) ==
    {[names |-> [k \in DOMAIN names |-> CEntry(isTypedef, names[k])], structs |-> c.structs]
        : names \in {names \in lists : CAccepts(c, isTypedef, names)}}

\* What follows the type: names, or nothing where it is no typedef.
CRest(c, isTypedef, s, tree) ==
    CLine(c, isTypedef, CDeclarators(c, s, tree) \cup (IF s = <<>> /\ ~isTypedef THEN {<<>>} ELSE {}))
CPlain(c, isTypedef, s) ==
    UNION {UNION {CRest(c, isTypedef, SubSeq(s, k + 1, Len(s)), tree) : tree \in CSpecifiers(c, SubSeq(s, 1, k))} : k \in DOMAIN s}

\* An aggregate with its members between braces.
CBraced(c, isTypedef, s, open, close) ==
    LET tree == <<s[1], IF open = 3 THEN s[2] ELSE "">>
    IN UNION {CRest(after, isTypedef, SubSeq(s, close + 1, Len(s)), tree)
              : after \in CDefined(c, tree, SubSeq(s, open + 1, close - 1))}
CBody(c, isTypedef, s) ==
    UNION {CBraced(c, isTypedef, s, open, close)
           : open \in {k \in 2..Len(s) : s[1] \in Aggregates /\ s[k] = "{" /\ (k = 2 \/ (k = 3 /\ s[2] \in Names))},
             close \in {k \in DOMAIN s : s[k] = "}"}}
CPhrase(c, isTypedef, s) == IF ToSet(s) \cap {"{", "}"} = {} THEN CPlain(c, isTypedef, s) ELSE CBody(c, isTypedef, s)

CDeclaration(c, line) ==
    CASE line = <<>> \/ Last(line) # ";" -> {}
      [] line # <<>> /\ Last(line) = ";" /\ Head(line) = "typedef" -> CPhrase(c, TRUE, SubSeq(line, 2, Len(line) - 1))
      [] OTHER -> CPhrase(c, FALSE, Front(line))
==============================================================================
