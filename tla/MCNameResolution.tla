-------------------------- MODULE MCNameResolution --------------------------
(* Function f, with a jump in it, declares x in its body and another x in a     *)
(* block, where it reads x; it also reads a y that only the globals can have.   *)
(* Function g has one declaration, private to the names bound to it.            *)
EXTENDS NameResolution, TLC

CONSTANTS x, y, f, blockOfF, g, outerX, innerX, privateY, useX, globalY

MCDeclaredName == (outerX :> x) @@ (innerX :> x) @@ (privateY :> y)
MCUsedName     == (useX :> x) @@ (globalY :> y)
MCEnclosing    == (f :> NULL) @@ (blockOfF :> f) @@ (g :> NULL)
MCBlock        == (outerX :> f) @@ (innerX :> blockOfF) @@ (useX :> blockOfF) @@ (globalY :> f) @@ (privateY :> g)
MCSymmetry     == Permutations(SymbolNodes)
=============================================================================
