--------------------------- MODULE NameResolution ---------------------------
(***************************************************************************)
(* How a running program's names find their symbols (the scopes of         *)
(* src/src/interpreter.c).  Scopes nest lexically above the globals, calls *)
(* stack a fresh chain on top, symbols come from a pool and go back to it, *)
(* and every use of a name remembers its last answer.  The answer is       *)
(* reused while the innermost scope is the same instance with the same     *)
(* number of symbols; otherwise it is revalidated through the declaration  *)
(* it named, which knows its innermost live symbol.                        *)
(*                                                                         *)
(* Where the optimizer proved that only lexically bound names refer to a   *)
(* declaration, the declaration is not indexed and its uses follow its     *)
(* binding without any walk.                                               *)
(*                                                                         *)
(* Abstractions.  Hash buckets and the name filter only speed up one       *)
(* scope's lookup; a scope is the sequence of its symbols.  The objects    *)
(* behind the symbols belong to ManagedMemory, and locals that live in a   *)
(* frame have no symbol here.                                              *)
(***************************************************************************)
EXTENDS Integers, Sequences, SequencesExt, FiniteSets

CONSTANTS
  SymbolNodes,   \* the Symbol nodes the host can allocate
  NULL,
  Names,
  Blocks,        \* the blocks of the program that open a scope, function bodies included
  Enclosing,     \* the block around each of them, NULL for a function body
  Declarations,  \* the local declaration nodes
  DeclaredName,  \* the name each of them declares
  Block,         \* the block each declaration and each use stands in
  Private,       \* the declarations marked RESOLVE_LOCAL
  Uses,          \* the uses whose scope chain decides (RESOLVE_DYNAMIC)
  GlobalUses,    \* the uses bound to the globals (RESOLVE_GLOBAL)
  UsedName,      \* the name each of these uses mentions
  MaxScopes,     \* how many scopes may be open at once: a bound of the model
  MaxSerial      \* how many scopes may ever be opened: a bound of the model

ASSUME NullAssumption == NULL \notin SymbolNodes \cup Declarations \cup Blocks
ASSUME ProgramAssumption ==
  /\ Names # {}
  /\ DeclaredName \in [Declarations -> Names]
  /\ UsedName \in [Uses \cup GlobalUses -> Names]
  /\ Block \in [Declarations \cup Uses \cup GlobalUses -> Blocks]
  /\ IsFiniteSet(Blocks) /\ Enclosing \in [Blocks -> Blocks \cup {NULL}]
  /\ \E depth \in [Blocks -> 0 .. Cardinality(Blocks)] :
       \A b \in Blocks : Enclosing[b] # NULL => depth[Enclosing[b]] < depth[b]
  /\ Private \subseteq Declarations
  /\ Uses \cap GlobalUses = {}
ASSUME BoundAssumption == MaxScopes \in Nat \ {0} /\ MaxSerial \in Nat \ {0}

VARIABLES
  scopes,   \* the open scopes, globals first: serial, block, parent's place, symbols (latest first)
  running,  \* the scope each activation and block runs in; the last is interpreter->scope
  symbol,   \* the contents of the Symbol nodes
  pool,     \* interpreter->symbol_pool, as a set
  binding,  \* declaration->cache.binding
  cached,   \* node->cache.use of every use
  serial    \* interpreter->scope_serial

vars == <<scopes, running, symbol, pool, binding, cached, serial>>

Globals == 1
Current == Last(running)

Init ==
  /\ scopes = <<[serial |-> 1, block |-> NULL, parent |-> 0, symbols |-> <<>>]>>
  /\ running = <<Globals>>
  /\ symbol \in [SymbolNodes -> {[name |-> n, declaration |-> NULL, home |-> 0,
                                  shadowed |-> NULL, shadowedScope |-> 0] : n \in {CHOOSE n \in Names : TRUE}}]
  /\ pool = {}
  /\ binding = [d \in Declarations |-> [symbol |-> NULL, scope |-> 0]]
  /\ cached = [u \in Uses \cup GlobalUses |->
                 [symbol |-> NULL, declaration |-> NULL, scope |-> 0, home |-> 0, count |-> 0]]
  /\ serial = 1

-----------------------------------------------------------------------------
(* Looking names up. *)

\* The scopes from i outwards.  A scope lies above its parent, so a walk of the chain
\* meets the highest of them first.
Chain(i) ==
  LET outward[j \in 0 .. Len(scopes)] == IF j = 0 THEN {} ELSE {j} \cup outward[scopes[j].parent]
  IN  outward[i]

\* What scope_index has entered in scope i.
Indexed(i) == {s \in Range(scopes[i].symbols) : symbol[s].declaration \notin Private}

Declares(i, name) == \E s \in Indexed(i) : symbol[s].name = name

\* lookup_hashed in one scope that declares the name.
InScope(i, name) == CHOOSE s \in Indexed(i) : symbol[s].name = name

\* lookup_hashed along the chain.
Lookup(i, name) ==
  LET declaring == {k \in Chain(i) : Declares(k, name)}
  IN  IF declaring = {} THEN NULL ELSE InScope(Max(declaring), name)

\* Mutant: nothing is checked between the innermost scope and the remembered one.
ReachesUnshadowed_HomeOnly(i, name, home) ==
  home = 0 \/ \E k \in Chain(i) : scopes[k].serial = home

\* reaches_unshadowed
ReachesUnshadowed(i, name, home) ==
  LET at == {k \in Chain(i) : scopes[k].serial = home}
      declaring == {k \in Chain(i) : Declares(k, name)}
  IN  IF at # {} THEN \E k \in at : \A l \in declaring : l <= k
      ELSE declaring = {} /\ home = 0

ScopeOf(u) == IF u \in GlobalUses THEN Globals ELSE Current

Fresh(u) == /\ cached[u].scope = scopes[ScopeOf(u)].serial
            /\ cached[u].count = Cardinality(Indexed(ScopeOf(u)))

\* resolve_again: what the remembered declaration (or symbol) leads to, if it still stands.
RememberedSymbol(u) == IF cached[u].declaration = NULL THEN cached[u].symbol
                       ELSE binding[cached[u].declaration].symbol
RememberedHome(u)   == IF cached[u].declaration = NULL THEN cached[u].home
                       ELSE binding[cached[u].declaration].scope
Revalidated(u)      == ReachesUnshadowed(ScopeOf(u), UsedName[u], RememberedHome(u))

\* What resolve returns for a use evaluated now.
Resolved(u) ==
  IF Fresh(u) THEN cached[u].symbol
  ELSE IF Revalidated(u) THEN RememberedSymbol(u)
  ELSE Lookup(ScopeOf(u), UsedName[u])

\* A use outside its block, or a global use outside its function, is not evaluated.
Evaluable(u) == scopes[Current].block = Block[u]

\* resolve and resolve_again
Resolve(u) ==
  LET found == Resolved(u)
  IN  /\ Evaluable(u)
      /\ ~Fresh(u)
      /\ cached' = [cached EXCEPT ![u] =
           [symbol |-> found,
            declaration |-> IF Revalidated(u) THEN @.declaration
                            ELSE IF found = NULL THEN NULL ELSE symbol[found].declaration,
            home |-> IF Revalidated(u) THEN @.home
                     ELSE IF found = NULL THEN 0 ELSE symbol[found].home,
            scope |-> scopes[ScopeOf(u)].serial,
            count |-> Cardinality(Indexed(ScopeOf(u)))]]
      /\ UNCHANGED <<scopes, running, symbol, pool, binding, serial>>

-----------------------------------------------------------------------------
(* Opening, filling and closing scopes. *)

CanOpen == Len(scopes) < MaxScopes /\ serial < MaxSerial /\ Len(running) < MaxScopes

\* scope_open
Open(block, parent) ==
  /\ scopes' = Append(scopes, [serial |-> serial + 1, block |-> block, parent |-> parent, symbols |-> <<>>])
  /\ running' = Append(running, Len(scopes) + 1)
  /\ serial' = serial + 1
  /\ UNCHANGED <<symbol, pool, binding, cached>>

\* A block, a for or switch statement, a declaration standing as a statement.
EnterBlock(block) ==
  /\ CanOpen
  /\ Current # Globals
  /\ Enclosing[block] = scopes[Current].block
  /\ Open(block, Current)

\* invoke and enter_simple: a call's scope sits directly above the globals.
Call(body) == CanOpen /\ Enclosing[body] = NULL /\ Open(body, Globals)

\* enter_simple with a body that declares nothing in a scope: it runs in the globals.
CallBare ==
  /\ Len(running) < MaxScopes
  /\ running' = Append(running, Globals)
  /\ UNCHANGED <<scopes, symbol, pool, binding, cached, serial>>

\* The symbols, by place, that declare d.
Declaring(symbols, d) == {k \in DOMAIN symbols : symbol[symbols[k]].declaration = d}

\* Mutant: the binding is dropped rather than restored.
Unbound_Dropped(symbols) ==
  [d \in Declarations |-> IF Declaring(symbols, d) = {} THEN binding[d] ELSE [symbol |-> NULL, scope |-> 0]]

\* The bindings scope_clear leaves.  It takes the latest symbol first, so the earliest
\* one of a declaration has the last word.
Unbound(symbols) ==
  [d \in Declarations |->
    LET of == Declaring(symbols, d)
        first == symbol[symbols[Max(of)]]
    IN  IF of = {} THEN binding[d] ELSE [symbol |-> first.shadowed, scope |-> first.shadowedScope]]

\* scope_clear as the innermost scope ends, or the return from a bare body.
Leave ==
  /\ Len(running) > 1
  /\ running' = Front(running)
  /\ IF Current = Globals
     THEN UNCHANGED <<scopes, pool, binding>>
     ELSE /\ binding' = Unbound(scopes[Current].symbols)
          /\ pool' = pool \cup Range(scopes[Current].symbols)
          /\ scopes' = Front(scopes)
  /\ UNCHANGED <<symbol, cached, serial>>

InUse == UNION {Range(scopes[i].symbols) : i \in 1 .. Len(scopes)}

\* The node define takes: from the pool, else a new one.
AvailableNodes == IF pool # {} THEN pool ELSE SymbolNodes \ InUse

\* define, for a declaration node of a function or block, or at file scope (NULL).
Define(s, name, declaration) ==
  LET home == scopes[Current].serial
  IN  /\ s \in AvailableNodes
      /\ pool' = pool \ {s}
      /\ symbol' = [symbol EXCEPT ![s] =
           [name |-> name, declaration |-> declaration, home |-> home,
            shadowed |-> IF declaration = NULL THEN NULL ELSE binding[declaration].symbol,
            shadowedScope |-> IF declaration = NULL THEN 0 ELSE binding[declaration].scope]]
      /\ binding' = IF declaration = NULL THEN binding
                    ELSE [binding EXCEPT ![declaration] = [symbol |-> s, scope |-> home]]
      /\ scopes' = [scopes EXCEPT ![Current].symbols = <<s>> \o @]
      /\ UNCHANGED <<running, cached, serial>>

\* A name declared twice in a scope is an error that changes nothing here.
DeclareLocal(d, s) ==
  /\ scopes[Current].block = Block[d]
  /\ d \in Private \/ ~Declares(Current, DeclaredName[d])
  /\ d \in Private => \A t \in Range(scopes[Current].symbols) : symbol[t].declaration # d
  /\ Define(s, DeclaredName[d], d)

\* File scope: the declaration node is not kept, since its unit may go.
DeclareGlobal(name, s) ==
  /\ running = <<Globals>>
  /\ ~Declares(Globals, name)
  /\ Define(s, name, NULL)

Next ==
  \/ \E block \in Blocks : EnterBlock(block) \/ Call(block)
  \/ CallBare
  \/ Leave
  \/ \E d \in Declarations, s \in SymbolNodes : DeclareLocal(d, s)
  \/ \E name \in Names, s \in SymbolNodes : DeclareGlobal(name, s)
  \/ \E u \in Uses \cup GlobalUses : Resolve(u)

Spec == Init /\ [][Next]_vars

-----------------------------------------------------------------------------
(* Properties. *)

\* A remembered resolution never changes an answer: at any point, under any nesting,
\* recursion and reuse of symbol nodes, every use that can be evaluated resolves to what
\* a walk of the scope chain would find (interpreter.c:380-408 against 343-359).
ResolutionAgrees ==
  \A u \in Uses \cup GlobalUses :
    Evaluable(u) => Resolved(u) = Lookup(ScopeOf(u), UsedName[u])

\* A name bound to a declaration of its own function is resolved without a walk
\* (interpreter.c:396-403).  Wherever the declaration is live on the current chain, its
\* binding is the symbol of this activation, whatever recursion came and went since.  And
\* as parser.h:81 keeps "the innermost live symbol declared here", a declaration nothing
\* declared by is live leads nowhere, never to a symbol that has gone back to the pool.
BindingsFollowScopes ==
  /\ \A i \in Chain(Current), d \in Declarations :
       \A s \in Range(scopes[i].symbols) :
         symbol[s].declaration = d => binding[d] = [symbol |-> s, scope |-> scopes[i].serial]
  /\ \A d \in Declarations :
       IF \E s \in InUse : symbol[s].declaration = d
       THEN binding[d].symbol \in InUse /\ symbol[binding[d].symbol].declaration = d
       ELSE binding[d] = [symbol |-> NULL, scope |-> 0]
=============================================================================
