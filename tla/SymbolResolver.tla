---------------------------- MODULE SymbolResolver ----------------------------
(***************************************************************************)
(* The first pass over a program that parsed                               *)
(* (src/src/compiler/lstf-symbolresolver.c): names are bound to what       *)
(* declares them, written types become types, and every function learns    *)
(* which variables of others it captures.                                  *)
(*                                                                         *)
(* The program is the body of an implicit function, main.  A place in the  *)
(* tree is the sequence of the positions that lead to it, so the nodes     *)
(* around a place are its prefixes; a symbol is the place of its           *)
(* declaration.  The pass is a value that each visit takes and returns:    *)
(*   table    the names each block, function and lambda declares;          *)
(*   refs     what each simple name refers to;                             *)
(*   typeof   the type of each symbol; members, what interfaces hold;      *)
(*   captured the variables each function captures, in order;              *)
(*   scope    the block, function or lambda being visited;                 *)
(*   errors   how many errors were reported;                               *)
(*   stopped  why the compiler itself died, "" as long as it lives.        *)
(***************************************************************************)
EXTENDS Types

LOCAL SX == INSTANCE SequencesExt
LOCAL FX == INSTANCE FiniteSetsExt

CONSTANT MaxCaptures          \* LSTF_VM_MAX_CAPTURES
ASSUME MaxCapturesAssumption == MaxCaptures \in Nat \ {0}

\* Nodes of the syntax tree, as module Parser makes them.
Tree(k, s, kids) == [k |-> k, s |-> s, kids |-> kids]
Named(t)         == Tree("named type", t, <<>>)

(***************************************************************************)
(* What every program starts with (lstf_file_create_builtins): the         *)
(* functions have no block.                                                *)
(***************************************************************************)
BuiltinFunction(async, name, params, result) ==
    Tree(async, name,
         <<Tree("parameters", "", [i \in DOMAIN params |->
                Tree("parameter", params[i][1], <<Named(params[i][2])>>)]), result>>)

BuiltinVariable(name, type) == Tree("variable", name, <<Tree("none", "", <<>>), type>>)

Properties(typed) ==
    [i \in DOMAIN typed |-> Tree("property", typed[i][1], <<Named(typed[i][2])>>)]
BuiltinInterface(name, typed) ==
    Tree("interface", name, <<Tree("base types", "", <<>>)>> \o Properties(typed))

Builtins ==
    << BuiltinVariable("server_path", Named("string")),
       BuiltinFunction("function", "option", <<<<"key", "string">>>>, Named("string")),
       Tree("type alias", "DocumentUri", <<Named("string")>>),
       BuiltinFunction("function", "file", <<<<"type", "string">>, <<"contents", "string">>>>,
                       Named("string")),
       BuiltinInterface("Position", <<<<"line", "int">>, <<"character", "int">>>>),
       BuiltinInterface("Range", <<<<"start", "Position">>, <<"end", "Position">>>>),
       Tree("enum", "DiagnosticSeverity",
            [i \in 1..4 |-> Tree("constant", <<"Error", "Warning", "Information", "Hint">>[i],
                                 <<Tree("integer literal", ToString(i), <<>>)>>)]),
       BuiltinInterface("Diagnostic", <<<<"range", "Range">>,
                                        <<"severity", "DiagnosticSeverity">>,
                                        <<"message", "string">>>>),
       BuiltinInterface("PublishDiagnosticsParams", <<<<"uri", "string">>, <<"version", "int">>>>),
       BuiltinFunction("function", "memory", <<<<"contents", "string">>>>, Named("DocumentUri")),
       BuiltinVariable("project_files", Tree("array type", "", <<Named("DocumentUri")>>)),
       BuiltinFunction("async function", "diagnostics", <<<<"file", "DocumentUri">>>>,
                       Tree("named type", "future", <<Named("PublishDiagnosticsParams")>>)),
       BuiltinFunction("function", "print", <<<<"args", "any">>>>, Named("void")) >>

Main(program) ==
    Tree("function", "main", <<Tree("parameters", "", <<>>), Named("void"),
                               Tree("block", "", Builtins \o program)>>)

MainBlock == <<3>>

---------------------------------------------------------------------------
(***************************************************************************)
(* Places and names.                                                       *)
(***************************************************************************)
RECURSIVE NodeAt(_, _)
NodeAt(tree, place) ==
    IF place = <<>> THEN tree ELSE NodeAt(tree.kids[Head(place)], Tail(place))

Outer(place) == SubSeq(place, 1, Len(place) - 1)
Kids(tree, place) == [i \in DOMAIN NodeAt(tree, place).kids |-> Append(place, i)]

\* The innermost node around a place, itself included, that is in a set.
Innermost(places, place) ==
    LET around == {n \in 0..Len(place) : SubSeq(place, 1, n) \in places}
    IN  SubSeq(place, 1, FX!Max(around))

IsCallable(n) == n.k \in {"function", "async function", "lambda"}
Callables(tree, place) ==
    {p \in {SubSeq(place, 1, n) : n \in 0..Len(place)} : IsCallable(NodeAt(tree, p))}
Enclosing(tree, place) == Innermost(Callables(tree, place), place)

SymbolKind(tree, symbol) ==
    LET k == NodeAt(tree, symbol).k
    IN  CASE k \in {"variable", "parameter"} -> "variable"
          [] k \in {"function", "async function"} -> "function"
          [] k = "constant" -> "constant"
          [] k \in {"enum", "interface", "type alias"} -> "type"
          [] OTHER -> "property"

\* lstf_scope_lookup(): the places of the declaration, none or one.
Declared(table, scope, name) ==
    LET scopes == {n \in 0..Len(scope) :
                       /\ SubSeq(scope, 1, n) \in DOMAIN table
                       /\ name \in DOMAIN table[SubSeq(scope, 1, n)]}
    IN  IF scopes = {} THEN {} ELSE {table[SubSeq(scope, 1, FX!Max(scopes))][name]}

Report(r)           == [r EXCEPT !.errors = @ + 1]
Declare(r, name, p) == [r EXCEPT !.table[r.scope] = (name :> p) @@ @]
SetType(r, p, t)    == [r EXCEPT !.typeof = (p :> t) @@ @]

\* A visit of a node that opens a scope; the one around it is current again
\* when the visit is over.
Entered(r, p)    == [r EXCEPT !.scope = p, !.table = (p :> <<>>) @@ @]
Left(inside, r)  == [inside EXCEPT !.scope = r.scope]

---------------------------------------------------------------------------
(***************************************************************************)
(* Written types.  Each visit leaves the type it resolved in r.type.       *)
(***************************************************************************)
Word(name) ==
    CASE name \in {"int", "double", "number", "bool", "string", "object", "any",
                   "pattern", "void"} -> Simple(name)
      [] name = "array" -> ArrayOf(AnyType)
      [] OTHER -> NoType

\* lstf_symbolresolver_resolve_data_type(), once the type parameters are.
ResolveName(r, name, params) ==
    LET found == {s \in Declared(r.table, r.scope, name) : SymbolKind(r.tree, s) = "type"}
        symbol == CHOOSE s \in found : TRUE
        k == NodeAt(r.tree, symbol).k
    IN  CASE Word(name) # NoType -> [r EXCEPT !.type = Word(name)]
          [] name = "future" ->
                IF params = <<>> THEN [Report(r) EXCEPT !.type = Unresolved(name)]
                ELSE [r EXCEPT !.type = FutureOf(params[1])]
          [] name # "future" /\ Word(name) = NoType /\ found = {} ->
                [Report(r) EXCEPT !.type = Unresolved(name)]
          [] OTHER ->
                [r EXCEPT !.type = CASE k = "enum" -> EnumType(symbol)
                                     [] k = "interface" -> InterfaceType(symbol)
                                     [] k = "type alias" -> r.typeof[symbol]]

RECURSIVE ResolveType(_, _), ResolveTypes(_, _), AddMembers(_, _, _)
\* The types at some places, in r.types.
TypesAfter(first, places) == [ResolveTypes(first, places) EXCEPT !.types = <<first.type>> \o @]
ResolveTypes(r, places) ==
    IF places = <<>> THEN [r EXCEPT !.types = <<>>]
    ELSE TypesAfter(ResolveType(r, Head(places)), Tail(places))

\* lstf_interface_add_member(): the last property of a name is the one kept.
AddMember(t, symbol, p, name) ==
    LET others == SelectSeq(t.members[symbol].members, LAMBDA m : m.name # name)
        m == [name |-> name, at |-> p, type |-> t.type]
    IN  SetType([t EXCEPT !.members[symbol].members = Append(others, m)], p, t.type)

AddMembers(r, symbol, places) ==
    IF places = <<>> THEN r
    ELSE LET p == Head(places)
             t == ResolveType(r, Append(p, 1))
         IN  AddMembers(AddMember(t, symbol, p, NodeAt(r.tree, p).s), symbol, Tail(places))

\* The type a node stands for, once those of its parts are in r.types.
TypeFrom(r, n) ==
    CASE n.k = "named type" -> ResolveName(r, n.s, r.types)
      [] n.k = "null type"  -> [r EXCEPT !.type = NullType]
      [] n.k = "array type" -> [r EXCEPT !.type = ArrayOf(r.types[1])]
      [] n.k = "union type" -> [r EXCEPT !.type = UnionOf(Unite(r.members, <<>>, r.types))]
      [] n.k = "function type" -> [r EXCEPT !.type = FunctionType(n.s, Head(r.types), Tail(r.types))]

ResolveType(r, p) ==
    LET n == NodeAt(r.tree, p)
        parts == Kids(r.tree, p)
        \* The parameters of a function type hold theirs.
        signature == [i \in DOMAIN parts |-> IF i = 1 THEN parts[1] ELSE Append(parts[i], 1)]
        empty == (p :> [members |-> <<>>, bases |-> <<>>])
    IN  IF n.k = "interface type"
        THEN [AddMembers([r EXCEPT !.members = empty @@ @], p, parts) EXCEPT !.type = InterfaceType(p)]
        ELSE TypeFrom(ResolveTypes(r, IF n.k = "function type" THEN signature ELSE parts), n)

---------------------------------------------------------------------------
(***************************************************************************)
(* Captures.  A variable of another function is captured by the function   *)
(* that mentions it, and then by what directly holds this one as long as   *)
(* that is a function or a lambda: the walk goes by parent nodes and stops *)
(* at the first node of another kind, which a block is.                    *)
(***************************************************************************)
Captured(r, f) == IF f \in DOMAIN r.captured THEN r.captured[f] ELSE <<>>

Capture(r, f, symbol) ==
    LET own == Captured(r, f)
        more == IF SX!Contains(own, symbol) THEN own ELSE Append(own, symbol)
        kept == [r EXCEPT !.captured = (f :> more) @@ @]
    IN  IF Len(more) > MaxCaptures THEN Report(kept) ELSE kept

RECURSIVE CaptureUpwards(_, _, _, _)
CaptureUpwards(r, f, owner, symbol) ==
    IF f = owner \/ ~IsCallable(NodeAt(r.tree, f)) THEN r
    ELSE LET c == Capture(r, f, symbol)
         IN  IF c.errors > r.errors \/ f = <<>> THEN c
             ELSE CaptureUpwards(c, Outer(f), owner, symbol)

MayBeCaptured(r, symbol) ==
    \/ SymbolKind(r.tree, symbol) = "variable"
    \/ SymbolKind(r.tree, symbol) = "function" /\ Captured(r, symbol) # <<>>

\* visit_member_access() of a simple name.
BindName(r, p, name) ==
    LET found == Declared(r.table, r.scope, name)
        symbol == CHOOSE s \in found : TRUE
        bound == [r EXCEPT !.refs = (p :> symbol) @@ @]
    IN  CASE found = {} -> Report(r)
          [] found # {} /\ MayBeCaptured(r, symbol) ->
                CaptureUpwards(bound, Enclosing(r.tree, r.scope),
                               Enclosing(r.tree, Outer(symbol)), symbol)
          [] OTHER -> bound

---------------------------------------------------------------------------
(***************************************************************************)
(* The visits.                                                             *)
(***************************************************************************)
RECURSIVE Bind(_, _), BindAll(_, _)
BindAll(r, places) ==
    IF places = <<>> THEN r ELSE BindAll(Bind(r, Head(places)), Tail(places))

\* A variable is known after what initializes it; only its own block is
\* searched for another of the same name.
BindInitial(t, p, n) ==
    LET i == IF n.k = "variable" /\ n.kids[1].k # "none" THEN Bind(t, Append(p, 1)) ELSE t
    IN  SetType(i, p, t.type)

BindVariable(r, p, n, typed) ==
    LET done == BindInitial(IF typed # <<>> THEN ResolveType(r, Head(typed)) ELSE [r EXCEPT !.type = NoType],
                            p, n)
    IN  IF n.s \in DOMAIN r.table[r.scope] THEN Report(done) ELSE Declare(done, n.s, p)

\* An enum or a function clashes with any name that is visible.
Clashes(r, name) == Declared(r.table, r.scope, name) # {}

BindSignature(result, p, n) ==
    LET params == Kids(result.tree, Append(p, 1))
        bound  == BindAll(result, params)
    IN  SetType(bound, p, FunctionType(IF n.k = "async function" THEN "async" ELSE "", result.type,
                                       [i \in DOMAIN params |-> bound.typeof[params[i]]]))

\* A function is known before its result type, its parameters and its block.
BindFunction(r, p, n) ==
    LET known  == IF p = <<>> THEN r ELSE Declare(r, n.s, p)
        typed  == BindSignature(ResolveType(Entered(known, p), Append(p, 2)), p, n)
    IN  IF p # <<>> /\ Clashes(r, n.s) THEN Report(r)
        ELSE Left(IF Len(n.kids) = 3 THEN Bind(typed, Append(p, 3)) ELSE typed, r)

RECURSIVE Mentions(_, _)
Mentions(t, name) ==
    \/ t.k = "unresolved" /\ t.s = name
    \/ \E i \in DOMAIN t.kids : Mentions(t.kids[i], name)

WithBases(r, p) == [r EXCEPT !.members[p].bases = r.types]

\* Interfaces and aliases hide what has their name.
BindInterface(r, p, n) ==
    LET open == [Declare(r, n.s, p) EXCEPT
                     !.members = (p :> [members |-> <<>>, bases |-> <<>>]) @@ @]
    IN  AddMembers(WithBases(ResolveTypes(open, Kids(r.tree, Append(p, 1))), p), p, Tail(Kids(r.tree, p)))

\* The alias becomes the symbol of the type it stands for.  An interface type
\* finds its interface by its symbol: visiting it then follows a null pointer.
Aliased(t, p, name) ==
    LET done == SetType(t, p, t.type)
    IN  CASE t.type.k = "interface" -> [done EXCEPT !.stopped = "null pointer"]
          [] Mentions(t.type, name) -> Report(done)
          [] OTHER -> done

BindAlias(r, p, n) ==
    Aliased(ResolveType(SetType(Declare(r, n.s, p), p, Unresolved(n.s)), Append(p, 1)), p, n.s)

Bind(r, p) ==
    LET n == NodeAt(r.tree, p)
    IN  CASE r.stopped # "" -> r
          [] n.k = "block" -> Left(BindAll(Entered(r, p), Kids(r.tree, p)), r)
          [] n.k = "variable"  -> BindVariable(r, p, n, Tail(Kids(r.tree, p)))
          [] n.k = "parameter" -> BindVariable(r, p, n, Kids(r.tree, p))
          [] n.k \in {"function", "async function"} -> BindFunction(r, p, n)
          [] n.k = "lambda" ->
                Left(BindAll(Entered(r, p), Kids(r.tree, Append(p, 1)) \o <<Append(p, 2)>>), r)
          [] n.k = "interface"  -> BindInterface(r, p, n)
          [] n.k = "type alias" -> BindAlias(r, p, n)
          [] n.k = "enum" -> IF Clashes(r, n.s) THEN Report(r) ELSE Declare(r, n.s, p)
          [] n.k = "access" /\ n.kids = <<>> -> BindName(r, p, n.s)
          [] OTHER -> BindAll(r, Kids(r.tree, p))

StartResolver(program) ==
    [tree |-> Main(program), scope |-> <<>>, table |-> <<>>, refs |-> <<>>, typeof |-> <<>>,
     members |-> <<>>, captured |-> <<>>, errors |-> 0, stopped |-> "", type |-> NoType, types |-> <<>>]

\* lstf_symbolresolver_resolve()
Resolve(program) == Bind(StartResolver(program), <<>>)
==============================================================================
