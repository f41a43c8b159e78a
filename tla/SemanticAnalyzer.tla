--------------------------- MODULE SemanticAnalyzer ---------------------------
(***************************************************************************)
(* The second pass (src/src/compiler/lstf-semanticanalyzer.c): expressions *)
(* get their types, and a program that does not fit them is refused.       *)
(*                                                                         *)
(* The pass goes on with what the resolver made and adds                   *)
(*   value     the type of each expression that has one;                   *)
(*   expected  the types expected of the expressions being visited, the    *)
(*             last one by the innermost (NoType: nothing is expected);    *)
(*   returns   the types expected of return statements, in the same way;   *)
(*   functions the functions being visited, and returning, those in which  *)
(*             a return statement was seen;                                *)
(*   ellipsis  whether an ellipsis is allowed;                             *)
(*   assigned  which of server_path and project_files were assigned;       *)
(*   awaits    whether main awaits something, which makes it asynchronous; *)
(* The compiler may die here too (stopped): by an assertion, by a null     *)
(* pointer, or by an overflow when two types are compared without end.     *)
(***************************************************************************)
EXTENDS SymbolResolver

LOCAL SX == INSTANCE SequencesExt

Errors(a, n)    == [a EXCEPT !.errors = @ + n]
Stopped(a, why) == [a EXCEPT !.stopped = why]
Value(a, p)     == IF p \in DOMAIN a.value THEN a.value[p] ELSE NoType
HasType(a, p)   == Value(a, p) # NoType
Typed(a, p, t)  == [a EXCEPT !.value = (p :> t) @@ @]
Expected(a)     == IF a.expected = <<>> THEN NoType ELSE SX!Last(a.expected)
Refers(a, p)    == p \in DOMAIN a.refs
RefersTo(a, p, kinds) == Refers(a, p) /\ SymbolKind(a.tree, a.refs[p]) \in kinds
Count(b)        == IF b THEN 1 ELSE 0

\* A type that is not simple where a simple one is wanted.
Unfit(a, want, p) == HasType(a, p) /\ CanReceive(a.members, Simple(want), Value(a, p)) # "yes"

RECURSIVE Check(_, _), CheckAll(_, _)
CheckAll(a, places) ==
    IF places = <<>> THEN a ELSE CheckAll(Check(a, Head(places)), Tail(places))

\* Visits with a type expected of what is visited.
Expecting(a, t, places) ==
    LET v == CheckAll([a EXCEPT !.expected = Append(@, t)], places)
    IN  [v EXCEPT !.expected = SX!Front(@)]
Free(a, places) == Expecting(a, NoType, places)

\* The type of the elements of an array: that of the last one as long as they
\* are the same, then a union which takes in those that differ from it.  A
\* type that equals the union replaces it, and one that differs next is added
\* to what may be no union: the compiler then dereferences a null pointer.
RECURSIVE Common(_, _, _, _)
Common(env, t, made, more) ==
    LET e == Head(more)
    IN  CASE more = <<>> -> t
          [] more # <<>> /\ (t = NoType \/ SameType(env, t, e) = "yes") ->
                Common(env, e, made, Tail(more))
          [] more # <<>> /\ t # NoType /\ ~made ->
                Common(env, UnionOf(<<t, e>>), TRUE, Tail(more))
          [] more # <<>> /\ made /\ t.k = "union" ->
                Common(env, UnionOf(AddOption(env, t.kids, e)), TRUE, Tail(more))
          [] OTHER -> NoType

\* visit_expression(), after the visit of each expression: it takes the type
\* that is expected of it, if that type can receive its own.
Cast(a, p) ==
    LET want == Expected(a)
        fits == CanReceive(a.members, want, Value(a, p))
    IN  CASE want = NoType -> a
          [] want # NoType /\ HasType(a, p) ->
                (CASE fits = "yes"   -> Typed(a, p, want)
                   [] fits = "no"    -> Errors(a, 1)
                   [] fits = "never" -> Stopped(a, "overflow"))
          [] OTHER -> Errors(a, Count(RefersTo(a, p, {"type", "property"})))

---------------------------------------------------------------------------
(***************************************************************************)
(* Operators.                                                              *)
(***************************************************************************)
Arithmetic  == {"+", "-", "*", "/", "%", "**"}
Comparisons == {"<", "<=", ">", ">="}

CheckIn(a, p, l, r) ==
    LET right == Value(a, r)
        fits == CanReceive(a.members, right.kids[1], Value(a, l))
        done == Typed(a, p, BooleanType)
    IN  CASE right.k = "none" -> a
          [] right.k \in {"object", "interface"} ->
                \* The error of a left side that is no string is not counted.
                IF HasType(a, l) /\ ~Unfit(a, "string", l) THEN done ELSE a
          [] right.k = "array" ->
                (CASE ~HasType(a, l) -> a
                   [] HasType(a, l) /\ fits = "yes" -> done
                   [] HasType(a, l) /\ fits = "no" -> Errors(a, 1)
                   [] OTHER -> Stopped(a, "overflow"))
          [] OTHER -> Errors(a, 1)

\* The result of arithmetic is the widest of the two; the code asserts that
\* what is neither a number nor a double is an integer on both sides.
Widest(a, p, sides) ==
    LET widths == {k \in {"number", "double"} :
                      \E s \in sides : SameType(a.members, Value(a, s), Simple(k)) = "yes"}
    IN  CASE "number" \in widths -> Typed(a, p, NumberType)
          [] widths = {"double"}  -> Typed(a, p, DoubleType)
          [] OTHER -> IF \E s \in sides : Unfit(a, "int", s) THEN Stopped(a, "assertion")
                      ELSE Typed(a, p, IntegerType)

CheckArithmetic(a, p, op, l, r) ==
    LET bad == {s \in {l, r} : Unfit(a, "number", s)}
    IN  CASE bad # {} -> Errors(a, Cardinality(bad))
          [] bad = {} /\ op \in Comparisons -> Typed(a, p, BooleanType)
          [] bad = {} /\ op \in Arithmetic /\ HasType(a, l) /\ HasType(a, r) -> Widest(a, p, {l, r})
          [] OTHER -> a

CheckEquality(a, p, l, r) ==
    LET there == CanReceive(a.members, Value(a, l), Value(a, r))
        back  == CanReceive(a.members, Value(a, r), Value(a, l))
        void  == Value(a, l).k = "void" \/ Value(a, r).k = "void"
    IN  CASE ~HasType(a, l) \/ ~HasType(a, r) -> a
          [] there = "never" \/ (there = "no" /\ back = "never") -> Stopped(a, "overflow")
          [] OTHER -> Typed(Errors(a, Count(void \/ (there = "no" /\ back = "no"))), p, BooleanType)

CheckCoalescing(a, p, l, r) ==
    LET bad == {s \in {l, r} : HasType(a, s) /\ CanReceive(a.members, Value(a, s), NullType) # "yes"}
        e == Errors(a, Cardinality(bad))
        options == Unite(a.members, <<>>, <<Value(a, l), Value(a, r)>>)
    IN  IF HasType(a, l) /\ HasType(a, r)
        THEN Typed(e, p, IF Len(options) = 1 THEN options[1] ELSE UnionOf(options))
        ELSE e

CheckOperator(a, p, op, l, r) ==
    LET Bad(k) == Errors(a, Count(Unfit(a, k, l)) + Count(Unfit(a, k, r)))
    IN  CASE op = "in" -> CheckIn(a, p, l, r)
          [] op \in Arithmetic \cup Comparisons -> CheckArithmetic(a, p, op, l, r)
          [] op \in {"<<", ">>", "|", "&", "^"} -> Typed(Bad("int"), p, IntegerType)
          [] op \in {"==", "!="} -> CheckEquality(a, p, l, r)
          [] op = "<=>" -> Bad("pattern")
          [] op \in {"||", "&&"} ->
                IF HasType(a, l) /\ HasType(a, r) THEN Typed(Bad("bool"), p, BooleanType)
                ELSE Bad("bool")
          [] op = "??" -> CheckCoalescing(a, p, l, r)

\* visit_binary_expression(): nothing is expected of the two sides.
CheckBinary(a, p, op) ==
    LET l == Append(p, 1)
        r == Append(p, 2)
    IN  CheckOperator(Free(a, <<l, r>>), p, op, l, r)

\* What lstf_codenode_accept_children() visits.
Children(tree, p) ==
    IF NodeAt(tree, p).k = "lambda" THEN Kids(tree, Append(p, 1)) \o <<Append(p, 2)>>
    ELSE Kids(tree, p)

CheckSign(a, p, op, inner) ==
    LET number == SameType(a.members, Value(a, inner), NumberType) = "yes"
    IN  CASE op = "!" -> IF Value(a, inner).k = "void" THEN Errors(a, 1)
                         ELSE Typed(a, p, BooleanType)
          [] op \in {"~", "-"} /\ ~HasType(a, inner) -> a
          [] op = "~" /\ HasType(a, inner) ->
                IF Unfit(a, "int", inner) THEN Errors(a, 1) ELSE Typed(a, p, IntegerType)
          [] op = "-" /\ HasType(a, inner) ->
                CASE Unfit(a, "number", inner) -> Errors(a, 1)
                  [] ~Unfit(a, "number", inner) ->
                        Typed(a, p, Simple(IF number THEN "number" ELSE "int"))

\* visit_unary_expression() visits the children of its operand and not the
\* operand: a literal or a name gets no type from it.
CheckUnary(a, p, op) ==
    CheckSign(CheckAll(a, Children(a.tree, Append(p, 1))), p, op, Append(p, 1))

---------------------------------------------------------------------------
(***************************************************************************)
(* Values that are made of others.                                         *)
(***************************************************************************)
Elements(a, kids) == Common(a.members, NoType, FALSE, [i \in DOMAIN kids |-> Value(a, kids[i])])
ArrayTyped(a, p, element) ==
    IF element = NoType THEN Stopped(a, "null pointer") ELSE Typed(a, p, ArrayOf(element))

CheckArray(before, p, pattern) ==
    LET want == Expected(before)
        item == IF want.k = "array" THEN want.kids[1] ELSE NoType
        kids == Kids(before.tree, p)
        v == Expecting([before EXCEPT !.ellipsis = pattern], item, kids)
        a == [v EXCEPT !.ellipsis = before.ellipsis]
    IN  CASE pattern -> Typed(a, p, PatternType)
          [] ~pattern /\ (\E i \in DOMAIN kids : ~HasType(a, kids[i])) -> a
          [] OTHER -> ArrayTyped(a, p, CASE kids # <<>> -> Elements(a, kids)
                                         [] kids = <<>> /\ want.k = "array" -> item
                                         [] OTHER -> AnyType)

\* The type an interface that is expected gives to a property: its own, or
\* that of a base; not that of a base of a base.
Wanted(a, want, name) ==
    LET Own(symbol) == SelectSeq(a.members[symbol].members, LAMBDA m : m.name = name)
        bases == a.members[want.symbol].bases
        first == SX!SelectInSeq(bases, LAMBDA b : Own(b.symbol) # <<>>)
    IN  CASE want.k # "interface" -> NoType
          [] want.k = "interface" /\ Own(want.symbol) # <<>> -> Own(want.symbol)[1].type
          [] want.k = "interface" /\ Own(want.symbol) = <<>> /\ first # 0 ->
                Own(bases[first].symbol)[1].type
          [] OTHER -> NoType

\* The properties of an object, each of the type that is wanted of it, up to
\* one that has none.
RECURSIVE CheckMembers(_, _, _, _)
CheckMembers(a, p, want, places) ==
    LET at == Head(places)
        n == NodeAt(a.tree, at)
        v == Expecting(a, Wanted(a, want, n.s), <<at>>)
        m == [name |-> n.s, at |-> at, type |-> Value(v, Append(at, 1))]
    IN  CASE places = <<>> -> Typed(a, p, InterfaceType(p))
          [] places # <<>> /\ m.type = NoType -> v
          [] OTHER -> CheckMembers(SetType([v EXCEPT !.members[p].members = Append(@, m)], at, m.type),
                                   p, want, Tail(places))

CheckObject(a, p, pattern) ==
    LET kids == Kids(a.tree, p)
        Name(i) == NodeAt(a.tree, kids[i]).s
        want == Expected(a)
        v == CheckAll([a EXCEPT !.ellipsis = TRUE], kids)
        open == [a EXCEPT !.members = (p :> [members |-> <<>>, bases |-> <<>>]) @@ @]
    IN  CASE \E i, j \in DOMAIN kids : i < j /\ Name(i) = Name(j) -> Errors(a, 1)
          [] pattern /\ want.k \in {"none", "pattern"} ->
                Typed([v EXCEPT !.ellipsis = a.ellipsis], p, PatternType)
          [] OTHER -> CheckMembers(open, p, want, kids)

LiteralType(k) ==
    CASE k = "boolean literal" -> "bool" [] k = "double literal" -> "double"
      [] k = "integer literal" -> "int"  [] k = "null literal" -> "null"
      [] k = "string literal" -> "string"

---------------------------------------------------------------------------
(***************************************************************************)
(* Accesses and calls.                                                     *)
(***************************************************************************)
Bound(a, p, ms) ==
    IF ms = <<>> THEN Errors(a, 1) ELSE [a EXCEPT !.refs = (p :> ms[1].at) @@ @]

\* What a type symbol holds: the constants of an enum, the properties of an
\* interface itself, nothing for an alias.
Own(a, symbol, name) ==
    LET n == NodeAt(a.tree, symbol)
        constants == {i \in DOMAIN n.kids : n.kids[i].s = name}
    IN  CASE n.k = "enum" -> IF constants = {} THEN <<>>
                             ELSE <<[at |-> Append(symbol, CHOOSE i \in constants : TRUE)]>>
          [] n.k \in {"interface", "interface type", "object"} ->
                SelectSeq(a.members[symbol].members, LAMBDA m : m.name = name)
          [] OTHER -> <<>>

TypeOfSymbol(a, symbol) ==
    LET k == SymbolKind(a.tree, symbol)
    IN  CASE k = "constant" -> Value(a, Append(symbol, 1))
          [] k = "type" -> NoType
          [] OTHER -> a.typeof[symbol]

\* visit_member_access(): a member is looked up once the type of what holds
\* it is known.
CheckAccess(before, p, n) ==
    LET inner == Append(p, 1)
        a == Free(before, Kids(before.tree, p))
        t == Value(a, inner)
        found ==
            CASE Refers(a, p) \/ n.kids = <<>> -> a
              [] t = NoType /\ ~Refers(a, inner) -> Errors(a, 1)
              [] t = NoType /\ RefersTo(a, inner, {"type"}) -> Bound(a, p, Own(a, a.refs[inner], n.s))
              [] t = NoType /\ Refers(a, inner) /\ ~RefersTo(a, inner, {"type"}) ->
                    Stopped(a, "assertion")
              [] t.k = "interface" -> Bound(a, p, Own(a, t.symbol, n.s))
              [] t.k = "union" -> a
              [] OTHER -> Errors(a, 1)
        type == TypeOfSymbol(found, found.refs[p])
    IN  IF found.stopped = "" /\ Refers(found, p) /\ type # NoType THEN Typed(found, p, type) ELSE found

\* How many indices each container takes, of which type, and what it gives.
CheckElement(before, p) ==
    LET parts == Kids(before.tree, p)
        a == Free(before, <<parts[1]>>)
        t == Value(a, parts[1])
        n == Len(parts) - 1
        index == IF t.k \in {"array", "string"} THEN "int" ELSE "string"
        v == Expecting(a, Simple(index), Tail(parts))
        key == NodeAt(v.tree, parts[2])
        Reached == FindMember(v.members, t.symbol, key.s)
    IN  CASE t = NoType -> a
          [] t.k \notin {"none", "array", "object", "interface", "string"} -> Errors(a, 1)
          [] t.k = "array" /\ n = 2 -> Typed(v, p, t)
          [] t.k = "array" /\ n = 1 -> Typed(v, p, t.kids[1])
          [] t.k = "string" /\ n \in {1, 2} -> Typed(v, p, t)
          [] t.k = "object" /\ n = 1 -> Typed(v, p, AnyType)
          [] t.k = "interface" /\ n = 1 ->
                (CASE key.k # "string literal" -> v
                   [] key.k = "string literal" /\ Reached = <<>> -> Errors(v, 1)
                   [] OTHER -> Typed(v, p, Reached[1].type))
          [] OTHER -> Errors(v, 1)

\* Mutant: nothing is expected of the arguments.
CheckArgumentsFree(a, types, places) == Free(a, places)

RECURSIVE CheckArguments(_, _, _)
CheckArguments(a, types, places) ==
    IF types = <<>> \/ places = <<>> THEN a
    ELSE CheckArguments(Expecting(a, Head(types), <<Head(places)>>), Tail(types), Tail(places))

\* await: only of an asynchronous function, and only in another one or in
\* main, which becomes asynchronous by it.
CheckAwait(a, p, t) ==
    LET f == SX!Last(a.functions)
        e == Errors(a, Count(f # <<>> /\ NodeAt(a.tree, f).k # "async function"))
        result == Typed(e, p, ResultOf(t).kids[1])
    IN  CASE t.s # "async" -> Errors(a, 1)
          [] t.s = "async" /\ ResultOf(t).k = "future" ->
                IF f = <<>> THEN [result EXCEPT !.awaits = TRUE] ELSE result
          [] OTHER -> e

CheckCall(before, p, awaited) ==
    LET parts == Kids(before.tree, p)
        a == Free(before, <<parts[1]>>)
        t == Value(a, parts[1])
        v == CheckArguments(a, Parameters(t), Tail(parts))
        e == Errors(v, Count(Len(Parameters(t)) # Len(Tail(parts))))
    IN  CASE t = NoType -> a
          [] t.k \notin {"none", "function"} -> Errors(a, 1)
          [] t.k = "function" /\ awaited  -> CheckAwait(e, p, t)
          [] t.k = "function" /\ ~awaited -> Typed(e, p, ResultOf(t))

(***************************************************************************)
(* Lambdas.  The type of the result comes from the expression, or from the *)
(* return statements that stand directly in the block.                     *)
(***************************************************************************)
ReturnTypes(a, body) ==
    LET found == SelectSeq(Kids(a.tree, body), LAMBDA s : NodeAt(a.tree, s).k = "return")
    IN  [i \in DOMAIN found |->
             IF NodeAt(a.tree, found[i]).kids = <<>> THEN VoidType
             ELSE Value(a, Append(found[i], 1))]

LambdaResult(a, body) ==
    LET ts == ReturnTypes(a, body)
    IN  CASE NodeAt(a.tree, body).k # "block" -> Value(a, body)
          [] NodeAt(a.tree, body).k = "block" /\ ts = <<>> -> VoidType
          [] NodeAt(a.tree, body).k = "block" /\ (\E i \in DOMAIN ts : ts[i] = NoType) -> NoType
          [] NodeAt(a.tree, body).k = "block" /\ Len(ts) = 1 /\ ts[1] # NoType -> ts[1]
          [] OTHER -> UnionOf(Unite(a.members, <<>>, ts))

Unwrapped(t) == IF t.k = "future" THEN t.kids[1] ELSE t

LambdaTyped(a, p, async, t, types) ==
    IF t = NoType \/ (\E i \in DOMAIN types : types[i] = NoType) THEN a
    ELSE Typed(a, p, FunctionType(async, IF async = "async" THEN FutureOf(t) ELSE t, types))

CheckLambda(before, p, n) ==
    LET want == Expected(before)
        body == Append(p, 2)
        params == Kids(before.tree, Append(p, 1))
        a == CheckAll(before, params)
        given == IF want.k = "function" THEN ResultOf(want) ELSE NoType
        v == Expecting([a EXCEPT !.returns = Append(@, Unwrapped(given))],
                       IF n.kids[2].k = "block" THEN NoType ELSE given, <<body>>)
        done == [v EXCEPT !.returns = before.returns]
    IN  LambdaTyped(done, p, n.s, LambdaResult(done, body), [i \in DOMAIN params |-> done.typeof[params[i]]])

---------------------------------------------------------------------------
(***************************************************************************)
(* Declarations and statements.                                            *)
(***************************************************************************)
\* What may hold void may not be the type of a variable.
CheckVoid(a, p) ==
    LET t == a.typeof[p]
    IN  Errors(a, Count(t # NoType /\ CanReceive(a.members, t, VoidType) = "yes"))

CheckVariable(a, p, n) ==
    LET i == Append(p, 1)
        plain == [a EXCEPT !.ellipsis = FALSE]
        inferred == [CheckAll(plain, <<i>>) EXCEPT !.ellipsis = a.ellipsis]
        given == [Expecting(plain, a.typeof[p], <<i>>) EXCEPT !.ellipsis = a.ellipsis]
    IN  CASE n.kids[1].k = "none" -> CheckVoid(a, p)
          [] n.kids[1].k # "none" /\ a.typeof[p] = NoType ->
                CheckVoid(SetType(inferred, p, Value(inferred, i)), p)
          [] OTHER -> CheckVoid(given, p)

\* A parameter without a type is one of a lambda: its type is that of the
\* parameter of the function type which is expected.
CheckParameter(a, p) ==
    LET want == Expected(a)
        index == SX!Last(p) + 1
    IN  CASE a.typeof[p] # NoType -> CheckVoid(a, p)
          [] a.typeof[p] = NoType /\ want.k = "function" /\ index \in DOMAIN want.kids ->
                CheckVoid(SetType(a, p, want.kids[index]), p)
          [] OTHER -> Errors(a, 1)

CheckFunction(before, p, n) ==
    LET result == ResultOf(before.typeof[p])
        async == n.k = "async function"
        block == Len(n.kids) = 3
        start == Errors(before, Count(async /\ block /\ result.k # "future"))
        params == CheckAll([start EXCEPT !.functions = Append(@, p)], Kids(start.tree, Append(p, 1)))
        body == IF block
                THEN CheckAll([params EXCEPT !.returns = Append(@, Unwrapped(result))], <<Append(p, 3)>>)
                ELSE params
        done == [body EXCEPT !.functions = before.functions, !.returns = before.returns]
        nothing == IF async THEN result.k # "future" \/ result.kids[1].k = "void"
                   ELSE result.k = "void"
    IN  Errors(done, Count(block /\ p \notin done.returning /\ ~nothing))

CheckReturn(before, p, n) ==
    LET a == [before EXCEPT !.returning = @ \cup {SX!Last(before.functions)}]
        want == SX!Last(a.returns)
    IN  CASE n.kids # <<>> /\ want.k = "void" -> Errors(a, 1)
          [] n.kids # <<>> /\ want.k # "void" -> Expecting(a, want, <<Append(p, 1)>>)
          [] OTHER -> Errors(a, Count(want.k \notin {"none", "void"}))

\* The two variables every program must set, by whatever has their name where
\* the assignment stands.
Settings == {"server_path", "project_files"}

CheckAssignment(before, p) ==
    LET l == Append(p, 1)
        r == Append(p, 2)
        left == CheckAll([before EXCEPT !.ellipsis = FALSE], <<l>>)
        a == [Expecting(left, Value(left, l), <<r>>) EXCEPT
                  !.ellipsis = before.ellipsis,
                  !.assigned = @ \cup {s \in Settings : Refers(left, l) /\
                                   left.refs[l] \in Declared(left.table, p, s)}]
    IN  CASE ~HasType(a, l) -> Errors(a, Count(RefersTo(a, l, {"type", "property"})))
          [] HasType(a, l) -> Errors(a, Count(RefersTo(a, l, {"constant", "function"})))

Visit(a, p, n) ==
    LET kids == Kids(a.tree, p)
    IN  CASE n.k = "array"  -> CheckArray(a, p, n.s = "pattern")
          [] n.k = "object" -> CheckObject(a, p, n.s = "pattern")
          [] n.k = "binary" -> CheckBinary(a, p, n.s)
          [] n.k = "unary"  -> CheckUnary(a, p, n.s)
          [] n.k = "lambda" -> CheckLambda(a, p, n)
          [] n.k = "access" -> CheckAccess(a, p, n)
          [] n.k = "element access" -> CheckElement(a, p)
          [] n.k \in {"call", "awaited call"} -> CheckCall(a, p, n.k = "awaited call")
          [] n.k = "ellipsis" -> Errors(a, Count(~a.ellipsis))
          [] n.k \in {"boolean literal", "double literal", "integer literal", "null literal",
                      "string literal"} -> Typed(a, p, Simple(LiteralType(n.k)))
          [] n.k = "variable"  -> CheckVariable(a, p, n)
          [] n.k = "parameter" -> CheckParameter(a, p)
          [] n.k \in {"function", "async function"} -> CheckFunction(a, p, n)
          [] n.k = "return"    -> CheckReturn(a, p, n)
          [] n.k = "assignment" -> CheckAssignment(a, p)
          [] n.k = "assert" -> Expecting(a, BooleanType, kids)
          [] n.k = "if" -> CheckAll(Expecting(a, BooleanType, <<kids[1]>>), Tail(kids))
          [] n.k \in {"interface", "type alias"} -> a
          [] OTHER -> CheckAll(a, kids)

Expressions ==
    {"array", "object", "binary", "unary", "lambda", "access", "element access", "call",
     "awaited call", "ellipsis", "conditional", "boolean literal", "double literal",
     "integer literal", "null literal", "string literal"}

AfterVisit(v, p) ==
    IF NodeAt(v.tree, p).k \in Expressions /\ v.stopped = "" THEN Cast(v, p) ELSE v

\* lstf_codenode_accept()
Check(a, p) ==
    IF a.stopped # "" THEN a ELSE AfterVisit(Visit(a, p, NodeAt(a.tree, p)), p)

StartAnalyzer(r) ==
    [n \in DOMAIN r \cup {"value", "expected", "returns", "functions", "returning", "ellipsis",
                          "assigned", "awaits"} |->
        CASE n \in DOMAIN r -> r[n]
          [] n \in {"value", "expected", "returns", "functions"} -> <<>>
          [] n \in {"returning", "assigned"} -> {}
          [] n \in {"ellipsis", "awaits"} -> FALSE]

\* visit_file(): each setting that no statement assigned is an error, unless
\* the settings are taken as given.
Judge(a, given) ==
    IF given \/ a.stopped # "" THEN a ELSE Errors(a, Cardinality(Settings \ a.assigned))

\* lstf_semanticanalyzer_analyze()
Analyze(r, given) == Judge(Check(StartAnalyzer(r), <<>>), given)
==============================================================================
