------------------------------- MODULE Parser -------------------------------
(***************************************************************************)
(* The recursive-descent parser of the compiler                            *)
(* (src/src/compiler/lstf-parser.c), over the tokens of module Scanner.    *)
(*                                                                         *)
(* A production takes a state of the parser and returns the next one: ts   *)
(* and at are the tokens and the current one, ok is FALSE once a function  *)
(* has returned NULL (every later call is then skipped), error is whether  *)
(* the caller's error is set, which a production may leave set although it *)
(* returns a node, and tree is what the last production returned.          *)
(* num_errors counts the reported errors; stuck is set when the loop that  *)
(* skips a bad statement comes back to where it was, and so never ends.    *)
(***************************************************************************)
EXTENDS Scanner

\* A node of the syntax tree: its kind, the name, sign or literal it holds,
\* and the nodes it owns.
Node(k, s, kids) == [k |-> k, s |-> s, kids |-> kids]
Leaf(k) == Node(k, "", <<>>)

StartParser(tokens) ==
    [ts |-> [n \in DOMAIN tokens |-> [kind |-> tokens[n].kind, text |-> StringOf(tokens[n])]],
     at |-> 1, ok |-> TRUE, error |-> FALSE, tree |-> <<>>, num_errors |-> 0, stuck |-> FALSE]

Kind(p)     == p.ts[p.at].kind
TokenText(p) == p.ts[p.at].text
At(p, kind) == p.ok /\ Kind(p) = kind
Among(p, kinds) == p.ok /\ Kind(p) \in kinds
Peek(p)     == p.ts[p.at + 1].kind

Advance(p)      == [p EXCEPT !.at = @ + 1]
Accept(p, kind) == IF At(p, kind) THEN Advance(p) ELSE p
Failed(p)       == IF p.ok THEN [p EXCEPT !.ok = FALSE, !.error = TRUE] ELSE p
Expect(p, kind) == IF At(p, kind) THEN Advance(p) ELSE Failed(p)
Returning(p, t) == IF p.ok THEN [p EXCEPT !.tree = t] ELSE p

\* The checks of *error between two calls.
Checked(p) == IF p.error THEN Failed(p) ELSE p

Identifier(p) == IF At(p, "identifier") THEN Returning(Advance(p), TokenText(p)) ELSE Failed(p)

SimpleName(p) ==
    LET n == Identifier(p) IN Returning(n, Node("access", n.tree, <<>>))

MemberAccess(p, inner) ==
    LET n == Identifier(Expect(p, "."))
    IN  Returning(n, Node("access", n.tree, <<inner>>))

LiteralTokens ==
    {"string", "verbatim string", "true", "false", "null", "double", "integer"}

ExpressionStarts ==
    LiteralTokens \cup {"identifier", "[", "{", "(", "...", "async"}

MemberNames ==
    LiteralTokens \cup {"identifier", "const", "let", "for", "of"}

LiteralExpression(p) ==
    LET type == CASE Kind(p) \in {"true", "false"} -> "boolean literal"
                  [] Kind(p) \in {"string", "verbatim string"} -> "string literal"
                  [] OTHER -> Kind(p) \o " literal"
    IN  IF Among(p, LiteralTokens) THEN Returning(Advance(p), Node(type, TokenText(p), <<>>))
        ELSE Failed(p)

\* The productions that others refer back to, by the name of what they read.
RECURSIVE Production(_, _)
Expression(p) == Production("expression", p)
Unary(p)      == Production("unary", p)
Primary(p)    == Production("primary", p)
DataType(p)   == Production("type", p)
SimpleType(p) == Production("option", p)
Embedded(p)   == Production("embedded", p)
Statement(p)  == Production("statement", p)
Statements(p) == Production("statements", p)

---------------------------------------------------------------------------
(***************************************************************************)
(* Lists.  Items() reads the rest of a list onto the end of p.tree.        *)
(***************************************************************************)
Separator(kind) == IF kind = "property" THEN ";" ELSE IF kind = "option" THEN "|" ELSE ","

\* Whether the list goes on: where the code looks before it reads an item.
MoreItems(p, kind) ==
    CASE kind = "element"  -> Among(p, ExpressionStarts)
      [] kind = "member"   -> Among(p, MemberNames)
      [] kind = "property" -> At(p, "identifier")
      [] OTHER -> p.ok

\* Whether there is a first item.
SomeItem(p, kind) ==
    CASE kind = "argument" -> p.ok /\ ~At(p, ")")
      [] kind \in {"parameter", "type parameter", "lambda parameter"} -> At(p, "identifier")
      [] OTHER -> MoreItems(p, kind)

NamedType(p, kind) ==
    LET n == Identifier(p)
        t == DataType(Expect(n, ":"))
    IN  Returning(t, Node(kind, n.tree, <<t.tree>>))

\* A parameter of a lambda may come without a type.
LambdaParameter(p) ==
    LET n == Identifier(p)
    IN  IF At(n, ":") THEN NamedType(p, "parameter")
        ELSE Returning(n, Node("parameter", n.tree, <<>>))

Property(p) ==
    LET n == Identifier(p)
        t == DataType(Expect(Accept(n, "?"), ":"))
    IN  Returning(t, Node(IF At(n, "?") THEN "optional property" ELSE "property",
                          n.tree, <<t.tree>>))

ObjectMember(p) ==
    LET n == Advance(p)
        v == Expression(Expect(Accept(n, "?"), ":"))
    IN  Returning(v, Node(IF At(n, "?") THEN "optional member" ELSE "member",
                          TokenText(p), <<v.tree>>))

EnumMember(p) ==
    LET n == Identifier(p)
        v == Expression(Expect(n, "="))
    IN  Returning(v, Node("constant", n.tree, <<v.tree>>))

BaseType(p) == LET n == Identifier(p) IN Returning(n, Node("named type", n.tree, <<>>))

Item(p, kind) ==
    CASE kind \in {"element", "argument", "index"} -> Expression(p)
      [] kind = "member"           -> ObjectMember(p)
      [] kind = "property"         -> Property(p)
      [] kind = "parameter"        -> NamedType(p, "parameter")
      [] kind = "type parameter"   -> NamedType(p, "parameter")
      [] kind = "lambda parameter" -> LambdaParameter(p)
      [] kind = "enum member"      -> EnumMember(p)
      [] kind = "type argument"    -> DataType(p)
      [] kind = "option"           -> SimpleType(p)
      [] kind = "base type"        -> BaseType(p)

\* A parameter that does not parse only ends the list of a lambda or of a
\* function type: the error stays set and the list is returned.
Tolerant == {"type parameter", "lambda parameter"}

RECURSIVE Items(_, _)
AfterItem(q, tree, kind) ==
    CASE ~q.ok -> [q EXCEPT !.tree = tree, !.ok = kind \in Tolerant]
      [] q.ok /\ At(q, Separator(kind)) -> Items([Advance(q) EXCEPT !.tree = Append(tree, @)], kind)
      [] OTHER -> [q EXCEPT !.tree = Append(tree, @)]

Items(p, kind) == IF MoreItems(p, kind) THEN AfterItem(Item(p, kind), p.tree, kind) ELSE p

Listed(p, kind) ==
    LET q == Returning(p, <<>>) IN IF SomeItem(q, kind) THEN Items(q, kind) ELSE q

\* A list between two signs, with the check of *error before the second.
Bracketed(p, open, kind, close) ==
    Expect(Checked(Listed(Expect(p, open), kind)), close)

---------------------------------------------------------------------------
(***************************************************************************)
(* Expressions.                                                            *)
(***************************************************************************)
Pattern(nodes, isMember) ==
    IF \E n \in DOMAIN nodes :
           (IF isMember THEN nodes[n].kids[1] ELSE nodes[n]).k = "ellipsis"
    THEN "pattern" ELSE ""

ArrayExpression(p) ==
    LET q == Bracketed(p, "[", "element", "]")
    IN  Returning(q, Node("array", Pattern(q.tree, FALSE), q.tree))

ObjectExpression(p) ==
    LET q == Bracketed(p, "{", "member", "}")
    IN  Returning(q, Node("object", Pattern(q.tree, TRUE), q.tree))

MethodCall(p, callee) ==
    LET q == Bracketed(p, "(", "argument", ")")
    IN  Returning(q, Node("call", "", <<callee>> \o q.tree))

ElementAccess(p, inner) ==
    LET q == Bracketed(p, "[", "index", "]")
    IN  Returning(q, Node("element access", "", <<inner>> \o q.tree))

Calls == {"call", "awaited call"}
CallOnly(e) == IF e.ok /\ e.tree.k \notin Calls THEN Failed(e) ELSE e

Await(p) ==
    LET q == CallOnly(Primary(Expect(p, "await")))
    IN  Returning(q, [q.tree EXCEPT !.k = "awaited call"])

Parenthesized(p) == Expect(Expression(Expect(p, "(")), ")")

RECURSIVE Postfix(_)
Postfix(p) ==
    IF p.error THEN p
    ELSE CASE At(p, ".") -> Postfix(MemberAccess(p, p.tree))
           [] At(p, "(") -> Postfix(MethodCall(p, p.tree))
           [] At(p, "[") -> Postfix(ElementAccess(p, p.tree))
           [] OTHER      -> p

PrimaryExpression(p) ==
    IF At(p, "...") THEN Returning(Advance(p), Leaf("ellipsis"))
    ELSE Checked(Postfix(
        CASE At(p, "identifier")      -> SimpleName(p)
          [] At(p, "[")               -> ArrayExpression(p)
          [] At(p, "{")               -> ObjectExpression(p)
          [] Among(p, LiteralTokens)  -> LiteralExpression(p)
          [] At(p, "await")           -> Await(p)
          [] At(p, "(")               -> Parenthesized(p)
          [] OTHER                    -> Failed(p)))

UnaryExpression(p) ==
    LET q == Unary(Advance(p))
    IN  IF Among(p, {"-", "!", "~"}) THEN Returning(q, Node("unary", Kind(p), <<q.tree>>))
        ELSE Primary(p)

\* The operators of each level of precedence.
Operators(level) ==
    CASE level = "multiplicative" -> {"*", "/", "%"}
      [] level = "additive"       -> {"+", "-"}
      [] level = "shift"          -> {"<<", ">>"}
      [] level = "relational"     -> {"<", "<=", ">", ">="}
      [] level = "equality"       -> {"==", "!=", "<=>"}
      [] level = "and"            -> {"&"}
      [] level = "exclusive or"   -> {"^"}
      [] level = "inclusive or"   -> {"|"}
      [] level = "in"             -> {"in"}
      [] level = "conditional and" -> {"&&"}
      [] level = "conditional or" -> {"||"}
      [] level = "coalescing"     -> {"??"}

RECURSIVE Chain(_, _)
Multiplicative(p) == Chain(Unary(p), "multiplicative")
Additive(p)       == Chain(Multiplicative(p), "additive")
Shift(p)          == Chain(Additive(p), "shift")
Relational(p)     == Chain(Shift(p), "relational")
Equality(p)       == Chain(Relational(p), "equality")
AndExpression(p)  == Chain(Equality(p), "and")
ExclusiveOr(p)    == Chain(AndExpression(p), "exclusive or")
InclusiveOr(p)    == Chain(ExclusiveOr(p), "inclusive or")
InExpression(p)   == Chain(InclusiveOr(p), "in")
ConditionalAnd(p) == Chain(InExpression(p), "conditional and")
ConditionalOr(p)  == Chain(ConditionalAnd(p), "conditional or")
Coalescing(p)     == Chain(ConditionalOr(p), "coalescing")

\* What stands to the right of an operator: what binds tighter, but for ??,
\* which is right-associative.
RightOperand(p, level) ==
    CASE level = "multiplicative" -> Unary(p)
      [] level = "additive"       -> Multiplicative(p)
      [] level = "shift"          -> Additive(p)
      [] level = "relational"     -> Shift(p)
      [] level = "equality"       -> Relational(p)
      [] level = "and"            -> Equality(p)
      [] level = "exclusive or"   -> AndExpression(p)
      [] level = "inclusive or"   -> ExclusiveOr(p)
      [] level = "in"             -> InclusiveOr(p)
      [] level = "conditional and" -> InExpression(p)
      [] level = "conditional or" -> ConditionalAnd(p)
      [] level = "coalescing"     -> Coalescing(p)

\* Mutant: the right operand takes what follows at the same level.
ChainRight(l, level) ==
    IF ~Among(l, Operators(level)) THEN l
    ELSE LET r == Chain(RightOperand(Advance(l), level), level)
         IN  Returning(r, Node("binary", Kind(l), <<l.tree, r.tree>>))

Chain(l, level) ==
    IF ~Among(l, Operators(level)) THEN l
    ELSE LET r == RightOperand(Advance(l), level)
             b == Returning(r, Node("binary", Kind(l), <<l.tree, r.tree>>))
         IN  IF level = "in" THEN b ELSE Chain(b, level)

AfterCondition(c) ==
    LET t == Expression(Advance(c))
        f == Expression(Expect(t, ":"))
    IN  IF At(c, "?") THEN Returning(f, Node("conditional", "", <<c.tree, t.tree, f.tree>>))
        ELSE c

Conditional(p) == AfterCondition(Coalescing(p))

Lambda(p) ==
    LET params == Listed(Expect(Accept(p, "async"), "("), "lambda parameter")
        arrow  == Expect(Expect(params, ")"), "=>")
        stmts  == Expect(Statements(Advance(arrow)), "}")
        body   == IF At(arrow, "{") THEN Returning(stmts, Node("block", "", stmts.tree))
                  ELSE IF arrow.ok THEN Expression(arrow) ELSE arrow
    IN  Returning(body, Node("lambda", IF At(p, "async") THEN "async" ELSE "",
                             <<Node("parameters", "", params.tree), body.tree>>))

RECURSIVE SignatureEnd(_, _)
\* Skips the parameters of what may be a lambda.  "lost" is a type that does
\* not parse: the scanner is then left where it is.
SignatureEnd(p, seen) ==
    LET n == Accept(p, "identifier")
        t == DataType([Advance(n) EXCEPT !.error = FALSE])
        q == IF At(n, ":") THEN [t EXCEPT !.error = p.error] ELSE n
        known == seen \/ At(n, ":")
    IN  CASE ~At(p, "identifier") -> [at |-> p, seen |-> seen, lost |-> FALSE]
          [] At(n, ":") /\ ~t.ok  -> [at |-> [q EXCEPT !.ok = TRUE], seen |-> TRUE, lost |-> TRUE]
          [] At(q, ",")           -> SignatureEnd(Advance(q), known)
          [] OTHER                -> [at |-> q, seen |-> known, lost |-> FALSE]

\* Whether what follows is a lambda, and where the look-ahead leaves the
\* scanner.
AtLambda(p) ==
    LET end == SignatureEnd(Advance(p), FALSE)
        closed == At(end.at, ")") /\ At(Advance(end.at), "=>")
    IN  CASE At(p, "async") -> [is |-> TRUE, at |-> p]
          [] At(p, "(")     -> [is |-> end.seen \/ closed,
                                at |-> IF end.lost THEN end.at ELSE p]
          [] OTHER          -> [is |-> FALSE, at |-> p]

AnyExpression(p) ==
    LET l == AtLambda(p)
    IN  CASE ~p.ok -> p
          [] p.ok /\ l.is  -> Lambda([l.at EXCEPT !.tree = p.tree])
          [] p.ok /\ ~l.is -> Conditional(p)

---------------------------------------------------------------------------
(***************************************************************************)
(* Types, as they are written: names are resolved later.                   *)
(***************************************************************************)
ObjectTypeName(p) ==
    LET q == Bracketed(p, "{", "property", "}")
    IN  Returning(q, Node("interface type", "", q.tree))

FunctionTypeName(p) ==
    LET params == Listed(Expect(Accept(p, "async"), "("), "type parameter")
        r == DataType(Expect(Expect(params, ")"), "=>"))
    IN  Returning(r, Node("function type", IF At(p, "async") THEN "async" ELSE "",
                          <<r.tree>> \o params.tree))

ElementType(p) ==
    LET n == Identifier(p)
        args == Expect(Listed(Advance(n), "type argument"), ">")
    IN  CASE At(p, "null") -> Returning(Advance(p), Leaf("null type"))
          [] At(p, "identifier") ->
                IF At(n, "<") THEN Returning(args, Node("named type", n.tree, args.tree))
                ELSE Returning(n, Node("named type", n.tree, <<>>))
          [] At(p, "(") -> Expect(DataType(Advance(p)), ")")
          [] At(p, "{") -> ObjectTypeName(p)
          [] OTHER -> Failed(p)

RECURSIVE ArraySuffix(_)
ArraySuffix(p) ==
    LET q == Expect(Advance(p), "]")
    IN  IF At(p, "[") THEN ArraySuffix(Returning(q, Node("array type", "", <<p.tree>>)))
        ELSE p

\* After "(", a ")" or a name with "?" or ":" announces a function.
AtFunctionType(p) ==
    LET q == Advance(p)
    IN  At(p, "async") \/
        /\ At(p, "(")
        /\ At(q, ")") \/ (At(q, "identifier") /\ Among(Advance(q), {"?", ":"}))

OptionType(p) ==
    IF AtFunctionType(p) THEN FunctionTypeName(p)
    ELSE Checked(ArraySuffix(Checked(ElementType(p))))

\* Only types without a name are comparable before names are resolved.
RECURSIVE Nameless(_)
Nameless(t) == t.k # "named type" /\ \A n \in DOMAIN t.kids : Nameless(t.kids[n])

RECURSIVE Options(_)
Options(ts) ==
    IF ts = <<>> THEN <<>>
    ELSE LET rest == Options(SubSeq(ts, 1, Len(ts) - 1))
             t == ts[Len(ts)]
         IN  IF Nameless(t) /\ \E n \in DOMAIN rest : rest[n] = t THEN rest
             ELSE Append(rest, t)

WholeType(p) ==
    LET q == Checked(Listed(p, "option"))
    IN  Returning(q, IF Len(q.tree) = 1 THEN q.tree[1]
                     ELSE Node("union type", "", Options(q.tree)))

---------------------------------------------------------------------------
(***************************************************************************)
(* Statements.                                                             *)
(***************************************************************************)
RECURSIVE AssignedPostfix(_)
AssignedPostfix(p) ==
    CASE At(p, ".") -> AssignedPostfix(MemberAccess(p, p.tree))
      [] At(p, "[") -> AssignedPostfix(ElementAccess(p, p.tree))
      [] OTHER      -> p

AssignedTo(l) ==
    LET r == Expression(Expect(l, "="))
    IN  Returning(Expect(r, ";"), Node("assignment", "", <<l.tree, r.tree>>))

Assignment(p) == AssignedTo(Checked(AssignedPostfix(SimpleName(p))))

VariableDeclaration(p) ==
    LET n == Identifier(Expect(p, "let"))
        t == DataType(Advance(n))
        typed == At(n, ":")
        i == Expression(Expect(Checked(IF typed THEN t ELSE n), "="))
    IN  Returning(Expect(i, ";"),
                  Node("variable", n.tree, <<i.tree>> \o IF typed THEN <<t.tree>> ELSE <<>>))

EnumDeclaration(p) ==
    LET n == Identifier(Expect(p, "enum"))
        q == Bracketed(n, "{", "enum member", "}")
    IN  Returning(q, Node("enum", n.tree, q.tree))

FunctionDeclaration(p) ==
    LET n == Identifier(Expect(Accept(p, "async"), "fun"))
        params == Bracketed(n, "(", "parameter", ")")
        result == DataType(Expect(params, ":"))
        body == Statements(Expect(result, "{"))
        q == Expect(body, "}")
    IN  Returning(q, Node(IF At(p, "async") THEN "async function" ELSE "function", n.tree,
                          <<Node("parameters", "", params.tree), result.tree,
                            Node("block", "", body.tree)>>))

\* Mutant: the base types are read and forgotten.
InterfaceDeclarationAlone(p) ==
    LET n == Identifier(Expect(p, "interface"))
        bases == IF At(n, "extends") THEN Listed(Advance(n), "base type")
                 ELSE Returning(n, <<>>)
        q == Bracketed(Checked(bases), "{", "property", "}")
    IN  Returning(q, Node("interface", n.tree, <<Node("base types", "", <<>>)>> \o q.tree))

InterfaceDeclaration(p) ==
    LET n == Identifier(Expect(p, "interface"))
        bases == IF At(n, "extends") THEN Listed(Advance(n), "base type")
                 ELSE Returning(n, <<>>)
        q == Bracketed(Checked(bases), "{", "property", "}")
    IN  Returning(q, Node("interface", n.tree,
                          <<Node("base types", "", bases.tree)>> \o q.tree))

TypeAlias(p) ==
    LET n == Identifier(Expect(p, "type"))
        t == DataType(Expect(n, "="))
    IN  Returning(Expect(t, ";"), Node("type alias", n.tree, <<t.tree>>))

\* Only a call may stand as a statement.
StatementExpression(p) ==
    CallOnly(Checked(Postfix(
        CASE At(p, "identifier")     -> SimpleName(p)
          [] Among(p, LiteralTokens) -> LiteralExpression(p)
          [] At(p, "await")          -> Await(p)
          [] At(p, "(")              -> Parenthesized(p)
          [] OTHER                   -> Failed(p))))

StatementOf(e) == Returning(Expect(e, ";"), Node("expression statement", "", <<e.tree>>))
ExpressionStatement(p) == StatementOf(StatementExpression(p))

ReturnStatement(p) ==
    LET q == Expect(p, "return")
        e == Expression(q)
    IN  IF At(q, ";") THEN Returning(Advance(q), Leaf("return"))
        ELSE Returning(Expect(e, ";"), Node("return", "", <<e.tree>>))

IfStatement(p) ==
    LET c == Expression(Expect(Expect(p, "if"), "("))
        t == Embedded(Expect(c, ")"))
        f == Embedded(Advance(t))
    IN  IF At(t, "else") THEN Returning(f, Node("if", "", <<c.tree, t.tree, f.tree>>))
        ELSE Returning(t, Node("if", "", <<c.tree, t.tree>>))

AssertStatement(p) ==
    LET e == Expression(Expect(p, "assert"))
    IN  Returning(Expect(e, ";"), Node("assert", "", <<e.tree>>))

\* The first token of an assignment, or of the end of a statement, that
\* follows: how an assignment is told from a call.
LineMarks == {"=", "<=>", ";", "let", "await", "const", "for", "eof"}

FirstMark(p) ==
    LET later == {n \in p.at + 1 .. Len(p.ts) : p.ts[n].kind \in LineMarks}
    IN  p.ts[CHOOSE n \in later : \A m \in later : n <= m].kind

AnyStatement(p) ==
    CASE At(p, "identifier") ->
            CASE Peek(p) = "eof"     -> Failed(p)
              [] FirstMark(p) = "="  -> Assignment(p)
              [] OTHER               -> ExpressionStatement(p)
      [] At(p, "await")               -> ExpressionStatement(p)
      [] At(p, "let")                 -> VariableDeclaration(p)
      [] At(p, "enum")                -> EnumDeclaration(p)
      [] Among(p, {"async", "fun"})   -> FunctionDeclaration(p)
      [] At(p, "interface")           -> InterfaceDeclaration(p)
      [] At(p, "type")                -> TypeAlias(p)
      [] At(p, "return")              -> ReturnStatement(p)
      [] At(p, "if")                  -> IfStatement(p)
      [] At(p, "assert")              -> AssertStatement(p)
      [] OTHER                        -> Failed(p)

EmbeddedStatement(p) ==
    LET list == Expect(Statements(Advance(p)), "}")
        stmt == Statement(p)
    IN  IF At(p, "{") THEN Returning(list, Node("block", "", list.tree))
        ELSE Returning(stmt, Node("block", "", <<stmt.tree>>))

\* Mutant: a variable declaration does not end the skipping.
StatementStartsNoLet == {"await", "for", "async", "fun", "enum", "interface", "type"}

\* Skips what is left of a bad statement: to the token after a semicolon or
\* to one that may start a statement, outside the braces opened on the way.
StatementStarts == {"let", "await", "for", "async", "fun", "enum", "interface", "type"}

\* Mutant: the semicolon that ends the bad statement is left.
RECURSIVE RecoveredBefore(_, _, _)
RecoveredBefore(p, possible, unmatched) ==
    IF possible \/ Kind(p) = "eof" THEN p
    ELSE RecoveredBefore(IF Kind(p) \in StatementStarts \cup {";"} THEN p ELSE Advance(p),
                         Kind(p) \in StatementStarts \cup {";"}, unmatched)

RECURSIVE Recovered(_, _, _)
Recovered(p, possible, unmatched) ==
    LET kind == Kind(p)
        found == \/ kind \in StatementStarts \cup {";"}
                 \/ possible /\ kind # "identifier"
                 \/ kind = "identifier" /\ Peek(p) \in {"=", "<=>"}
        open  == CASE kind = "{" -> unmatched + 1
                   [] kind = "}" /\ unmatched > 0 -> unmatched - 1
                   [] OTHER -> unmatched
    IN  IF (possible /\ unmatched = 0) \/ kind = "eof" THEN p
        ELSE Recovered(IF kind \in {";", "}"} \/ ~found \/ open > 0 THEN Advance(p) ELSE p,
                       found, open)

\* The skipping of a bad statement that ends where it began is for nothing.
AfterBad(p, r) ==
    LET again == r.at = p.at /\ ~p.error
    IN  [r EXCEPT !.tree = p.tree, !.stuck = again, !.ok = ~again]

\* One round of the loop of lstf_parser_parse_statement_list(), on a state
\* whose tree is the list so far.
AfterStatement(p, s) ==
    LET bad == [s EXCEPT !.ok = TRUE, !.error = FALSE, !.num_errors = @ + 1]
    IN  CASE s.ok    -> Returning(s, Append(p.tree, s.tree))
          [] s.stuck -> s
          [] OTHER   -> AfterBad(p, Recovered(bad, FALSE, 0))

ListRound(p) == AfterStatement(p, Statement(p))

ListEnds(p, in_root_scope) ==
    ~p.ok \/ At(p, "eof") \/ (~in_root_scope /\ At(p, "}"))

RECURSIVE Rounds(_, _)
Rounds(p, in_root_scope) ==
    IF ListEnds(p, in_root_scope) THEN p ELSE Rounds(ListRound(p), in_root_scope)

\* The list has an error of its own; the caller's is as it was.
StatementList(p, in_root_scope) ==
    LET q == Rounds([p EXCEPT !.tree = <<>>, !.error = FALSE], in_root_scope)
    IN  IF p.ok THEN [q EXCEPT !.error = p.error] ELSE p

Production(rule, p) ==
    CASE rule = "expression" -> AnyExpression(p)
      [] rule = "unary"      -> UnaryExpression(p)
      [] rule = "primary"    -> PrimaryExpression(p)
      [] rule = "type"       -> WholeType(p)
      [] rule = "option"     -> OptionType(p)
      [] rule = "embedded"   -> EmbeddedStatement(p)
      [] rule = "statement"  -> AnyStatement(p)
      [] rule = "statements" -> StatementList(p, FALSE)
=============================================================================
