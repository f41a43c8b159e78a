----------------------------- MODULE FrontEnd -----------------------------
(***************************************************************************)
(* The front end of the compiler at work on one script: the text is cut    *)
(* into tokens one by one, and if none is malformed the statements are     *)
(* parsed one by one (src/src/compiler/lstf-scanner.c, lstf-parser.c).     *)
(*                                                                         *)
(* A source is a text together with what its author meant: kind "sentence" *)
(* for the writing of the statements in tree, "broken" for a writing with  *)
(* one statement spoilt, whose other statements are before and after, and  *)
(* "any" for a text of which nothing is known.  Module Compiler goes on    *)
(* with the texts of another kind, "script".                               *)
(***************************************************************************)
EXTENDS Parser

CONSTANT Sources

VARIABLES
    source,   \* the script
    phase,    \* "scanning", "parsing", "parsed" or "rejected"
    scan,     \* the state of the scanner
    parser    \* the state of the parser

frontVars == <<source, phase, scan, parser>>

FrontInit ==
    /\ source \in Sources
    /\ phase = "scanning"
    /\ scan = Start(source.text)
    /\ parser = StartParser(<<>>)

ScanToken ==
    /\ phase = "scanning" /\ ~AtEnd(scan)
    /\ scan' = ScanNext(scan)
    /\ UNCHANGED <<source, phase, parser>>

\* lstf_parser_parse() does nothing when the scanner has met an error.
BeginParse ==
    /\ phase = "scanning" /\ AtEnd(scan)
    /\ IF scan.num_errors = 0
       THEN phase' = "parsing" /\ parser' = StartParser(scan.tokens)
       ELSE phase' = "rejected" /\ UNCHANGED parser
    /\ UNCHANGED <<source, scan>>

ParseStatement ==
    /\ phase = "parsing" /\ ~ListEnds(parser, TRUE)
    /\ parser' = ListRound(parser)
    /\ UNCHANGED <<source, phase, scan>>

EndParse ==
    /\ phase = "parsing" /\ parser.ok /\ ListEnds(parser, TRUE)
    /\ phase' = IF parser.num_errors = 0 THEN "parsed" ELSE "rejected"
    /\ UNCHANGED <<source, scan, parser>>

\* The loop of a statement that is skipped in vain goes on for ever.
SkipInVain ==
    /\ phase = "parsing" /\ parser.stuck
    /\ UNCHANGED frontVars

FrontNext == ScanToken \/ BeginParse \/ ParseStatement \/ EndParse \/ SkipInVain

---------------------------------------------------------------------------
(***************************************************************************)
(* A writing of a tree, by the grammar in src/doc/grammar.txt: parentheses *)
(* stand only where precedence and associativity ask for them.             *)
(***************************************************************************)
Levels ==
    << {"??"}, {"||"}, {"&&"}, {"in"}, {"|"}, {"^"}, {"&"}, {"==", "!=", "<=>"},
       {"<", "<=", ">", ">="}, {"<<", ">>"}, {"+", "-"}, {"*", "/", "%"} >>

LevelOf(node) ==
    CASE node.k \in {"conditional", "lambda"} -> 0
      [] node.k = "binary" -> CHOOSE l \in DOMAIN Levels : node.s \in Levels[l]
      [] node.k \in {"unary", "awaited call"} -> 13
      [] node.k \in {"union type", "function type"} -> 0
      [] OTHER -> 14

\* A string is written as a verbatim one, which may hold anything.
RECURSIVE Quoted(_)
Quoted(s) ==
    IF s = "" THEN ""
    ELSE (IF Ch(s, 1) = BackQuote THEN "\\" ELSE "") \o Ch(s, 1) \o Quoted(SubSeq(s, 2, Len(s)))

RECURSIVE Written(_, _), WrittenAll(_, _, _)
WrittenAll(nodes, separator, level) ==
    IF nodes = <<>> THEN ""
    ELSE Written(nodes[1], level)
         \o (IF Len(nodes) = 1 THEN "" ELSE separator \o " ")
         \o WrittenAll(Tail(nodes), separator, level)

\* node, in a place that takes what binds at least as tightly as level.
Written(node, level) ==
    LET one(n) == Written(node.kids[n], 0)
        from(n) == SubSeq(node.kids, n, Len(node.kids))
        lst(n) == WrittenAll(from(n), ",", 0)
        mine == LevelOf(node)
        right == IF node.s = "??" THEN mine ELSE mine + 1
        left == IF node.s \in {"??", "in"} THEN mine + 1 ELSE mine
        async == IF node.s = "async" \/ node.k = "async function" THEN "async " ELSE ""
        text ==
         CASE node.k = "access" ->
                (IF node.kids = <<>> THEN "" ELSE Written(node.kids[1], 14) \o " . ") \o node.s
           [] node.k \in {"integer literal", "double literal", "boolean literal"} -> node.s
           [] node.k = "null literal" -> "null"
           [] node.k = "string literal" -> BackQuote \o Quoted(node.s) \o BackQuote
           [] node.k = "ellipsis" -> "..."
           [] node.k = "array" -> "[ " \o lst(1) \o " ]"
           [] node.k = "object" -> "{ " \o lst(1) \o " }"
           [] node.k = "member" -> node.s \o " : " \o one(1)
           [] node.k = "optional member" -> node.s \o " ? : " \o one(1)
           [] node.k = "element access" -> Written(node.kids[1], 14) \o " [ " \o lst(2) \o " ]"
           [] node.k = "call" -> Written(node.kids[1], 14) \o " ( " \o lst(2) \o " )"
           [] node.k = "awaited call" ->
                "await " \o Written(node.kids[1], 14) \o " ( " \o lst(2) \o " )"
           [] node.k = "unary" -> node.s \o " " \o Written(node.kids[1], 13)
           [] node.k = "binary" ->
                Written(node.kids[1], left) \o " " \o node.s \o " " \o Written(node.kids[2], right)
           [] node.k = "conditional" ->
                Written(node.kids[1], 1) \o " ? " \o one(2) \o " : " \o one(3)
           [] node.k = "lambda" -> async \o one(1) \o " => " \o one(2)
           [] node.k = "parameters" -> "( " \o lst(1) \o " )"
           [] node.k = "parameter" ->
                node.s \o (IF node.kids = <<>> THEN "" ELSE " : " \o one(1))
           [] node.k = "block" -> "{ " \o WrittenAll(node.kids, "", 0) \o " }"
           [] node.k = "null type" -> "null"
           [] node.k = "named type" ->
                node.s \o (IF node.kids = <<>> THEN "" ELSE " < " \o lst(1) \o " >")
           [] node.k = "array type" -> Written(node.kids[1], 14) \o " [ ]"
           [] node.k = "interface type" -> "{ " \o WrittenAll(node.kids, " ;", 0) \o " }"
           [] node.k = "property" -> node.s \o " : " \o one(1)
           [] node.k = "optional property" -> node.s \o " ? : " \o one(1)
           [] node.k = "function type" ->
                async \o "( " \o lst(2) \o " ) => " \o one(1)
           [] node.k = "union type" -> WrittenAll(node.kids, " |", 14)
           [] node.k = "assignment" -> one(1) \o " = " \o one(2) \o " ;"
           [] node.k = "variable" ->
                "let " \o node.s \o (IF Len(node.kids) = 1 THEN "" ELSE " : " \o one(2))
                \o " = " \o one(1) \o " ;"
           [] node.k = "enum" -> "enum " \o node.s \o " { " \o lst(1) \o " }"
           [] node.k = "constant" -> node.s \o " = " \o one(1)
           [] node.k \in {"function", "async function"} ->
                async \o "fun " \o node.s \o " " \o one(1) \o " : " \o one(2) \o " " \o one(3)
           [] node.k = "interface" ->
                "interface " \o node.s
                \o (IF node.kids[1].kids = <<>> THEN "" ELSE " extends " \o one(1))
                \o " { " \o WrittenAll(from(2), " ;", 0) \o " }"
           [] node.k = "base types" -> lst(1)
           [] node.k = "type alias" -> "type " \o node.s \o " = " \o one(1) \o " ;"
           [] node.k = "expression statement" -> one(1) \o " ;"
           [] node.k = "return" -> "return " \o lst(1) \o " ;"
           [] node.k = "if" ->
                "if ( " \o one(1) \o " ) " \o one(2)
                \o (IF Len(node.kids) = 2 THEN "" ELSE " else " \o one(3))
           [] node.k = "assert" -> "assert " \o one(1) \o " ;"
    IN  IF mine < level THEN "( " \o text \o " )" ELSE text

WrittenProgram(nodes) == WrittenAll(nodes, "", 0)

---------------------------------------------------------------------------
(***************************************************************************)
(* Properties.                                                             *)
(***************************************************************************)
\* Cutting is stable: every token of a text, scanned alone, is that token
\* again, so none was cut short or has swallowed its neighbour.
CutsAreStable ==
    phase # "scanning" =>
        \A n \in 1 .. Len(scan.tokens) - 1 :
            LET again == Scan(scan.tokens[n].text).tokens
            IN  Len(again) = 2 /\ again[1] = scan.tokens[n]

\* The parser reads a writing of a tree as that tree: look-ahead, precedence
\* and associativity choose what the grammar means.
ParsesBack ==
    source.kind = "sentence" =>
        /\ phase # "rejected"
        /\ phase = "parsed" => parser.tree = source.tree

\* What is accepted is accepted whole: but for parentheses, the last
\* separator of a list and braces around one statement, the tokens of an
\* accepted text are the tokens of a writing of its tree, in their order.
\* (A call that is awaited twice over is awaited once.)
Bare(tokens) ==
    LET again(n) == n > 1 /\ tokens[n].kind = "await" /\ tokens[n - 1].kind = "await"
        kept(n) == tokens[n].kind \notin {"(", ")", ",", ";", "{", "}", "|"} /\ ~again(n)
        texts == [n \in DOMAIN tokens |-> StringOf(tokens[n])]
        RECURSIVE Keep(_)
        Keep(n) == IF n > Len(tokens) THEN <<>>
                   ELSE (IF kept(n) THEN <<texts[n]>> ELSE <<>>) \o Keep(n + 1)
    IN  Keep(1)

NothingDropped ==
    phase = "parsed" => Bare(scan.tokens) = Bare(Scan(WrittenProgram(parser.tree)).tokens)

\* One bad statement without a block costs no other: whichever token it
\* lacks, the statements before it and those after it are in the list.
BadStatementIsAlone ==
    source.kind = "broken" /\ phase \in {"parsed", "rejected"} /\ scan.num_errors = 0 =>
        LET before == SubSeq(source.tree, 1, source.at)
            after == SubSeq(source.tree, source.at + 1, Len(source.tree))
            n == Len(parser.tree)
        IN  /\ n >= Len(source.tree)
            /\ SubSeq(parser.tree, 1, source.at) = before
            /\ SubSeq(parser.tree, n - Len(after) + 1, n) = after
=============================================================================
