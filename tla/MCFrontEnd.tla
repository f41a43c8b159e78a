----------------------------- MODULE MCFrontEnd -----------------------------
(***************************************************************************)
(* Scripts for FrontEnd: every operator inside every other one on either   *)
(* side, every production at least once, every statement spoilt at every   *)
(* token between two good ones, and mutations of whole scripts.            *)
(***************************************************************************)
EXTENDS FrontEnd, FiniteSets

NameOf(s) == Node("access", s, <<>>)
VarX == NameOf("x")
VarY == NameOf("y")
VarZ == NameOf("z")
MinusOne == Node("integer literal", "-1", <<>>)
TypeNamed(s) == Node("named type", s, <<>>)
BinaryOf(op, l, r) == Node("binary", op, <<l, r>>)
CallOf(fn, args) == Node("call", "", <<fn>> \o args)
ParamsOf(ps) == Node("parameters", "", ps)
ParamOf(s, ts) == Node("parameter", s, ts)
BlockOf(ss) == Node("block", "", ss)
FnType == Node("function type", "", <<TypeNamed("int"), ParamOf("x", <<TypeNamed("int")>>)>>)

AllOperators == UNION {Levels[l] : l \in DOMAIN Levels}

SampleOperands ==
    {VarX, Node("unary", "-", <<VarX>>), Node("unary", "!", <<Node("unary", "~", <<VarX>>)>>),
     Node("access", "x", <<VarY>>), CallOf(VarX, <<>>), CallOf(CallOf(VarX, <<VarY>>), <<VarY, VarZ>>),
     Node("awaited call", "", <<Node("access", "x", <<VarY>>), VarZ>>),
     Node("element access", "", <<VarX, VarY, VarZ>>), MinusOne,
     Node("string literal", "a b", <<>>), Node("null literal", "null", <<>>),
     Node("boolean literal", "true", <<>>), Node("double literal", "1.5e+3", <<>>),
     Node("array", "", <<>>), Node("array", "", <<VarX, BinaryOf("+", VarX, VarY)>>),
     Node("array", "pattern", <<VarX, Leaf("ellipsis")>>),
     Node("object", "", <<>>),
     Node("object", "", <<Node("member", "a", <<VarX>>), Node("optional member", "b", <<VarY>>)>>),
     Node("object", "pattern", <<Node("member", "let", <<Leaf("ellipsis")>>)>>),
     Node("conditional", "", <<VarX, VarY, VarZ>>),
     Node("lambda", "", <<ParamsOf(<<>>), VarX>>),
     Node("lambda", "async", <<ParamsOf(<<ParamOf("x", <<>>), ParamOf("y", <<FnType>>)>>), BlockOf(<<>>)>>),
     Node("lambda", "", <<ParamsOf(<<ParamOf("x", <<>>)>>),
                          BlockOf(<<Node("return", "", <<VarX>>)>>)>>)}

SampleExpressions ==
    SampleOperands
    \cup {BinaryOf(op, BinaryOf(in, VarX, VarY), VarZ) : op \in AllOperators, in \in AllOperators}
    \cup {BinaryOf(op, VarX, BinaryOf(in, VarY, VarZ)) : op \in AllOperators, in \in AllOperators}
    \cup {Node("unary", op, <<e>>) : op \in {"-", "!"}, e \in SampleOperands}
    \cup {BinaryOf(op, e, VarX) : op \in {"??", "<", "*"}, e \in SampleOperands}
    \cup {Node("conditional", "", <<e, VarX, e>>) : e \in SampleOperands}
    \cup {CallOf(e, <<e>>) : e \in SampleOperands \ {MinusOne}}

SampleTypes ==
    {TypeNamed("int"), Leaf("null type"), FnType, Node("interface type", "", <<>>),
     Node("named type", "map", <<TypeNamed("a"), Node("array type", "", <<TypeNamed("b")>>)>>),
     Node("array type", "", <<Node("array type", "", <<FnType>>)>>),
     Node("union type", "", <<Leaf("null type"), FnType, TypeNamed("a")>>),
     Node("array type", "", <<Node("union type", "", <<TypeNamed("a"), TypeNamed("b")>>)>>),
     Node("interface type", "", <<Node("property", "a", <<TypeNamed("b")>>),
                                  Node("optional property", "c", <<FnType>>)>>),
     Node("function type", "async", <<Node("union type", "", <<TypeNamed("a"), TypeNamed("b")>>)>>)}

Plain == Node("expression statement", "", <<CallOf(VarY, <<>>)>>)
Declares(e) == Node("variable", "x", <<e>>)

SampleStatements ==
    {Node("variable", "x", <<MinusOne, t>>) : t \in SampleTypes}
    \cup {Node("type alias", "x", <<t>>) : t \in SampleTypes}
    \cup
    {Plain,
     Node("expression statement", "", <<Node("awaited call", "", <<VarX>>)>>),
     Node("assignment", "", <<Node("access", "y", <<Node("element access", "", <<VarX, MinusOne>>)>>), VarZ>>),
     Node("return", "", <<>>), Node("return", "", <<VarX>>), Node("assert", "", <<BinaryOf("==", VarX, VarY)>>),
     Node("if", "", <<VarX, BlockOf(<<Plain>>)>>),
     Node("if", "", <<VarX, BlockOf(<<Plain, Plain>>), BlockOf(<<Node("if", "", <<VarY, BlockOf(<<>>)>>)>>)>>),
     Node("enum", "x", <<Node("constant", "a", <<MinusOne>>), Node("constant", "b", <<VarX>>)>>),
     Node("interface", "x", <<Node("base types", "", <<>>)>>),
     Node("interface", "x", <<Node("base types", "", <<TypeNamed("a"), TypeNamed("b")>>),
                              Node("property", "a", <<FnType>>),
                              Node("optional property", "b", <<TypeNamed("a")>>)>>),
     Node("function", "x", <<ParamsOf(<<>>), TypeNamed("int"), BlockOf(<<>>)>>),
     Node("async function", "x",
          <<ParamsOf(<<ParamOf("x", <<FnType>>), ParamOf("y", <<TypeNamed("a")>>)>>), TypeNamed("int"),
            BlockOf(<<Plain, Node("return", "", <<VarX>>)>>)>>)}

SamplePrograms ==
    {<<Declares(e)>> : e \in SampleExpressions} \cup {<<s>> : s \in SampleStatements}
    \cup {<<s, t>> : s, t \in SampleStatements}

Sentences ==
    {[kind |-> "sentence", text |-> WrittenProgram(p), tree |-> p, at |-> 0] : p \in SamplePrograms}

\* The tokens of a statement without its end of file.
TokensOf(s) == LET ts == Scan(Written(s, 0)).tokens
               IN  [n \in 1 .. Len(ts) - 1 |-> ts[n].text]

RECURSIVE Joined(_)
Joined(words) == IF words = <<>> THEN "" ELSE words[1] \o " " \o Joined(Tail(words))

Without(ts, m) == SubSeq(ts, 1, m - 1) \o SubSeq(ts, m + 1, Len(ts))
Doubled(ts, m) == SubSeq(ts, 1, m) \o SubSeq(ts, m, Len(ts))
Swapped(ts, m) == [ts EXCEPT ![m] = ts[m + 1], ![m + 1] = ts[m]]

\* A statement without a block that lacks one token, between two good ones.
Spoilt ==
    UNION {LET ts == TokensOf(s) IN {Without(ts, m) : m \in DOMAIN ts} :
           s \in {t \in SampleStatements \ {Plain} :
                     t.k \notin {"if", "function", "async function"}}}

Broken ==
    {[kind |-> "broken", tree |-> <<Plain, Declares(VarX)>>, at |-> 1,
      text |-> WrittenProgram(<<Plain>>) \o " " \o Joined(w) \o WrittenProgram(<<Declares(VarX)>>)] :
        w \in Spoilt}

AnyText(text) == [kind |-> "any", text |-> text, tree |-> <<>>, at |-> 0]

Odd ==
    {"let x = 1.;", "let x=y<=>z;//c\ny();", "let x = 'a\\'b' ; /* c */ y();",
     "let x = \"a", "let x = $a\\$b\nc$;", "/* y();", "let x = 1.5e3;", "let x = -1.5e-3 ;",
     "let x = y-1;", "y ( @ ) ;", "let x = y ... ;", "asserted(); as();", "/*/ y();", "y ( ) ; for ( x ) y ( ) ;",
     "let x = ( x , ) => { } ; y ( ) ; y ( ) ;"}

Mutated ==
    UNION {LET ts == TokensOf(s)
           IN  {Without(ts, m) : m \in DOMAIN ts} \cup {Doubled(ts, m) : m \in DOMAIN ts}
               \cup {Swapped(ts, m) : m \in 1 .. Len(ts) - 1} : s \in SampleStatements}

FrontSources == Sentences \cup Broken \cup {AnyText(t) : t \in Odd \cup {Joined(w) : w \in Mutated}}
=============================================================================
