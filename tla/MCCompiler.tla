----------------------------- MODULE MCCompiler -----------------------------
(***************************************************************************)
(* Sources for Compiler: those of MCFrontEnd, which only the front end     *)
(* sees, and scripts that are compiled and run: the sequences of three     *)
(* pieces of a small set in which names are declared before they are used  *)
(* and once, as a script and, if they begin with a declaration, as the     *)
(* body of a function that is called twice; every two pieces in any order; *)
(* scripts with one operand of the wrong type, one error of form, a        *)
(* negation or a loop; and matchings of patterns.                          *)
(***************************************************************************)
EXTENDS Compiler, MCFrontEnd

MCIntegers == 0..9

Piece(gives, needs, text) == [gives |-> gives, needs |-> needs, text |-> text]

Pieces ==
    { Piece("", "", "b = b - a; "),
      Piece("f", "", "fun f(n: int): int { let m = n * 2; if (n < 2) { return m; } return m + f(n - 2); } "),
      Piece("", "f", "print(f(b)); "),
      Piece("", "f", "f(a); "),
      Piece("v", "", "fun v(n: int): void { let m = n + a; print(m); } "),
      Piece("", "v", "v(b); "),
      Piece("g", "", "let g = (x: int) => x + a; "),
      Piece("", "g", "print(g(g(b))); "),
      Piece("h", "", "fun k(n: int): (x: int) => int { return (x: int) => x - n; } let h = k(b); "),
      Piece("", "h", "print(h(a) == b); "),
      Piece("r", "", "let r = [a, 2]; let q = r; q[1] = b; "),
      Piece("", "r", "print(r[b]); "),
      Piece("o", "", "let o = { p: a, s: 'x' }; o.p = 7; print(o); "),
      Piece("", "", "if (a < b) { print(b / a); } else { print(2); } "),
      Piece("", "", "if (a < b) { if (b == 6) { b = 0; } } "),
      Piece("", "", "assert b > 5 && !(a == 2); ") }

Declared3(x, y, z) ==
    /\ x.needs = "" /\ y.needs \in {"", x.gives} /\ z.needs \in {"", x.gives, y.gives}
    /\ x.gives # "" => x.gives \notin {y.gives, z.gives}
    /\ y.gives # "" => y.gives # z.gives
    /\ Cardinality({x, y, z}) = 3
    /\ {x.gives, y.gives, z.gives} # {""}

Ordered == {w \in Pieces \X Pieces \X Pieces : Declared3(w[1], w[2], w[3])}
TextOf(w) == w[1].text \o w[2].text \o w[3].text

Global(text) == "let a = 3; let b = 6; " \o text
Local(text)  == "fun w(a: int, b: int): int { " \o text \o "return b; } print(w(3, 6)); print(w(1, 2)); "

IllTyped ==
    {"b = 'x'; ", "print(a + 'x'); ", "if (a) { print(a); } ", "let c: string = a; ", "print(b.p); ",
     "print(a[0]); ", "a(); ", "assert a; ", "let g = (x: int) => a - x; print(g('x')); ",
     "let g = (x: int) => x; print(g()); ", "let r = ['x']; r[0] = a; ", "let r = [a]; print(r['x']); ",
     "let o = { p: a }; o.p = 'x'; ", "let o = { p: a }; print(o.q); ", "print(c); ",
     "fun f(): int { return 'x'; } print(f()); ", "print(a == 'x'); ", "print(a && true); "}

IllFormed ==
    {"let = a; ", "b = ; ", "print(a; ", "let r = [a; ", "fun f(n: int) { } ", "if a { } ", "enum e { x } ",
     "return a ", "a + b; ", "let c = a @ b; "}

\* Negations of what is no Boolean and of operations that the analyzer does
\* not look at, beside those that mean something.
Negating ==
    {s \o "print(a); " : s \in
        {"print(!a); ", "assert !b; ", "if (!a) { print(b); } ", "print(!'x'); ", "print(!null); ", "print(!!a); ",
         "print(!(a - 'x')); ", "print(!(a < 'x')); ", "print(!(a && true)); ", "let r = [a]; print(!r); ",
         "fun f(n: int): int { return n; } print(!f(a)); ", "let g = (x: int) => x; print(!g); ",
         "fun v(n: int): bool { return !n; } print(!v(a)); ",
         "print(!(a < b)); ", "if (!(b == a)) { b = 0; } print(!!(b < a)); ", "print(!(a == b && b < a)); "}}

\* Bad statements before or with a loop.
Looping ==
    {"for (a < b) { print(a); } ", "b = ; for (a) { } print(b); ", "if (a < b) { for } ", "let c = @ a; for ",
     "fun f(n: int): int { b = ; for (n) return n; } print(f(a)); "}

\* What is matched, and patterns; an ellipsis that comes last is not tried
\* against nothing, which it does not match.
Nodes ==
    {"[1, 2]", "[2]", "[1, 1, 2]", "[2, 1, 2, 2]", "[3]", "[[1, 2], 2]", "{ p: [1, 2] }", "{ q: 3, p: 3 }",
     "[{ p: 1, q: 2 }]", "[{ q: 2 }, { p: 3, q: { p: 1 } }]"}
Patterns ==
    {"[...]", "[..., 2]", "[1, ..., 2]", "[..., 1, ..., 2]", "[[1, ...], 2]", "[..., ...]", "{ p: ... }",
     "{ p: [..., 2] }", "[..., { p: 1 }]", "[..., { q: { p: 1 } }]", "[{ q: ... }, ..., { p: 3 }]",
     "{ q: 3, p: [..., 2] }"}
Matching ==
    {"let r = " \o v \o "; print(" \o p \o " <=> r); print(r == " \o p \o "); print(r <=> r); "
        : v \in Nodes, p \in Patterns}

Scripts ==
    {Global(TextOf(w)) : w \in Ordered}
    \cup {Local(TextOf(w)) : w \in {w \in Ordered : w[1].gives # ""}}
    \cup {Global(x.text \o y.text) : x, y \in Pieces}
    \cup {Global(s) : s \in IllTyped \cup IllFormed \cup Negating \cup Looping} \cup Matching

MCSources ==
    FrontSources \cup {[kind |-> "script", text |-> t, tree |-> <<>>, at |-> 0] : t \in Scripts}
=============================================================================
