------------------------------ MODULE Scanner ------------------------------
(***************************************************************************)
(* The scanner of the compiler (src/src/compiler/lstf-scanner.c): the text *)
(* of a script is cut into tokens before anything is parsed.  A text is a  *)
(* string; places count from 1 and the place after the last character      *)
(* stands for the terminating NUL.                                         *)
(***************************************************************************)
EXTENDS Naturals, Sequences

Blanks  == {" ", "\t", "\n", "\r", "\f"}
Newlines == {"\n", "\r"}
Digits  == {"0", "1", "2", "3", "4", "5", "6", "7", "8", "9"}
Letters ==
    {"a", "b", "c", "d", "e", "f", "g", "h", "i", "j", "k", "l", "m",
     "n", "o", "p", "q", "r", "s", "t", "u", "v", "w", "x", "y", "z",
     "A", "B", "C", "D", "E", "F", "G", "H", "I", "J", "K", "L", "M",
     "N", "O", "P", "Q", "R", "S", "T", "U", "V", "W", "X", "Y", "Z"}

Keywords ==
    {"assert", "async", "true", "false", "null", "let", "for", "of", "const",
     "await", "enum", "class", "fun", "in", "interface", "extends", "type",
     "return", "if", "else"}

\* Signs of one, two and three characters.
Signs ==
    {"{", "}", "[", "]", "(", ")", "?", "??", ":", ";", ",", ".", "...", "=",
     "==", "=>", "<", "<=", "<=>", "<<", ">", ">=", ">>", "|", "||", "^", "&",
     "&&", "+", "%", "!", "!=", "~", "*", "**"}

NUL == ""

\* A string of TLA+ cannot hold a back quote: the dollar, which starts no
\* token, stands for it.
BackQuote == "$"

Ch(text, i) == IF i <= Len(text) THEN SubSeq(text, i, i) ELSE NUL

RECURSIVE SkipWhile(_, _, _)
SkipWhile(text, i, chars) ==
    IF Ch(text, i) \in chars THEN SkipWhile(text, i + 1, chars) ELSE i

\* A token of some kind that ends before place end; a malformed one is
\* counted as an error and not kept, a comment is not kept either.
Lexeme(kind, end)  == [kind |-> kind, end |-> end, errors |-> 0]
Malformed(end)     == [kind |-> "error", end |-> end, errors |-> 1]
Comment(end)       == [kind |-> "error", end |-> end, errors |-> 0]

\* The longest sign that starts at place i.  (No sign has two characters and
\* is a prefix of one of three but for <=; of ".." only the first is a sign.)
SignAt(text, i) ==
    LET starts(n) == SubSeq(text, i, i + n - 1)
        fits(n) == i + n - 1 <= Len(text) /\ starts(n) \in Signs
        n == IF fits(3) THEN 3 ELSE IF fits(2) THEN 2 ELSE 1
    IN  Lexeme(starts(n), i + n)

\* A minus sign directly before a digit, or a point, belongs to the number.
NumberAt(text, i) ==
    LET whole    == SkipWhile(text, i + 1, Digits)
        fraction == SkipWhile(text, whole + 1, Digits)
        exponent == SkipWhile(text, fraction + 2, Digits)
    IN  CASE Ch(text, whole) # "." ->
                Lexeme(IF Ch(text, i) = "-" /\ whole = i + 1 THEN "-" ELSE "integer", whole)
          [] Ch(text, whole) = "." /\ fraction = whole + 1 -> Malformed(fraction)
          [] Ch(text, whole) = "." /\ fraction > whole + 1 ->
                CASE Ch(text, fraction) \notin {"e", "E"} -> Lexeme("double", fraction)
                  [] Ch(text, fraction + 1) \notin {"+", "-"} -> Malformed(fraction + 1)
                  [] exponent = fraction + 2 -> Malformed(exponent)
                  [] OTHER -> Lexeme("double", exponent)

\* Where the body of a string ends: at the quote, or where the text or, for
\* a string that may not span lines, the line ends.
RECURSIVE BodyEnd(_, _, _)
BodyEnd(text, i, quote) ==
    LET ends == {NUL} \cup (IF quote = BackQuote THEN {} ELSE Newlines)
    IN  IF Ch(text, i) \in ends \cup {quote} THEN i
        ELSE IF Ch(text, i) # "\\" THEN BodyEnd(text, i + 1, quote)
        ELSE IF Ch(text, i + 1) \in ends THEN i
        ELSE BodyEnd(text, i + 2, quote)

\* Mutant: the closing quote is left for the next token.
StringAtOpen(text, i) ==
    LET end == BodyEnd(text, i + 1, Ch(text, i))
    IN  IF Ch(text, end) # Ch(text, i) THEN Malformed(end) ELSE Lexeme("string", end)

StringAt(text, i) ==
    LET quote == Ch(text, i)
        end == BodyEnd(text, i + 1, quote)
    IN  IF Ch(text, end) # quote THEN Malformed(end)
        ELSE Lexeme(IF quote = BackQuote THEN "verbatim string" ELSE "string", end + 1)

RECURSIVE LineEnd(_, _)
LineEnd(text, i) ==
    IF Ch(text, i) \in {NUL} \cup Newlines THEN i ELSE LineEnd(text, i + 1)

RECURSIVE StarSlash(_, _)
StarSlash(text, i) ==
    IF Ch(text, i) = NUL \/ (Ch(text, i) = "*" /\ Ch(text, i + 1) = "/") THEN i
    ELSE StarSlash(text, i + 1)

\* The search for the end of a comment starts at the star that opens it.
SlashAt(text, i) ==
    LET close == StarSlash(text, i + 1)
    IN  CASE Ch(text, i + 1) = "/" -> Comment(LineEnd(text, i + 1))
          [] Ch(text, i + 1) = "*" ->
                IF Ch(text, close) = NUL THEN Malformed(close) ELSE Comment(close + 2)
          [] OTHER -> Lexeme("/", i + 1)

\* "as" is scanned as the keyword "async".
WordAt(text, i) ==
    LET end == SkipWhile(text, i, Letters \cup Digits \cup {"_"})
        word == SubSeq(text, i, end - 1)
    IN  Lexeme(CASE word \in Keywords -> word
                 [] word = "as"       -> "async"
                 [] OTHER             -> "identifier", end)

LexemeAt(text, i) ==
    LET c == Ch(text, i)
    IN  CASE c = NUL                       -> Lexeme("eof", i)
          [] c \in Signs                   -> SignAt(text, i)
          [] c \in Digits \cup {"-"}       -> NumberAt(text, i)
          [] c \in {"'", "\"", BackQuote}        -> StringAt(text, i)
          [] c = "/"                       -> SlashAt(text, i)
          [] c \in Letters \cup {"_"}      -> WordAt(text, i)
          [] OTHER                         -> Malformed(i + 1)

(***************************************************************************)
(* The loop of lstf_scanner_new(), one lexeme a step.                      *)
(***************************************************************************)
Start(text) == [text |-> text, pos |-> 1, tokens |-> <<>>, num_errors |-> 0]

AtEnd(s) == s.tokens # <<>> /\ s.tokens[Len(s.tokens)].kind = "eof"

ScanNext(s) ==
    LET begin == SkipWhile(s.text, s.pos, Blanks)
        l == LexemeAt(s.text, begin)
        token == [kind |-> l.kind, text |-> SubSeq(s.text, begin, l.end - 1)]
    IN  [s EXCEPT !.pos = l.end,
                  !.num_errors = @ + l.errors,
                  !.tokens = IF l.kind = "error" THEN @ ELSE Append(@, token)]

RECURSIVE ScanRest(_)
ScanRest(s) == IF AtEnd(s) THEN s ELSE ScanRest(ScanNext(s))

Scan(text) == ScanRest(Start(text))

\* The characters the body of a string stands for: what follows a backslash
\* is taken as it is, but for the letters that name a control character; in
\* a verbatim string only the backquote is escaped.
Control(c) ==
    CASE c = "a" -> "BEL" [] c = "b" -> "BS" [] c = "f" -> "\f"
      [] c = "n" -> "\n"  [] c = "r" -> "\r" [] c = "v" -> "VT"
      [] OTHER -> c

RECURSIVE Unescaped(_, _)
Unescaped(body, verbatim) ==
    IF body = "" THEN ""
    ELSE LET c == Ch(body, 1)
             escaped == Ch(body, 2)
             n == IF c = "\\" THEN 2 ELSE 1
             piece == CASE c # "\\" -> c
                        [] c = "\\" /\ verbatim ->
                              IF escaped = BackQuote THEN escaped ELSE c \o escaped
                        [] c = "\\" /\ ~verbatim -> Control(escaped)
         IN  piece \o Unescaped(SubSeq(body, n + 1, Len(body)), verbatim)

\* The string of a token, as the parser asks for it.
StringOf(token) ==
    IF token.kind \in {"string", "verbatim string"}
    THEN Unescaped(SubSeq(token.text, 2, Len(token.text) - 1),
                   token.kind = "verbatim string")
    ELSE token.text
=============================================================================
