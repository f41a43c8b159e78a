-------------------------------- MODULE Types --------------------------------
(***************************************************************************)
(* The data types of the compiler and the relation that decides every      *)
(* assignment, argument and result: can one type receive another?          *)
(* (src/src/compiler/lstf-datatype.h and the file of each type.)           *)
(*                                                                         *)
(* A type is a record: its class k, a word s (the name of an unresolved    *)
(* type, "async" for a function), the symbol that makes it (the place of   *)
(* an interface or an enum in the syntax tree, <<>> for the others) and    *)
(* the types it is made of: the options of a union, the elements of an     *)
(* array, what a future wraps, the result and the parameters of a          *)
(* function.  Interfaces may mention each other, so what they hold is kept *)
(* aside: a function env from a symbol to [members, bases].                *)
(***************************************************************************)
EXTENDS Sequences, Integers, FiniteSets, TLC

LOCAL SX == INSTANCE SequencesExt

Type(k, s, symbol, kids) == [k |-> k, s |-> s, symbol |-> symbol, kids |-> kids]
Simple(k)           == Type(k, "", <<>>, <<>>)
NoType              == Simple("none")
AnyType             == Simple("any")
BooleanType         == Simple("bool")
DoubleType          == Simple("double")
IntegerType         == Simple("int")
NullType            == Simple("null")
NumberType          == Simple("number")
ObjectType          == Simple("object")
PatternType         == Simple("pattern")
StringType          == Simple("string")
VoidType            == Simple("void")
ArrayOf(t)          == Type("array", "", <<>>, <<t>>)
FutureOf(t)         == Type("future", "", <<>>, <<t>>)
FunctionType(async, result, params) == Type("function", async, <<>>, <<result>> \o params)
InterfaceType(symbol) == Type("interface", "", symbol, <<>>)
EnumType(symbol)    == Type("enum", "", symbol, <<>>)
UnionOf(options)    == Type("union", "", <<>>, options)
Unresolved(name)    == Type("unresolved", name, <<>>, <<>>)

ResultOf(t) == t.kids[1]
Parameters(t) == Tail(t.kids)

\* The classes a type that is made of no other receives.
BooleanReceives == {"bool"}
DoubleReceives  == {"double", "int"}
IntegerReceives == {"int", "bool"}
NullReceives    == {"null"}
NumberReceives  == {"number", "int", "double", "bool"}
ObjectReceives  == {"object", "interface"}
PatternReceives == {"bool", "double", "array", "int", "enum", "null", "number", "object",
                    "interface", "string", "pattern"}
StringReceives  == {"string"}
VoidReceives    == {"void"}
AnyRefuses      == {"void", "future"}

Receives(k) ==
    CASE k = "bool"    -> BooleanReceives [] k = "double" -> DoubleReceives
      [] k = "int"     -> IntegerReceives [] k = "null"   -> NullReceives
      [] k = "number"  -> NumberReceives  [] k = "object" -> ObjectReceives
      [] k = "pattern" -> PatternReceives [] k = "string" -> StringReceives

EnumAccepts(a, b) == b.k = "enum" /\ a.symbol = b.symbol

(***************************************************************************)
(* The relation is computed by calls on the types they are made of, in an  *)
(* order that stops at the first answer.  Two interfaces that lead back to *)
(* themselves make it call itself for ever: "never".                       *)
(***************************************************************************)
Verdict(b) == IF b THEN "yes" ELSE "no"

FirstOther(verdicts, v) ==
    LET others == SX!SelectInSeq(verdicts, LAMBDA w : w # v)
    IN  IF others = 0 THEN v ELSE verdicts[others]
AllOf(verdicts) == FirstOther(verdicts, "yes")
AnyOf(verdicts) == FirstOther(verdicts, "no")

\* lstf_typesymbol_lookup(): the member of an interface or of its bases, as a
\* sequence that is empty when there is none.
RECURSIVE FindMember(_, _, _)
FindMember(env, symbol, name) ==
    LET own == SelectSeq(env[symbol].members, LAMBDA m : m.name = name)
        inherited ==
            [b \in DOMAIN env[symbol].bases |->
                 IF env[symbol].bases[b].k = "interface"
                 THEN FindMember(env, env[symbol].bases[b].symbol, name) ELSE <<>>]
        first == SX!SelectInSeq(inherited, LAMBDA f : f # <<>>)
    IN  CASE own # <<>> -> <<own[Len(own)]>>
          [] own = <<>> /\ first # 0 -> inherited[first]
          [] OTHER -> <<>>

\* Each takes the relation's arguments, with this call under way already.
RECURSIVE Accepts(_, _, _, _)
EveryOption(env, a, b, open) == AllOf([j \in DOMAIN b.kids |-> Accepts(env, a, b.kids[j], open)])

\* ptr_list_find() compares what it looks for with each option, so the option
\* of b is asked whether it receives the option of a.
Present(env, a, option, open) ==
    AnyOf([i \in DOMAIN a.kids |-> Accepts(env, option, a.kids[i], open)])

UnionAccepts(env, a, b, open) ==
    LET OneOption == AnyOf([i \in DOMAIN a.kids |-> Accepts(env, a.kids[i], b, open)])
    IN  IF b.k = "union" /\ OneOption = "no"
        THEN AllOf([j \in DOMAIN b.kids |-> Present(env, a, b.kids[j], open)])
        ELSE OneOption

\* Every base must receive b, and every member the member b has of its name.
InterfaceAccepts(env, a, b, open) ==
    LET Bases == AllOf([i \in DOMAIN env[a.symbol].bases |->
                           Accepts(env, env[a.symbol].bases[i], b, open)])
        Member(m) ==
            LET other == FindMember(env, b.symbol, m.name)
            IN  IF other = <<>> THEN "no" ELSE Accepts(env, m.type, other[1].type, open)
    IN  CASE Bases # "yes" -> Bases
          [] Bases = "yes" /\ b.k = "interface" ->
                AllOf([i \in DOMAIN env[a.symbol].members |-> Member(env[a.symbol].members[i])])
          [] Bases = "yes" /\ b.k = "union" -> EveryOption(env, a, b, open)
          [] OTHER -> "no"

ArrayAccepts(env, a, b, open) ==
    CASE b.k = "array" -> AllOf(<<Accepts(env, a.kids[1], b.kids[1], open),
                                  Accepts(env, b.kids[1], a.kids[1], open)>>)
      [] b.k = "union" -> EveryOption(env, a, b, open)
      [] OTHER -> "no"

FutureAccepts(env, a, b, open) ==
    IF b.k = "future" THEN Accepts(env, a.kids[1], b.kids[1], open) ELSE "no"

FunctionAccepts(env, a, b, open) ==
    CASE b.k = "function" /\ Len(a.kids) # Len(b.kids) -> "no"
      [] b.k = "function" /\ Len(a.kids) = Len(b.kids) ->
            AllOf([i \in DOMAIN a.kids |->
                      IF i = 1 THEN Accepts(env, ResultOf(a), ResultOf(b), open)
                      ELSE Accepts(env, b.kids[i], a.kids[i], open)])
      [] b.k = "union" -> EveryOption(env, a, b, open)
      [] OTHER -> "no"

\* lstf_datatype_is_supertype_of(a, b); open are the calls under way.
Accepts(env, a, b, open) ==
    LET more == open \cup {<<a, b>>}
    IN  CASE <<a, b>> \in open -> "never"
          [] a.k = "any"       -> Verdict(b.k \notin AnyRefuses)
          [] a.k = "void"      -> Verdict(b.k \in VoidReceives)
          [] a.k = "enum"      -> Verdict(EnumAccepts(a, b))
          [] a.k = "union"     -> UnionAccepts(env, a, b, more)
          [] a.k = "interface" -> InterfaceAccepts(env, a, b, more)
          [] a.k = "array"     -> ArrayAccepts(env, a, b, more)
          [] a.k = "future"    -> FutureAccepts(env, a, b, more)
          [] a.k = "function"  -> FunctionAccepts(env, a, b, more)
          [] a.k \in {"unresolved", "none"} -> "no"
          [] OTHER -> IF b.k = "union" THEN EveryOption(env, a, b, more)
                      ELSE Verdict(b.k \in Receives(a.k))

CanReceive(env, a, b) == Accepts(env, a, b, {})

\* lstf_datatype_equals()
SameType(env, a, b) ==
    AllOf(<<CanReceive(env, a, b), CanReceive(env, b, a)>>)

\* lstf_uniontype_add_option(): an option that is there already is not added.
AddOption(env, options, t) ==
    IF \E i \in DOMAIN options : SameType(env, t, options[i]) = "yes"
    THEN options ELSE Append(options, t)

\* lstf_uniontype_new() of some types, in order.
RECURSIVE Unite(_, _, _)
Unite(env, options, more) ==
    IF more = <<>> THEN options
    ELSE Unite(env, AddOption(env, options, Head(more)), Tail(more))
==============================================================================
