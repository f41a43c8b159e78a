------------------------------- MODULE Compiler -------------------------------
(***************************************************************************)
(* A script from its text to its end: compile_lstf_script() and            *)
(* run_program() (src/src/lstf.c) put the front end and the passes of the  *)
(* compiler one after the other, each going on only when the one before    *)
(* reported no error, and then the machine executes one instruction after  *)
(* the other.  What the script should do is given by an evaluator of       *)
(* syntax trees that knows nothing of places on a stack, captures, blocks  *)
(* or jumps.  A source that is not of kind "script" is given with the      *)
(* option that leaves the resolver out, and ends with the front end.       *)
(***************************************************************************)
EXTENDS FrontEnd, Machine

LOCAL SX == INSTANCE SequencesExt

CONSTANT NoLsp        \* the option -no-lsp: a script need not name a server

ASSUME NoLspAssumption == NoLsp \in BOOLEAN

---------------------------------------------------------------------------
(***************************************************************************)
(* The meaning of a script.  A variable is a cell; the environment of a    *)
(* statement says which cell each name stands for, and a function keeps    *)
(* the one it was declared in.  Functions and arrays are values.  The      *)
(* arguments of a call are evaluated before what is called.  A state of    *)
(* the evaluator ends by "exited", by an error the language knows, or by   *)
(* "stuck" when an operation meets a value it is not for, or by            *)
(* "unchecked" when that happens to a unary operator or to the operation   *)
(* that is its operand, which the analyzer does not look at.               *)
(***************************************************************************)
Begin == [cells |-> <<>>, heap |-> <<>>, functions |-> <<>>, out |-> <<>>, end |-> "", result |-> <<>>]
Ends(s, why)     == IF s.end = "" THEN [s EXCEPT !.end = why] ELSE s
Is(s, v)         == [s |-> s, v |-> v, vs |-> <<>>]
NewCell(s, v)    == [s EXCEPT !.cells = Append(@, v)]
Known(env, name, s) == (name :> Len(s.cells)) @@ env    \* the newest cell
NewFunction(s, node, env) == [s EXCEPT !.functions = Append(@, [node |-> node, env |-> env])]
LatestFunction(s) == Datum("closure", Len(s.functions), "", <<>>)

\* What an ellipsis stands for: a run of elements, any value of a member.  An
\* object directly in a pattern says nothing of the members it leaves out.
RECURSIVE HasEllipsis(_), Fits(_, _, _)
HasEllipsis(v) == v.k = "ellipsis" \/ \E i \in DOMAIN v.kids : HasEllipsis(v.kids[i])
Fits(pattern, v, inside) ==
    LET parts == pattern.kids
        open  == HasEllipsis(pattern)
        Run(i, from, to) ==
            parts[i].k = "ellipsis" \/ (to = from + 1 /\ Fits(parts[i], v.kids[to], open))
        Cut(c) == /\ c[0] = 0 /\ c[Len(parts)] = Len(v.kids)
                  /\ \A i \in DOMAIN parts : c[i - 1] <= c[i] /\ Run(i, c[i - 1], c[i])
    IN  CASE pattern.k = "ellipsis" -> TRUE
          [] pattern.k # "ellipsis" /\ pattern.k # v.k -> FALSE
          [] pattern.k = "array" /\ v.k = "array" -> \E c \in [0..Len(parts) -> 0..Len(v.kids)] : Cut(c)
          [] pattern.k = "object" /\ v.k = "object" ->
                /\ \A p \in SX!ToSet(parts) : \E w \in SX!ToSet(v.kids) :
                      p.s = w.s /\ Fits(p.kids[1], w.kids[1], open)
                /\ open \/ inside \/ Len(parts) = Len(v.kids)
          [] OTHER -> pattern = v

Same(s, a, b) ==
    LET v == Deep(s.heap, a)
        w == Deep(s.heap, b)
    IN  CASE a.k \in Functions -> a = b
          [] a.k \notin Functions /\ HasEllipsis(w) -> Fits(w, v, FALSE)
          [] OTHER -> Fits(v, w, FALSE)

MeaningOf(s, op, a, b) ==
    LET ints == a.k = "int" /\ b.k = "int"
        bools == a.k = "bool" /\ b.k = "bool"
        json == {a.k, b.k} \subseteq JsonKinds
    IN  CASE op \in {"==", "!=", "<=>"} /\ (a.k = b.k \/ json) -> Is(s, Truth(Same(s, a, b) = (op # "!=")))
          [] op \in {"&&", "||"} /\ bools ->
                Is(s, Truth(IF op = "&&" THEN a.n * b.n = 1 ELSE a.n + b.n > 0))
          [] op \in {"<", "<=", ">", ">="} /\ ints -> Is(s, Truth(Compare(Opcode(op), a.n, b.n)))
          [] op \in {"/", "%"} /\ ints /\ b.n = 0 -> Is(Ends(s, "division by zero"), Null)
          [] ints /\ (op \in {"+", "-", "*"} \/ (op \in {"/", "%"} /\ b.n # 0)) ->
                Is(s, Integer(Compute(Opcode(op), a.n, b.n)))
          [] OTHER -> Is(Ends(s, "stuck"), Null)

\* The part of an array or object that a key names; 0 if there is none.
PartAt(s, v, key) ==
    LET held == Held(s.heap, v)
    IN  CASE v.k = "array" /\ key.k = "int" -> IF key.n + 1 \in DOMAIN held.kids THEN key.n + 1 ELSE 0
          [] v.k = "object" /\ key.k = "string" -> Member(held, key.s)
          [] OTHER -> -1

PartOf(s, v, key) ==
    LET at == PartAt(s, v, key)
        part == Held(s.heap, v).kids[at]
    IN  CASE at = -1 -> Is(Ends(s, "stuck"), Null)
          [] at = 0  -> Is(Ends(s, "invalid member access"), Null)
          [] OTHER   -> Is(s, IF v.k = "object" THEN part.kids[1] ELSE part)

SetPart(s, v, key, w) ==
    LET at == PartAt(s, v, key)
    IN  CASE at = -1 -> Ends(s, "stuck")
          [] at = 0 /\ v.k = "array" -> Ends(s, "index out of bounds")
          [] at > 0 /\ v.k = "array" -> [s EXCEPT !.heap[v.n].kids[at] = w]
          [] OTHER -> [s EXCEPT !.heap[v.n] = SetMember(@, key.s, w)]

RECURSIVE Evaluate(_, _, _), EvaluateAll(_, _, _), Apply(_, _, _), Perform(_, _, _), PerformAll(_, _, _)
Then(first, env, nodes) == [EvaluateAll(first.s, env, nodes) EXCEPT !.vs = <<first.v>> \o @]
EvaluateAll(s, env, nodes) ==
    IF nodes = <<>> THEN [Is(s, Null) EXCEPT !.vs = <<>>]
    ELSE Then(Evaluate(s, env, Head(nodes)), env, Tail(nodes))

\* A new array or object with the values of its parts.
NewAggregate(parts, n) ==
    LET kids == [i \in DOMAIN n.kids |->
                    IF n.k = "object" THEN Datum("member", 0, n.kids[i].s, <<parts.vs[i]>>) ELSE parts.vs[i]]
    IN  Is([parts.s EXCEPT !.heap = Append(@, Datum(n.k, 0, "", kids))],
           Datum(n.k, Len(parts.s.heap) + 1, "", <<>>))

Returned(s) == Is([s EXCEPT !.result = <<>>], IF s.result = <<>> THEN Null ELSE s.result[1])

\* The parameters are new variables of the environment of the function.
Apply(s, f, args) ==
    LET node   == s.functions[f.n].node
        params == node.kids[1].kids
        body   == SX!Last(node.kids)
        names  == [i \in DOMAIN params |-> params[i].s]
        env    == [x \in SX!ToSet(names) |-> Len(s.cells) + (CHOOSE i \in DOMAIN names : names[i] = x)]
                  @@ s.functions[f.n].env
        in     == [s EXCEPT !.cells = @ \o args]
    IN  CASE s.end # "" -> Is(s, Null)
          [] s.end = "" /\ (f.k # "closure" \/ Len(params) # Len(args)) -> Is(Ends(s, "stuck"), Null)
          [] s.end = "" /\ body.k # "block" -> Evaluate(in, env, body)
          [] OTHER -> Returned(PerformAll(in, env, body.kids))

Printed(args) ==
    IF args.s.end # "" THEN args
    ELSE Is([args.s EXCEPT !.out = Append(@, Deep(args.s.heap, args.vs[1]))], Null)

Called(callee, args) == Apply(callee.s, callee.v, args.vs)
EvaluateCall(args, env, n) ==
    IF n.kids[1].s = "print" /\ "print" \notin DOMAIN env THEN Printed(args)
    ELSE Called(Evaluate(args.s, env, n.kids[1]), args)

\* Only a Boolean can be negated.  Nothing the operand is stuck at was checked.
Negated(inner) ==
    CASE inner.s.end = "stuck" -> Is([inner.s EXCEPT !.end = "unchecked"], Null)
      [] inner.s.end # "stuck" /\ inner.v.k = "bool" -> Is(inner.s, Truth(inner.v = Truth(FALSE)))
      [] OTHER -> Is(Ends(inner.s, "unchecked"), Null)

Operate(kids, n) ==
    CASE n.k = "access" -> PartOf(kids.s, kids.vs[1], Text(n.s))
      [] n.k = "element access" -> PartOf(kids.s, kids.vs[1], kids.vs[2])
      [] n.k \in Aggregates -> NewAggregate(kids, n)
      [] n.k = "binary" -> MeaningOf(kids.s, n.s, kids.vs[1], kids.vs[2])
      [] OTHER -> Is(Ends(kids.s, "stuck"), Null)

FunctionOf(s) == Is(s, LatestFunction(s))

Evaluate(s, env, n) ==
    CASE s.end # "" -> Is(s, Null)
      [] n.k \in {"null literal", "boolean literal", "string literal", "integer literal",
                  "double literal"} -> Is(s, Literal(n))
      [] n.k = "ellipsis" -> Is(s, Ellipsis)
      [] n.k = "lambda" -> FunctionOf(NewFunction(s, n, env))
      [] n.k = "access" /\ n.kids = <<>> ->
            IF n.s \in DOMAIN env THEN Is(s, s.cells[env[n.s]]) ELSE Is(Ends(s, "stuck"), Null)
      [] n.k = "call" -> EvaluateCall(EvaluateAll(s, env, Tail(n.kids)), env, n)
      [] n.k = "unary" /\ n.s = "!" -> Negated(Evaluate(s, env, n.kids[1]))
      [] OTHER -> Operate(EvaluateAll(s, env, [i \in DOMAIN n.kids |->
                              IF n.k = "object" THEN n.kids[i].kids[1] ELSE n.kids[i]]), n)

Assigned(inner, env, left, v) ==
    LET s == inner.s
        key == IF left.k = "access" THEN Text(left.s) ELSE inner.vs[2]
    IN  CASE s.end # "" -> s
          [] left.kids = <<>> /\ left.s \in DOMAIN env -> [s EXCEPT !.cells[env[left.s]] = v]
          [] left.kids = <<>> /\ left.s \notin DOMAIN env -> Ends(s, "stuck")
          [] OTHER -> SetPart(s, inner.vs[1], key, v)

Assign(right, env, left) == Assigned(EvaluateAll(right.s, env, left.kids), env, left, right.v)

\* A statement that begins with the value of an expression.
PerformWith(first, env, n) ==
    LET s == first.s
        declared == NewCell(s, first.v)
        side == IF first.v.n = 1 THEN <<n.kids[2]>> ELSE SubSeq(n.kids, 3, Len(n.kids))
        Only(t) == [s |-> t, env |-> env]
    IN  CASE s.end # "" \/ n.k = "expression statement" -> Only(s)
          [] n.k = "variable" -> [s |-> declared, env |-> Known(env, n.s, declared)]
          [] n.k = "return"   -> Only([s EXCEPT !.result = <<first.v>>])
          [] first.v.k # "bool" -> Only(Ends(s, "stuck"))
          [] n.k = "if" -> Only(PerformAll(s, env, side))
          [] n.k = "assert" -> Only(IF first.v = Truth(FALSE) THEN Ends(s, "assertion failed") ELSE s)

\* A statement, and the environment of those after it.
Perform(s, env, n) ==
    LET self == Known(env, n.s, NewCell(s, Null))
        function == NewFunction(s, n, self)
        Only(t) == [s |-> t, env |-> env]
    IN  CASE n.k = "function" -> [s |-> NewCell(function, LatestFunction(function)), env |-> self]
          [] n.k = "assignment" -> Only(Assign(Evaluate(s, env, n.kids[2]), env, n.kids[1]))
          [] n.k = "return" /\ n.kids = <<>> -> Only([s EXCEPT !.result = <<Null>>])
          [] n.k = "block" -> Only(PerformAll(s, env, n.kids))
          [] n.k \in {"variable", "expression statement", "if", "assert"} \/ (n.k = "return" /\ n.kids # <<>>) ->
                PerformWith(Evaluate(s, env, n.kids[1]), env, n)
          [] OTHER -> Only(s)

After(first, nodes) == PerformAll(first.s, first.env, nodes)
PerformAll(s, env, nodes) ==
    IF nodes = <<>> \/ s.end # "" \/ s.result # <<>> THEN s
    ELSE After(Perform(s, env, Head(nodes)), Tail(nodes))

Meaning(program) ==
    LET s == Ends(PerformAll(Begin, <<>>, program), "exited") IN [end |-> s.end, out |-> s.out]

---------------------------------------------------------------------------
VARIABLES
    stage,     \* what comes next
    unit,      \* what the last pass made of the source
    meaning,   \* what it should do
    vm         \* the machine that runs it

vars == <<frontVars, stage, unit, meaning, vm>>

Nothing == [tree |-> <<>>]
Idle    == StartMachine(0)

Init ==
    /\ FrontInit
    /\ stage = "parse"
    /\ unit = Nothing /\ meaning = Nothing /\ vm = Idle

\* Where a pass leads that made something, reported errors or crashed.
Outcome(next, made, errors, stopped) ==
    /\ stage' = CASE stopped # "" -> "crashed"
                  [] stopped = "" /\ errors > 0 -> "refused"
                  [] OTHER -> next
    /\ unit' = IF stopped = "" /\ errors = 0 THEN made ELSE Nothing

Judged(next, r) == Outcome(next, r, r.errors, r.stopped)
Passed(next, g) == Outcome(next, g, 0, g.stopped)

\* Only the bytecode outlives the compiler.  The machine starts at main.
Loaded(g) ==
    /\ Outcome("run", [code |-> g.code, start |-> g.start, fns |-> g.fns], 0, g.stopped)
    /\ vm' = IF g.stopped = "" THEN StartMachine(g.start[1]) ELSE vm

FrontStep == stage = "parse" /\ FrontNext /\ UNCHANGED <<stage, unit, meaning, vm>>

EndFront ==
    /\ stage = "parse" /\ phase \in {"parsed", "rejected"}
    /\ Outcome(IF source.kind = "script" THEN "resolve" ELSE "parsed", [tree |-> parser.tree],
               IF phase = "parsed" THEN 0 ELSE 1, "")
    /\ meaning' = IF stage' = "resolve" THEN Meaning(parser.tree) ELSE meaning
    /\ UNCHANGED <<frontVars, vm>>

ResolveSymbols ==
    /\ stage = "resolve"
    /\ Judged("analyze", Resolve(unit.tree))
    /\ UNCHANGED <<frontVars, meaning, vm>>

\* With -no-lsp the settings are taken as given.
AnalyzeTypes ==
    /\ stage = "analyze"
    /\ Judged("generate", Analyze(unit, NoLsp))
    /\ UNCHANGED <<frontVars, meaning, vm>>

GenerateCode ==
    /\ stage = "generate"
    /\ Passed("assemble", Generate(unit))
    /\ UNCHANGED <<frontVars, meaning, vm>>

\* What the front end made is given up.
AssembleCode ==
    /\ stage = "assemble"
    /\ Loaded(Assemble(unit))
    /\ scan' = Scan("") /\ parser' = StartParser(<<>>)
    /\ UNCHANGED <<source, phase, meaning>>

RunInstruction ==
    /\ stage = "run" /\ Going(vm)
    /\ vm' = Turn(vm, unit.code, unit.start)
    /\ stage' = IF Going(vm') THEN stage ELSE "ended"
    /\ UNCHANGED <<frontVars, unit, meaning>>

Final    == stage \in {"parsed", "ended", "refused", "crashed"}
Finished == Final /\ UNCHANGED vars

Next ==
    FrontStep \/ EndFront \/ ResolveSymbols \/ AnalyzeTypes \/ GenerateCode \/ AssembleCode \/ RunInstruction

\* Nothing but the program itself decides when the next pass or instruction
\* comes: this is WF_vars(Next) with its ENABLED spelled out.  A step that
\* changes something is enabled as long as nothing is final, unless the
\* parser skips a statement in vain.
Fairness == []<>(Final \/ parser.stuck) \/ []<><<TRUE>>_vars
Spec == Init /\ [][Next \/ Finished]_vars /\ Fairness

---------------------------------------------------------------------------
(***************************************************************************)
(* Properties.                                                             *)
(***************************************************************************)
\* What the analyzer lets through never gets stuck: no operation of it meets
\* a value of a class it is not for, no call has too few arguments and no
\* name is unknown.  The exception is "unchecked": the analyzer takes an
\* operand of ! as it is (lstf-semanticanalyzer.c:1538), and any kind of
\* value, which the machine then refuses.
AcceptedIsSound ==
    stage \in {"generate", "assemble", "run", "ended"} => meaning.end # "stuck"

\* An accepted script is compiled, prints what it means in the order it means
\* it, nothing else, and ends as it means to: offsets, jumps, captures,
\* frames and up-values together do what names and scopes say.  What the
\* analyzer does not check is caught by the machine, at the same place.
PrintsItsMeaning ==
    /\ stage # "crashed"
    /\ stage \in {"run", "ended"} => SX!IsPrefix(vm.out, meaning.out)
    /\ stage = "ended" =>
        /\ vm.out = meaning.out
        /\ vm.status = IF meaning.end = "unchecked" THEN "invalid operand type" ELSE meaning.end

\* Whichever way control came to an instruction, the frame is as high as the
\* assembler took it to be when it chose the offsets.
OffsetsAreHeights ==
    stage = "run" /\ vm.pc \in DOMAIN unit.code /\ unit.code[vm.pc].height # Unknown =>
        Height(vm) = unit.code[vm.pc].height

\* The function whose bytecode is at a place.
FunctionAt(pc) ==
    CHOOSE f \in DOMAIN unit.start :
        /\ unit.start[f] <= pc
        /\ \A h \in DOMAIN unit.start : unit.start[h] <= pc => unit.start[h] <= unit.start[f]

\* On return the stack of the caller is what it was without the arguments;
\* on top of it is the result if the function has one, and nothing if not.
AtReturn ==
    stage = "run" /\ vm.pc \in DOMAIN unit.code /\ unit.code[vm.pc].op = "return" /\ Len(vm.frames) > 1
CallsLeaveTheirResult ==
    [][AtReturn => Len(vm'.stack) = TopFrame(vm).base - TopFrame(vm).params
                                     + (IF unit.fns[FunctionAt(vm.pc)].result THEN 1 ELSE 0)]_vars

\* Every script is judged, and every accepted one comes to its end, unless
\* the parser skips a bad statement up to a for, which begins no statement
\* that it knows: it stays there.
StaysAtFor == parser.stuck /\ Kind(parser) = "for"
EveryScriptEnds == source.kind = "script" => <>(stage \in {"refused", "ended"} \/ StaysAtFor)
==============================================================================
