----------------------------- MODULE CodeGenerator -----------------------------
(***************************************************************************)
(* The third pass (src/src/compiler/lstf-codegenerator.c): a program that  *)
(* was accepted becomes functions made of basic blocks of instructions.    *)
(*                                                                         *)
(* The pass goes on with what the analyzer made and adds                   *)
(*   insts    the instructions, in the order they were emitted; one is     *)
(*            named by its number, and so is the temporary it computes;    *)
(*   bbs      the basic blocks: the instructions of each, the two blocks   *)
(*            that may follow it (0: none), and once the program is        *)
(*            analyzed how many variables die at its end;                  *)
(*   fns      the functions: where they begin and end and their blocks in  *)
(*            order, or the opcode (vm) of one that the machine defines;   *)
(*   stack    the functions being generated, the innermost last;           *)
(*   temp     the instruction that computes each expression;               *)
(*   alloc    the instruction that sets each variable up;                  *)
(*   blockOf  the block each scope is in at the moment;                    *)
(*   fnOf     the function generated for each function and lambda.         *)
(* A visit that fetches a block and then visits expressions goes on with   *)
(* the block it fetched, which may not be the last one any more.           *)
(***************************************************************************)
EXTENDS SemanticAnalyzer, JsonValues

LOCAL SX == INSTANCE SequencesExt
LOCAL FX == INSTANCE FiniteSetsExt

CONSTANT Integers             \* what the integer literals of programs stand for
ASSUME IntegersAssumption == Integers \subseteq Int

Literal(n) ==
    CASE n.k = "null literal"    -> Null
      [] n.k = "boolean literal" -> Truth(n.s = "true")
      [] n.k = "string literal"  -> Text(n.s)
      [] n.k = "integer literal" -> Integer(CHOOSE i \in Integers : ToString(i) = n.s)
      [] n.k = "double literal"  -> Datum("double", 0, n.s, <<>>)

\* lstf_expression_to_json(): the value of an expression that is constant, as
\* a sequence that is empty when it is not.
RECURSIVE ToJson(_, _)
ToJson(g, p) ==
    LET n == NodeAt(g.tree, p)
        parts == [i \in DOMAIN n.kids |->
                     ToJson(g, IF n.k = "object" THEN p \o <<i, 1>> ELSE Append(p, i))]
        kids == [i \in DOMAIN parts |-> IF n.k = "array" THEN parts[i][1]
                                        ELSE Datum("member", 0, n.kids[i].s, parts[i])]
    IN  CASE n.k \in {"array", "object"} ->
                IF \E i \in DOMAIN parts : parts[i] = <<>> THEN <<>> ELSE <<Aggregate(n.k, n.s, kids)>>
          [] n.k = "ellipsis" -> <<Ellipsis>>
          [] n.k = "access" ->
                IF RefersTo(g, p, {"constant"}) THEN ToJson(g, Append(g.refs[p], 1)) ELSE <<>>
          [] n.k \in {"null literal", "boolean literal", "string literal", "integer literal",
                      "double literal"} -> <<Literal(n)>>
          [] OTHER -> <<>>

---------------------------------------------------------------------------
(***************************************************************************)
(* Instructions and blocks.                                                *)
(***************************************************************************)
Instruction(op, args) ==
    [op |-> op, args |-> args, s |-> "", n |-> 0, value |-> Null, captures |-> <<>>,
     targets |-> <<0, 0>>]
Constant(v)       == [Instruction("constant", <<>>) EXCEPT !.value = v]
Operator(s, args) == [Instruction(IF Len(args) = 1 THEN "unary" ELSE "binary", args) EXCEPT !.s = s]
Branch(args, taken, other) ==
    [Instruction("branch", args) EXCEPT !.targets = <<taken, other>>]

Latest(g)    == Len(g.insts)
Current(g)   == SX!Last(g.stack)
Scope(g, p)  == Innermost(DOMAIN g.table, Outer(p))
Here(g, p)   == g.blockOf[Scope(g, p)]
Temp(g, p)   == IF p \in DOMAIN g.temp THEN g.temp[p] ELSE 0
Allocated(g, symbol) == IF symbol \in DOMAIN g.alloc THEN g.alloc[symbol] ELSE 0

Yields(g, p, i)     == [g EXCEPT !.temp = (p :> i) @@ @]
YieldsLatest(g, p)  == Yields(g, p, Latest(g))
MoveTo(g, scope, b) == [g EXCEPT !.blockOf = (scope :> b) @@ @]
Follows(g, b, i, next) == [g EXCEPT !.bbs[b].succ[i] = next]

\* lstf_ir_basicblock_add_instruction(): nothing may follow a branch or a
\* return.  An argument that is no instruction was a null pointer.
Ended(g, b) ==
    g.bbs[b].insts # <<>> /\ g.insts[SX!Last(g.bbs[b].insts)].op \in {"branch", "return"}

Emit(g, b, inst) ==
    CASE g.stopped # "" -> g
      [] g.stopped = "" /\ 0 \in {inst.args[i] : i \in DOMAIN inst.args} ->
            Stopped(g, "null pointer")
      [] g.stopped = "" /\ (Ended(g, b) \/ inst.value = Unusable) -> Stopped(g, "assertion")
      [] OTHER -> [g EXCEPT !.insts = Append(@, inst),
                            !.bbs[b].insts = Append(@, Latest(g) + 1),
                            !.bbs[b].succ = IF inst.op = "branch" THEN inst.targets ELSE @]

\* Instructions one after the other, each for a block; one that is for no
\* block is only made.
Nowhere == 0
RECURSIVE EmitAll(_, _)
EmitAll(g, list) ==
    IF list = <<>> THEN g
    ELSE EmitAll(IF Head(list)[1] = Nowhere THEN [g EXCEPT !.insts = Append(@, Head(list)[2])]
                 ELSE Emit(g, Head(list)[1], Head(list)[2]), Tail(list))

EmptyBlock      == [insts |-> <<>>, succ |-> <<0, 0>>, killed |-> 0]
NewBlocks(g, n) == [g EXCEPT !.bbs = @ \o [i \in 1..n |-> EmptyBlock]]
BlockAt(g, i)   == Len(g.bbs) + i       \* the blocks that NewBlocks(g, n) makes
AddBlocks(g, bs) == [g EXCEPT !.fns[Current(g)].blocks = @ \o bs]

\* lstf_ir_function_new_for_userfn(), lstf_ir_function_new_for_instruction()
UserFunction(g, p, params, result) ==
    LET f == [params |-> params, result |-> result, vm |-> "", blocks |-> <<>>,
              entry |-> BlockAt(g, 1), exit |-> BlockAt(g, 2)]
    IN  [Follows(NewBlocks(g, 2), BlockAt(g, 1), 1, BlockAt(g, 2)) EXCEPT
             !.fns = Append(@, f), !.fnOf = (p :> Len(g.fns) + 1) @@ @]
MachineFunction(g, p, vm, params, result) ==
    [g EXCEPT !.fns = Append(@, [params |-> params, result |-> result, vm |-> vm, blocks |-> <<>>,
                                 entry |-> 0, exit |-> 0]),
              !.fnOf = (p :> Len(g.fns) + 1) @@ @]

\* The body of a function starts in a block of its own.
Open(g, p, f) ==
    LET start == BlockAt(g, 1)
        o == MoveTo(NewBlocks([g EXCEPT !.stack = Append(@, f)], 1), p, start)
    IN  AddBlocks(Follows(o, g.fns[f].entry, 1, start), <<start>>)
Close(g) == [g EXCEPT !.stack = SX!Front(@)]

---------------------------------------------------------------------------
(***************************************************************************)
(* Closures.  A function that captures something is a value made where it  *)
(* is declared: each variable it captures is one of the function around    *)
(* it, or one which that function captures itself; the latter is named by  *)
(* its place among the captures of the inner function.                     *)
(***************************************************************************)
Captures(g, p, around) ==
    [i \in DOMAIN Captured(g, p) |->
        LET symbol == Captured(g, p)[i]
            own == ~SX!Contains(Captured(g, around), symbol)
        IN  [local |-> own, index |-> IF own THEN Allocated(g, symbol) ELSE i - 1]]

MakeClosure(g, p, f) ==
    LET lambda == NodeAt(g.tree, p).k = "lambda"
        block == Here(g, p)
        captures == Captures(g, p, Enclosing(g.tree, Outer(p)))
        load == Emit(g, block, [Instruction("load function", <<>>) EXCEPT !.n = f])
        closure == Emit(g, block, [Instruction("closure", <<>>) EXCEPT !.n = f, !.captures = captures])
        variable == Emit(closure, block, Instruction("alloc", <<Latest(closure)>>))
    IN  CASE p = <<>> -> g
          [] p # <<>> /\ captures = <<>> -> IF lambda THEN YieldsLatest(load, p) ELSE g
          [] p # <<>> /\ (\E i \in DOMAIN captures : captures[i].local /\ captures[i].index = 0) ->
                Stopped(g, "assertion")
          [] OTHER -> IF lambda THEN YieldsLatest(closure, p)
                      ELSE [variable EXCEPT !.alloc = (p :> Latest(variable)) @@ @]

\* lstf_memberaccess_get_capture_id(): the innermost function around that
\* captures the variable, and where among its captures; -1 if there is none.
CaptureId(g, p) ==
    LET capturing == {f \in Callables(g.tree, Outer(p)) : SX!Contains(Captured(g, f), g.refs[p])}
        f == Innermost(capturing, p)
    IN  IF capturing = {} THEN -1
        ELSE SX!SelectInSeq(Captured(g, f), LAMBDA s : s = g.refs[p]) - 1

---------------------------------------------------------------------------
(***************************************************************************)
(* Expressions.                                                            *)
(***************************************************************************)
RECURSIVE Gen(_, _), GenAll(_, _), Fill(_, _, _, _)
GenAll(g, places) == IF places = <<>> THEN g ELSE GenAll(Gen(g, Head(places)), Tail(places))
Temps(g, places) == [i \in DOMAIN places |-> Temp(g, places[i])]

\* visit_array() and visit_object(): a constant, or an empty one which gets
\* its parts one by one.
FillPart(g, b, at) ==
    LET n == NodeAt(g.tree, at)
        property == n.k = "member"
        value == IF property THEN Append(at, 1) ELSE at
        json == ToJson(g, value)
        named == IF property THEN Emit(g, b, Constant(Text(n.s))) ELSE g
        v == IF json # <<>> THEN Emit(named, b, Constant(json[1])) ELSE Gen(named, value)
        part == IF json # <<>> THEN Latest(v) ELSE Temp(v, value)
    IN  Emit(v, b, IF property THEN Instruction("setelement", <<Latest(g), Latest(g) + 1, part>>)
                   ELSE Instruction("append", <<Latest(g), part>>))

Fill(g, b, made, places) ==
    IF places = <<>> THEN g
    ELSE Fill(FillPart(Emit(g, b, Instruction("load", <<made>>)), b, Head(places)), b, made, Tail(places))

GenAggregate(g, p, n) ==
    LET b == Here(g, p)
        json == ToJson(g, p)
        empty == Datum(n.k, 0, "", <<>>)
        made == Emit(g, b, Constant(IF json # <<>> THEN json[1] ELSE empty))
    IN  Yields(IF json # <<>> THEN made ELSE Fill(made, b, Latest(made), Kids(g.tree, p)),
               p, Latest(made))

IsLvalue(g, p) ==
    p # <<>> /\ NodeAt(g.tree, Outer(p)).k = "assignment" /\ SX!Last(p) = 1

\* visit_member_access()
GenName(g, p) ==
    LET b == Here(g, p)
        symbol == g.refs[p]
        kind == SymbolKind(g.tree, symbol)
        id == CaptureId(g, p)
    IN  CASE id # -1 -> YieldsLatest(Emit(g, b, [Instruction("getupvalue", <<>>) EXCEPT !.n = id]), p)
          [] id = -1 /\ (kind = "variable" \/ (kind = "function" /\ Captured(g, symbol) # <<>>)) ->
                YieldsLatest(Emit(g, b, Instruction("load", <<Allocated(g, symbol)>>)), p)
          [] id = -1 /\ kind = "function" /\ Captured(g, symbol) = <<>> ->
                YieldsLatest(Emit(g, b, [Instruction("load function", <<>>) EXCEPT
                                             !.n = g.fnOf[symbol]]), p)
          [] OTHER -> g

GenMember(g, p, n) ==
    LET b == Here(g, p)
        name == Emit(g, b, Constant(Text(n.s)))
        constant == ToJson(g, p)
    IN  CASE ~Refers(g, p) -> Stopped(g, "null pointer")
          [] RefersTo(g, p, {"constant"}) -> YieldsLatest(Emit(g, b, Constant(constant[1])), p)
          [] OTHER -> YieldsLatest(Emit(name, b, Instruction("getelement",
                                       <<Temp(g, Append(p, 1)), Latest(name)>>)), p)

GenAccess(before, p, n) ==
    LET g == GenAll(before, Kids(before.tree, p))
    IN  CASE g.stopped # "" \/ IsLvalue(g, p) -> g
          [] n.kids = <<>> -> GenName(g, p)
          [] n.kids # <<>> -> GenMember(g, p, n)

\* visit_element_access(): a part is read, and a slice is filled by a loop
\* whose counter and test are made but put nowhere.
ReadSlice(g, p, t) ==
    LET b == Here(g, p)
        made(i) == Latest(g) + i
        test == BlockAt(g, 1)
        fill == BlockAt(g, 2)
        end  == BlockAt(g, 3)
        loop == EmitAll(Follows(NewBlocks(g, 3), b, 1, test),
                        << <<b, Constant(Datum("array", 0, "", <<>>))>>,
                           <<Nowhere, Instruction("phi", <<t[2], made(8)>>)>>,
                           <<Nowhere, Operator("lessthan", <<made(2), t[3]>>)>>,
                           <<test, Branch(<<made(3)>>, fill, end)>>,
                           <<fill, Instruction("getelement", <<t[1], made(2)>>)>>,
                           <<fill, Instruction("append", <<made(1), made(5)>>)>>,
                           <<Nowhere, Constant(Integer(1))>>,
                           <<fill, Operator("add", <<made(2), made(7)>>)>>,
                           <<fill, Branch(<<>>, test, 0)>> >>)
    IN  IF loop.stopped # "" \/ 0 \in {t[1], t[2], t[3]} THEN Stopped(g, "null pointer")
        ELSE Yields(MoveTo(AddBlocks(loop, <<test, fill, end>>), Scope(g, p), end), p, made(1))

ElementRead(g, p, parts) ==
    CASE g.stopped # "" \/ IsLvalue(g, p) -> g
      [] Len(parts) = 2 -> YieldsLatest(Emit(g, Here(g, p), Instruction("getelement", Temps(g, parts))), p)
      [] Len(parts) = 3 -> ReadSlice(g, p, Temps(g, parts))

GenElement(g, p) == ElementRead(GenAll(g, Kids(g.tree, p)), p, Kids(g.tree, p))

Opcode(op) ==
    CASE op = "&" -> "and" [] op = "|" -> "or" [] op = "^" -> "xor" [] op = "/" -> "div"
      [] op \in {"==", "<=>"} -> "equal" [] op = "**" -> "pow" [] op = ">" -> "greaterthan"
      [] op = ">=" -> "greaterthan_equal" [] op = "in" -> "in" [] op = "<<" -> "lshift"
      [] op = "<" -> "lessthan" [] op = "<=" -> "lessthan_equal" [] op = "&&" -> "land"
      [] op = "||" -> "lor" [] op = "-" -> "sub" [] op = "%" -> "mod" [] op = "*" -> "mul"
      [] op = "+" -> "add" [] op = ">>" -> "rshift"

\* a ?? b: the right side is computed in a block of its own, which is left by
\* no branch, and the two meet.
GenCoalescing(g, p, l, r) ==
    LET b == Here(g, p)
        right == BlockAt(g, 1)
        join  == BlockAt(g, 2)
        test  == Emit(NewBlocks(g, 2), b, Operator("bool", <<l>>))
        left  == Emit(test, b, Branch(<<Latest(test)>>, join, right))
        other == Gen(MoveTo(left, Scope(g, p), right), r)
        phi   == Emit(Follows(other, right, 1, join), join, Instruction("phi", <<l, Temp(other, r)>>))
    IN  IF phi.stopped # "" THEN phi
        ELSE MoveTo(AddBlocks(YieldsLatest(phi, p), <<right, join>>), Scope(g, p), join)

GenBinary(before, p, op) ==
    LET l == Append(p, 1)
        r == Append(p, 2)
        left == Gen(before, l)
        b == Here(left, p)
        g == Gen(left, r)
        both == <<Temp(left, l), Temp(g, r)>>
        equal == Emit(g, b, Operator("equal", both))
    IN  CASE left.stopped # "" -> left
          [] left.stopped = "" /\ op = "??" -> GenCoalescing(left, p, Temp(left, l), r)
          [] left.stopped = "" /\ op = "!=" ->
                YieldsLatest(Emit(equal, b, Operator("lnot", <<Latest(equal)>>)), p)
          [] OTHER -> YieldsLatest(Emit(g, b, Operator(Opcode(op), both)), p)

\* c ? x : y: the block is fetched before the condition is generated, and the
\* expression gets no temporary.
GenConditional(before, p) ==
    LET parts == Kids(before.tree, p)
        scope == Scope(before, p)
        c == Gen(before, parts[1])
        yes  == BlockAt(c, 1)
        no   == BlockAt(c, 2)
        join == BlockAt(c, 3)
        test == Emit(NewBlocks(c, 3), Here(before, p), Branch(<<Temp(c, parts[1])>>, yes, no))
        true  == Gen(MoveTo(test, scope, yes), parts[2])
        jump  == Emit(true, yes, Branch(<<>>, join, 0))
        false == Gen(MoveTo(jump, scope, no), parts[3])
        phi == Emit(Follows(false, no, 1, join), join,
                    Instruction("phi", <<Temp(true, parts[2]), Temp(false, parts[3])>>))
    IN  IF phi.stopped # "" THEN phi ELSE MoveTo(AddBlocks(phi, <<yes, no, join>>), scope, join)

GenUnary(g, p, op) ==
    LET v == Gen(g, Append(p, 1))
        code == CASE op = "~" -> "not" [] op = "!" -> "lnot" [] op = "-" -> "neg"
    IN  YieldsLatest(Emit(v, Here(g, p), Operator(code, <<Temp(v, Append(p, 1))>>)), p)

\* visit_method_call(): a function that captures nothing is called by its
\* name; anything else is a value which goes on top of the arguments.  What
\* is scheduled yields nothing.
GenCall(g, p, awaited) ==
    LET parts == Kids(g.tree, p)
        callee == parts[1]
        b == Here(g, p)
        direct == /\ RefersTo(g, callee, {"function"})
                  /\ Captured(g, g.refs[callee]) = <<>>
        later == Value(g, callee).s = "async" /\ ~awaited
        args == GenAll(g, Tail(parts))
        v == IF direct THEN args ELSE Gen(args, callee)
        inst == IF direct
                THEN [Instruction(IF later THEN "schedule" ELSE "call", Temps(v, Tail(parts))) EXCEPT
                          !.n = v.fnOf[g.refs[callee]]]
                ELSE [Instruction(IF later THEN "schedulei" ELSE "calli",
                                  Append(Temps(v, Tail(parts)), Temp(v, callee))) EXCEPT
                          !.n = IF ResultOf(Value(g, callee)).k = "void" THEN 0 ELSE 1]
        done == Emit(v, b, inst)
    IN  IF later THEN done ELSE YieldsLatest(done, p)

\* visit_lambda_expression(): only the body that is an expression returns.
GenLambda(g, p, n) ==
    LET body == Append(p, 2)
        params == Kids(g.tree, Append(p, 1))
        f == Len(g.fns) + 1
        made == UserFunction(g, p, Len(params), ResultOf(Value(g, p)).k # "void")
        v == GenAll(Open(made, p, f), Append(params, body))
        b == v.blockOf[p]
        returned == Follows(Emit(v, b, Instruction("return", <<Temp(v, body)>>)), b, 1, v.fns[f].exit)
        done == IF n.kids[2].k = "block" THEN v ELSE returned
    IN  IF done.stopped # "" THEN done ELSE MakeClosure(Close(done), p, f)

---------------------------------------------------------------------------
(***************************************************************************)
(* Assignments.                                                            *)
(***************************************************************************)
SettingCall(name) == IF name = "server_path" THEN "connect" ELSE "td_open"
IsBuiltin(p) == Len(p) = 2 /\ Outer(p) = MainBlock /\ p[2] <= Len(Builtins)

AssignName(before, p) ==
    LET l == Append(p, 1)
        r == Append(p, 2)
        g == GenAll(before, <<l, r>>)
        b == Here(g, p)
        symbol == g.refs[l]
        name == NodeAt(g.tree, l).s
        setting == MachineFunction(g, symbol, SettingCall(name), 1, FALSE)
        id == CaptureId(g, l)
        t == Temp(g, r)
    IN  CASE g.stopped # "" -> g
          [] g.stopped = "" /\ IsBuiltin(symbol) ->
                Emit(setting, b, [Instruction("call", <<t>>) EXCEPT !.n = Len(setting.fns)])
          [] g.stopped = "" /\ ~IsBuiltin(symbol) /\ id # -1 ->
                Emit(g, b, [Instruction("setupvalue", <<t>>) EXCEPT !.n = id])
          [] OTHER -> Emit(g, b, Instruction("store", <<t, Allocated(g, symbol)>>))

AssignMember(before, p) ==
    LET l == Append(p, 1)
        r == Append(p, 2)
        left == Gen(before, l)
        name == Emit(left, Here(left, p), Constant(Text(NodeAt(left.tree, l).s)))
        g == Gen(name, r)
    IN  Emit(g, Here(g, p), Instruction("setelement",
                                <<Temp(g, Append(l, 1)), Latest(name), Temp(g, r)>>))

AssignElement(before, p) ==
    LET g == GenAll(before, <<Append(p, 1), Append(p, 2)>>)
    IN  Emit(g, Here(before, p), Instruction("setelement",
                 Append(Temps(g, Kids(g.tree, Append(p, 1))), Temp(g, Append(p, 2)))))

SliceLoop(v, blocks, t, value, scope) ==
    LET made(i) == Latest(v) + i
        test == blocks[2]
        loop == blocks[3]
        done == EmitAll(v, << <<test, Instruction("phi", <<t[2], made(6)>>)>>,
                              <<test, Operator("lessthan", <<made(1), t[3]>>)>>,
                              <<test, Branch(<<made(2)>>, loop, blocks[4])>>,
                              <<loop, Instruction("setelement", <<t[1], made(1), value>>)>>,
                              <<loop, Constant(Integer(1))>>,
                              <<loop, Operator("add", <<made(1), made(5)>>)>>,
                              <<loop, Branch(<<>>, test, 0)>> >>)
    IN  IF done.stopped # "" THEN Stopped(v, done.stopped)
        ELSE MoveTo(AddBlocks(done, blocks), scope, blocks[4])

\* A slice is assigned by a loop over the indices.
AssignSlice(before, p) ==
    LET l == Append(p, 1)
        r == Append(p, 2)
        g == Gen(before, l)
        t == Temps(g, Kids(g.tree, l))
        blocks == [i \in 1..4 |-> BlockAt(g, i)]
        entered == EmitAll(NewBlocks(g, 4),
                           << <<Here(before, p), Operator("lessthan", <<t[2], t[3]>>)>>,
                              <<Here(before, p), Branch(<<Latest(g) + 1>>, blocks[1], blocks[4])>> >>)
        v == Gen(MoveTo(entered, Scope(g, p), blocks[1]), r)
    IN  SliceLoop(v, blocks, t, Temp(v, r), Scope(g, p))

GenAssignment(g, p, left) ==
    CASE left.k = "access" /\ left.kids = <<>> -> AssignName(g, p)
      [] left.k = "access" /\ left.kids # <<>> -> AssignMember(g, p)
      [] left.k = "element access" /\ Len(left.kids) = 2 -> AssignElement(g, p)
      [] left.k = "element access" /\ Len(left.kids) = 3 -> AssignSlice(g, p)

---------------------------------------------------------------------------
(***************************************************************************)
(* Declarations and statements.                                            *)
(***************************************************************************)
\* The block is fetched before the initializer is generated.
GenVariable(g, p, n) ==
    LET given == n.k = "variable" /\ n.kids[1].k # "none"
        v == IF given THEN Gen(g, Append(p, 1)) ELSE g
        done == Emit(v, Here(g, p), Instruction("alloc", IF given THEN <<Temp(v, Append(p, 1))>> ELSE <<>>))
    IN  IF IsBuiltin(p) THEN g ELSE [done EXCEPT !.alloc = (p :> Latest(done)) @@ @]

MachineOpcode(name) ==
    CASE name = "print" -> "print" [] name = "option" -> "getopt" [] OTHER -> "vmcall"

\* visit_function(): a return is added only to a function that has none.
GenFunction(g, p, n) ==
    LET params == Kids(g.tree, Append(p, 1))
        block == Append(p, 3)
        f == Len(g.fns) + 1
        result == ResultOf(g.typeof[p]).k # "void"
        v == GenAll(Open(UserFunction(g, p, Len(params), result), p, f), Append(params, block))
        end == v.blockOf[block]
        returned == Follows(Emit(v, end, Instruction("return", <<>>)), end, 1, v.fns[f].exit)
        done == IF p \in g.returning THEN v ELSE returned
    IN  CASE IsBuiltin(p)   -> MachineFunction(g, p, MachineOpcode(n.s), Len(params), result)
          [] ~IsBuiltin(p) /\ v.stopped # "" -> v
          [] OTHER -> MakeClosure(Close(done), p, f)

\* visit_block(): the blocks of an if statement have theirs already.
GenBlock(g, p) ==
    LET entered == IF p \in DOMAIN g.blockOf THEN g ELSE MoveTo(g, p, Here(g, p))
    IN  GenAll(entered, Kids(g.tree, p))

GenIf(g, p, n) ==
    LET c == Gen(g, Append(p, 1))
        both == Len(n.kids) = 3
        then == BlockAt(c, 1)
        else == BlockAt(c, 2)
        next == BlockAt(c, IF both THEN 3 ELSE 2)
        test == Emit(NewBlocks(c, IF both THEN 3 ELSE 2), Here(c, p),
                     Branch(<<Temp(c, Append(p, 1))>>, then, IF both THEN else ELSE next))
        Side(s, b, place) ==
            LET v == Gen(MoveTo(AddBlocks(s, <<b>>), place, b), place)
            IN  IF v.stopped # "" THEN v ELSE Follows(v, v.blockOf[place], 1, next)
        yes == Side(test, then, Append(p, 2))
        no  == IF both /\ yes.stopped = "" THEN Side(yes, else, Append(p, 3)) ELSE yes
    IN  CASE test.stopped # "" -> test
          [] test.stopped = "" /\ no.stopped # "" -> no
          [] OTHER -> MoveTo(AddBlocks(no, <<next>>), Scope(g, p), next)

\* visit_return_statement(): what comes after goes to a block nothing leads to.
GenReturn(g, p) ==
    LET v == GenAll(g, Kids(g.tree, p))
        done == Emit(v, Here(g, p), Instruction("return", Temps(v, Kids(g.tree, p))))
        dead == BlockAt(done, 1)
    IN  IF done.stopped # "" THEN done
        ELSE MoveTo(AddBlocks(NewBlocks(Follows(done, Here(done, p), 1, done.fns[Current(done)].exit), 1),
                              <<dead>>), Scope(g, p), dead)

GenAssert(g, p) ==
    LET v == Gen(g, Append(p, 1))
    IN  Emit(v, Here(v, p), Instruction("assert", <<Temp(v, Append(p, 1))>>))

\* What is left out has no visit: types, enums, interfaces, ellipses.
Gen(g, p) ==
    LET n == NodeAt(g.tree, p)
    IN  CASE g.stopped # "" -> g
          [] n.k \in {"array", "object"} -> GenAggregate(g, p, n)
          [] n.k = "access" -> GenAccess(g, p, n)
          [] n.k = "element access" -> GenElement(g, p)
          [] n.k = "binary" -> GenBinary(g, p, n.s)
          [] n.k = "unary"  -> GenUnary(g, p, n.s)
          [] n.k = "conditional" -> GenConditional(g, p)
          [] n.k \in {"call", "awaited call"} -> GenCall(g, p, n.k = "awaited call")
          [] n.k = "lambda" -> GenLambda(g, p, n)
          [] n.k \in {"boolean literal", "double literal", "integer literal", "null literal",
                      "string literal"} -> YieldsLatest(Emit(g, Here(g, p), Constant(Literal(n))), p)
          [] n.k = "assignment" -> GenAssignment(g, p, n.kids[1])
          [] n.k \in {"variable", "parameter"} -> GenVariable(g, p, n)
          [] n.k \in {"function", "async function"} -> GenFunction(g, p, n)
          [] n.k = "block"  -> GenBlock(g, p)
          [] n.k = "if"     -> GenIf(g, p, n)
          [] n.k = "return" -> GenReturn(g, p)
          [] n.k = "assert" -> GenAssert(g, p)
          [] n.k = "expression statement" -> Gen(g, Append(p, 1))
          [] OTHER -> g

StartGenerator(a) ==
    [n \in DOMAIN a \cup {"insts", "bbs", "fns", "stack", "temp", "alloc", "blockOf", "fnOf"} |->
        IF n \in DOMAIN a THEN a[n] ELSE <<>>]

\* lstf_codegenerator_compile()
Generate(a) == Gen(StartGenerator(a), <<>>)
==============================================================================
