------------------------------ MODULE JsonValues ------------------------------
(***************************************************************************)
(* The values of programs, and the JSON nodes that arrays, objects and     *)
(* patterns are (src/src/json/json.c, src/src/vm/lstf-vm-value.h): how a   *)
(* constant becomes nodes, what a value refers to, and equality, which is  *)
(* matching as soon as one of two nodes is a pattern.                      *)
(*                                                                         *)
(* A value is a class k, a number n (of an integer, of a Boolean, of what  *)
(* is kept elsewhere), a text s, and the values of which one is made.  An  *)
(* array or an object that is a pattern has the text "pattern".            *)
(***************************************************************************)
EXTENDS Integers, Sequences, TLC

LOCAL SX == INSTANCE SequencesExt

Datum(k, n, s, kids) == [k |-> k, n |-> n, s |-> s, kids |-> kids]
Null       == Datum("null", 0, "", <<>>)
Truth(b)   == Datum("bool", IF b THEN 1 ELSE 0, "", <<>>)
Integer(n) == Datum("int", n, "", <<>>)
Text(s)    == Datum("string", 0, s, <<>>)
Ellipsis   == Datum("ellipsis", 0, "", <<>>)

Aggregates == {"array", "object"}
JsonKinds  == Aggregates \cup {"pattern", "ellipsis"}
Functions  == {"code", "closure"}

(***************************************************************************)
(* Patterns.  What a pattern is made of makes it one.                      *)
(***************************************************************************)
Element(kid)  == IF kid.k = "member" THEN kid.kids[1] ELSE kid
IsPattern(v)  == v.k \in {"pattern", "ellipsis"} \/ (v.k \in Aggregates /\ v.s = "pattern")
PatternOf(kids) == IF \E i \in DOMAIN kids : IsPattern(Element(kids[i])) THEN "pattern" ELSE ""

\* json_object_set_member() turns a member of an object that is a pattern
\* already into one, by copies of its parts that cannot be made.
Unusable == Datum("assertion", 0, "", <<>>)
Converted(kids, i) == Element(kids[i]).k \in Aggregates /\ Element(kids[i]).kids # <<>>
                      /\ ~IsPattern(Element(kids[i]))
Aggregate(k, own, kids) ==
    IF \/ \E i \in DOMAIN kids : Element(kids[i]).k = "assertion"
       \/ /\ k = "object"
          /\ \E i \in DOMAIN kids :
                Converted(kids, i) /\ "pattern" \in {own, PatternOf(SubSeq(kids, 1, i - 1))}
    THEN Unusable
    ELSE Datum(k, 0, PatternOf(kids), kids)

---------------------------------------------------------------------------
(***************************************************************************)
(* Arrays and objects are shared, not copied.  A constant that is one is   *)
(* parsed anew each time it is loaded; what is printed is what it holds at *)
(* the time.  The arrays and objects directly in a pattern are patterns    *)
(* too, but not those further inside.                                      *)
(***************************************************************************)
RECURSIVE Allocate(_, _), Deep(_, _)
\* A heap that holds a constant, and the value that refers to it.
Allocate(heap, v) ==
    LET Next(done, kid) ==
            LET a == Allocate(done.heap, kid)
            IN  [heap |-> a.heap, kids |-> Append(done.kids, a.value)]
        parts == SX!FoldLeft(Next, [heap |-> heap, kids |-> <<>>], v.kids)
        direct == {i \in DOMAIN v.kids : v.s = "pattern" /\ Element(v.kids[i]).k \in Aggregates}
        places == {Element(parts.kids[i]).n : i \in direct}
        marked == [n \in DOMAIN parts.heap |->
                      IF n \in places THEN [parts.heap[n] EXCEPT !.s = "pattern"] ELSE parts.heap[n]]
        Kid(i) == LET kid == parts.kids[i]
                      patterned == [Element(kid) EXCEPT !.k = "pattern"]
                  IN  IF kid.k = "member" THEN [kid EXCEPT !.kids = <<patterned>>] ELSE patterned
        kids == [i \in DOMAIN parts.kids |-> IF i \in direct THEN Kid(i) ELSE parts.kids[i]]
    IN  CASE v.k \in Aggregates ->
                [heap |-> Append(marked, [v EXCEPT !.kids = kids]),
                 value |-> Datum(IF v.s = "pattern" THEN "pattern" ELSE v.k,
                                 Len(marked) + 1, "", <<>>)]
          [] v.k = "member" -> [heap |-> parts.heap, value |-> [v EXCEPT !.kids = parts.kids]]
          [] OTHER -> [heap |-> heap, value |-> v]

\* The node a value refers to, and all it is made of.
Held(heap, v) == IF v.k \in Aggregates \cup {"pattern"} THEN heap[v.n] ELSE v
Deep(heap, v) ==
    IF v.k \in Functions THEN Datum("function", 0, "", <<>>)
    ELSE LET node == Held(heap, v)
         IN  [node EXCEPT !.s = IF node.k \in Aggregates THEN "" ELSE @,
                          !.kids = [i \in DOMAIN @ |-> Deep(heap, @[i])]]

Member(object, name) == SX!SelectInSeq(object.kids, LAMBDA p : p.s = name)
SetMember(object, name, v) ==
    LET at == Member(object, name)
        member == Datum("member", 0, name, <<v>>)
    IN  [object EXCEPT !.kids = IF at = 0 THEN Append(@, member) ELSE [@ EXCEPT ![at] = member]]

---------------------------------------------------------------------------
(***************************************************************************)
(* json_node_equal_to().  Two arrays of which one is a pattern are read    *)
(* side by side: with an ellipsis on one side the reading may go on on     *)
(* either side or on both.  Of two objects, one that is a pattern lets the *)
(* other have more members.                                                *)
(***************************************************************************)
ArraysMatch(a, b, alike, wild) ==
    LET ends[i \in 1..Len(a.kids), j \in 1..Len(b.kids)] ==
            LET more == i < Len(a.kids)
                others == j < Len(b.kids)
            IN  \/ wild[i, j] /\ more /\ ends[i + 1, j]
                \/ wild[i, j] /\ others /\ ends[i, j + 1]
                \/ alike[i, j] /\ more /\ others /\ ends[i + 1, j + 1]
                \/ alike[i, j] /\ ~more /\ ~others
    IN  ends[1, 1]

ObjectsMatch(a, b, alike) ==
    /\ \A i \in DOMAIN a.kids :
          LET j == Member(b, a.kids[i].s) IN IF j = 0 THEN b.s = "pattern" ELSE alike[i, j]
    /\ a.s # "pattern" => \A j \in DOMAIN b.kids : Member(a, b.kids[j].s) # 0

RECURSIVE Equal(_, _, _)
Equal(heap, v, w) ==
    LET a == Held(heap, v)
        b == Held(heap, w)
        pattern == "pattern" \in {a.s, b.s}
        places == (DOMAIN a.kids) \X (DOMAIN b.kids)
        wild == [p \in places |-> "ellipsis" \in {Element(a.kids[p[1]]).k, Element(b.kids[p[2]]).k}]
        alike == [p \in places |-> wild[p] \/ Equal(heap, Element(a.kids[p[1]]), Element(b.kids[p[2]]))]
    IN  CASE a.k # b.k -> FALSE
          [] a.k = b.k /\ a.k = "array" /\ pattern -> ArraysMatch(a, b, alike, wild)
          [] a.k = b.k /\ a.k = "object" /\ pattern -> ObjectsMatch(a, b, alike)
          [] a.k = b.k /\ a.k = "array" /\ ~pattern ->
                Len(a.kids) = Len(b.kids) /\ \A i \in DOMAIN a.kids : alike[i, i]
          [] a.k = b.k /\ a.k = "object" /\ ~pattern ->
                /\ Len(a.kids) = Len(b.kids)
                /\ \A i \in DOMAIN a.kids : LET j == Member(b, a.kids[i].s) IN j # 0 /\ alike[i, j]
          [] OTHER -> a.n = b.n /\ a.s = b.s

\* Matching reads the first element of an array that has none.
RECURSIVE HasEmptyArray(_, _)
HasEmptyArray(heap, v) ==
    LET node == Held(heap, v)
    IN  \/ node.k = "array" /\ node.kids = <<>>
        \/ \E i \in DOMAIN node.kids : HasEmptyArray(heap, Element(node.kids[i]))
==============================================================================
