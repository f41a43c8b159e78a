--------------------------- MODULE ClosuresProofs ---------------------------
(***************************************************************************)
(* The invariants of module Closures, for stacks, heaps and programs of    *)
(* any size.  The argument is about counting: every reference to an object *)
(* is held by a place of a stack, by a closed up-value, by a frame or by a *)
(* closure, is lost, or is in the hands of the instruction that is being   *)
(* executed; the reference count of the object is how many there are.      *)
(***************************************************************************)
EXTENDS ClosuresInvariant, ListsProofs

----------------------------------------------------------------------------
(* The machine.                                                            *)

\* What the parts of a machine are.
LEMMA MachineIs ==
  ASSUME NEW m \in MachineType
  PROVE  /\ m.values \in Stacks /\ m.frames \in CallStacks
         /\ m.upvalues \in UpvalueHeap /\ m.closures \in ClosureHeap
         /\ m.status \in Statuses /\ m.variable \in Variables
         /\ m.kept \in [Closures -> Nat] /\ m.freed \in SUBSET Coroutines
BY DEF MachineType

\* Machines that differ in one part.
LEMMA WithUpvalues ==
  ASSUME NEW m \in MachineType, NEW new \in UpvalueHeap, NEW n, n = [m EXCEPT !.upvalues = new]
  PROVE  /\ n \in MachineType /\ n.upvalues = new
         /\ n.values = m.values /\ n.frames = m.frames /\ n.closures = m.closures
         /\ n.status = m.status /\ n.variable = m.variable /\ n.kept = m.kept /\ n.freed = m.freed
BY DEF MachineType

\* Machines that differ in their closures.
LEMMA WithClosures ==
  ASSUME NEW m \in MachineType, NEW new \in ClosureHeap, NEW n, n = [m EXCEPT !.closures = new]
  PROVE  /\ n \in MachineType /\ n.closures = new
         /\ n.values = m.values /\ n.frames = m.frames /\ n.upvalues = m.upvalues
         /\ n.status = m.status /\ n.variable = m.variable /\ n.kept = m.kept /\ n.freed = m.freed
BY DEF MachineType

\* Machines that differ in what the variables have.
LEMMA WithVariable ==
  ASSUME NEW m \in MachineType, NEW new \in Variables, NEW n, n = [m EXCEPT !.variable = new]
  PROVE  /\ n \in MachineType /\ n.variable = new
         /\ n.values = m.values /\ n.frames = m.frames /\ n.upvalues = m.upvalues /\ n.closures = m.closures
         /\ n.status = m.status /\ n.kept = m.kept /\ n.freed = m.freed
BY DEF MachineType

\* Everything that may hold something is one of finitely many.
LEMMA HoldersAre ==
  ASSUME NEW m \in MachineType, NEW o
  PROVE  /\ IsFiniteSet(HeldByPlaces(m, o)) /\ IsFiniteSet(HeldByBoxes(m, o))
         /\ IsFiniteSet(HeldByFrames(m, o)) /\ IsFiniteSet(HeldByClosures(m, o))
         /\ Cardinality(HeldByPlaces(m, o)) \in Nat /\ Cardinality(HeldByBoxes(m, o)) \in Nat
         /\ Cardinality(HeldByFrames(m, o)) \in Nat /\ Cardinality(HeldByClosures(m, o)) \in Nat
         /\ Holders(m, o) \in Nat
<1>1. IsFiniteSet(1 .. MaxValues) /\ IsFiniteSet(1 .. MaxFrames) /\ IsFiniteSet(1 .. MaxCaptures)
      /\ IsFiniteSet(0 .. MaxValues)
  BY LimitsAssumption, FS_Interval
<1>2. IsFiniteSet(HeldByPlaces(m, o))
  <2>1. IsFiniteSet(Coroutines \X (1 .. MaxValues)) BY <1>1, ObjectsAssumption, FS_Product
  <2>2. HeldByPlaces(m, o) \in SUBSET (Coroutines \X (1 .. MaxValues)) BY DEF HeldByPlaces
  <2>3. QED BY <2>1, <2>2, FS_Subset
<1>3. IsFiniteSet(HeldByBoxes(m, o))
  <2>1. HeldByBoxes(m, o) \in SUBSET Upvalues BY MachineIs DEF HeldByBoxes, Live, UpvalueHeap
  <2>2. QED BY <2>1, ObjectsAssumption, FS_Subset
<1>4. IsFiniteSet(HeldByFrames(m, o))
  <2> DEFINE A == (Coroutines \X (1 .. MaxFrames)) \X (0 .. MaxValues)
             B == Coroutines \X (1 .. MaxFrames) \X (0 .. MaxValues)
             f == [q \in A |-> <<q[1][1], q[1][2], q[2]>>]
  <2>1. IsFiniteSet(A)
    <3>1. IsFiniteSet(Coroutines \X (1 .. MaxFrames)) BY <1>1, ObjectsAssumption, FS_Product
    <3>2. QED BY <1>1, <3>1, FS_Product
  <2>2. f \in [A -> B] OBVIOUS
  <2>3. \A x, y \in A : f[x] = f[y] => x = y OBVIOUS
  <2>4. \A t \in B : \E x \in A : f[x] = t
    <3>1. ASSUME NEW t \in B PROVE \E x \in A : f[x] = t
      <4>1. <<<<t[1], t[2]>>, t[3]>> \in A /\ f[<<<<t[1], t[2]>>, t[3]>>] = t OBVIOUS
      <4>2. QED BY <4>1
    <3>2. QED BY <3>1
  <2>5. HeldByFrames(m, o) \in SUBSET B BY DEF HeldByFrames
  <2> HIDE DEF A, B, f
  <2>6. IsFiniteSet(B) BY <2>1, <2>2, <2>3, <2>4, SameSize
  <2>7. QED BY <2>5, <2>6, FS_Subset
<1>5. IsFiniteSet(HeldByClosures(m, o))
  <2>1. IsFiniteSet(Closures \X (1 .. MaxCaptures)) BY <1>1, ObjectsAssumption, FS_Product
  <2>2. HeldByClosures(m, o) \in SUBSET (Closures \X (1 .. MaxCaptures))
    BY MachineIs DEF HeldByClosures, Live, ClosureHeap
  <2>3. QED BY <2>1, <2>2, FS_Subset
<1>6. QED BY <1>2, <1>3, <1>4, <1>5, FS_CardinalityType DEF Holders

----------------------------------------------------------------------------
(* What a change in one place does to the number of holders.               *)

\* the values of a stack, and what a closure captured
Vals(m, c) == [i \in DOMAIN m.values[c] |-> m.values[c][i].v]
UpsOf(m, x) == IF m.closures[x] = None THEN <<>> ELSE m.closures[x].upvalues
Boxed(m, u, o) == m.upvalues[u] # None /\ ~m.upvalues[u].open /\ m.upvalues[u].v = o
SlotsOf(m, c, S, o) == {q \in HeldByFrames(m, o) : q[1] = c /\ q[2] \in S}

\* The values of a stack are a sequence.
LEMMA ValsAre ==
  ASSUME NEW m \in MachineType, NEW c \in Coroutines
  PROVE  /\ m.values[c] \in Seq(Slot) /\ Len(m.values[c]) \in Nat
         /\ DOMAIN m.values[c] = 1 .. Len(m.values[c])
         /\ Vals(m, c) \in Seq(Value) /\ Len(Vals(m, c)) = Len(m.values[c])
         /\ \A i \in 1 .. Len(m.values[c]) :
               m.values[c][i] \in Slot /\ m.values[c][i].v \in Value /\ Vals(m, c)[i] = m.values[c][i].v
<1>1. m.values[c] \in Seq(Slot) BY MachineIs DEF Stacks
<1>2. /\ Len(m.values[c]) \in Nat /\ DOMAIN m.values[c] = 1 .. Len(m.values[c])
      /\ \A i \in 1 .. Len(m.values[c]) : m.values[c][i] \in Slot
  BY <1>1
<1>3. \A i \in 1 .. Len(m.values[c]) : m.values[c][i].v \in Value BY <1>2 DEF Slot
<1>4. Vals(m, c) \in [1 .. Len(m.values[c]) -> Value] BY <1>2, <1>3 DEF Vals
<1>5. QED BY <1>1, <1>2, <1>3, <1>4 DEF Vals

\* Stacks that differ in one coroutine.
LEMMA OneStack ==
  ASSUME NEW m, NEW n, Typed(m), Typed(n), NEW c \in Coroutines,
         \A d \in Coroutines \ {c} : Vals(n, d) = Vals(m, d),
         NEW o
  PROVE  Cardinality(HeldByPlaces(n, o)) + Occurrences(Vals(m, c), o)
           = Cardinality(HeldByPlaces(m, o)) + Occurrences(Vals(n, c), o)
<1> DEFINE Others(k) == {q \in HeldByPlaces(k, o) : q[1] # c}
           Row(k) == {c} \X Places(Vals(k, c), {o})
<1>1. ASSUME NEW k, Typed(k)
      PROVE  /\ HeldByPlaces(k, o) = Others(k) \cup Row(k)
             /\ Others(k) \cap Row(k) = {}
             /\ IsFiniteSet(Others(k)) /\ IsFiniteSet(Row(k))
             /\ Cardinality(Row(k)) = Occurrences(Vals(k, c), o)
  <2>0. k \in MachineType /\ Len(k.values[c]) < MaxValues /\ MaxValues \in Nat
    BY <1>1, LimitsAssumption DEF Typed, Bounded
  <2>1. Places(Vals(k, c), {o}) = {i \in 1 .. Len(k.values[c]) : k.values[c][i].v = o}
    BY <2>0, ValsAre DEF Places
  <2>2. HeldByPlaces(k, o) = Others(k) \cup Row(k)
    <3>1. ASSUME NEW q \in Row(k) PROVE q \in HeldByPlaces(k, o)
      <4>0. q \in {c} \X Places(Vals(k, c), {o}) OBVIOUS
      <4>1. q = <<c, q[2]>> /\ q[1] = c /\ q[2] \in Places(Vals(k, c), {o}) BY <4>0
      <4> HIDE DEF Row
      <4>2. q[2] \in 1 .. Len(k.values[c]) /\ k.values[c][q[2]].v = o BY <2>1, <4>1
      <4>3. q[2] \in 1 .. MaxValues /\ q[2] \in DOMAIN k.values[c] BY <2>0, <4>2, ValsAre
      <4>4. QED BY <4>1, <4>2, <4>3 DEF HeldByPlaces
    <3>2. ASSUME NEW q \in HeldByPlaces(k, o), q[1] = c PROVE q \in Row(k)
      <4>1. q = <<c, q[2]>> /\ q[2] \in DOMAIN k.values[c] /\ k.values[c][q[2]].v = o
        BY <3>2 DEF HeldByPlaces
      <4>2. q[2] \in Places(Vals(k, c), {o}) BY <2>0, <2>1, <4>1, ValsAre
      <4>3. QED BY <4>1, <4>2
    <3>3. QED BY <3>1, <3>2
  <2>3. IsFiniteSet(Places(Vals(k, c), {o})) BY <2>0, ValsAre, PlacesFinite
  <2>4. IsFiniteSet(Others(k))
    <3>1. Others(k) \in SUBSET HeldByPlaces(k, o) OBVIOUS
    <3>2. QED BY <2>0, <3>1, HoldersAre, FS_Subset
  <2>5. Others(k) \cap Row(k) = {} OBVIOUS
  <2>6. QED BY <2>2, <2>3, <2>4, <2>5, RowSize DEF Occurrences
<1>2. Others(n) = Others(m)
  <2>1. \A d \in Coroutines \ {c} : DOMAIN n.values[d] = DOMAIN m.values[d]
                                    /\ \A i \in DOMAIN m.values[d] : n.values[d][i].v = m.values[d][i].v
    <3>1. ASSUME NEW d \in Coroutines \ {c}
          PROVE  DOMAIN n.values[d] = DOMAIN m.values[d]
                 /\ \A i \in DOMAIN m.values[d] : n.values[d][i].v = m.values[d][i].v
      <4>1. Vals(n, d) = Vals(m, d) OBVIOUS
      <4>2. DOMAIN Vals(n, d) = DOMAIN n.values[d] /\ DOMAIN Vals(m, d) = DOMAIN m.values[d]
        BY DEF Vals
      <4>3. QED BY <4>1, <4>2 DEF Vals
    <3>2. QED BY <3>1
  <2>2. QED BY <2>1 DEF HeldByPlaces
<1> HIDE DEF Others, Row
<1>3. /\ Cardinality(HeldByPlaces(m, o)) = Cardinality(Others(m)) + Occurrences(Vals(m, c), o)
      /\ Cardinality(HeldByPlaces(n, o)) = Cardinality(Others(n)) + Occurrences(Vals(n, c), o)
      /\ Cardinality(Others(m)) \in Nat
  BY <1>1, DisjointSize
<1>4. Occurrences(Vals(m, c), o) \in Nat /\ Occurrences(Vals(n, c), o) \in Nat
  BY ValsAre, OccurrencesIs DEF Typed
<1>5. QED BY <1>2, <1>3, <1>4

\* The same stacks.
LEMMA SameStacks ==
  ASSUME NEW m, NEW n, \A d \in Coroutines : Vals(n, d) = Vals(m, d), NEW o
  PROVE  HeldByPlaces(n, o) = HeldByPlaces(m, o)
<1>1. \A d \in Coroutines : DOMAIN n.values[d] = DOMAIN m.values[d]
                            /\ \A i \in DOMAIN m.values[d] : n.values[d][i].v = m.values[d][i].v
  <2>1. ASSUME NEW d \in Coroutines
        PROVE  DOMAIN n.values[d] = DOMAIN m.values[d]
               /\ \A i \in DOMAIN m.values[d] : n.values[d][i].v = m.values[d][i].v
    <3>1. Vals(n, d) = Vals(m, d) OBVIOUS
    <3>2. DOMAIN Vals(n, d) = DOMAIN n.values[d] /\ DOMAIN Vals(m, d) = DOMAIN m.values[d]
      BY DEF Vals
    <3>3. QED BY <3>1, <3>2 DEF Vals
  <2>2. QED BY <2>1
<1>2. QED BY <1>1 DEF HeldByPlaces

\* What a closure captured is a sequence, which no object without one is held by.
LEMMA UpsAre ==
  ASSUME NEW m \in MachineType, NEW x \in Closures
  PROVE  UpsOf(m, x) \in Seq(Upvalues)
<1>1. m.closures[x] \in Closure \cup {None} BY MachineIs DEF ClosureHeap
<1>2. QED BY <1>1 DEF UpsOf, Closure

\* Heaps that differ in one closure.
LEMMA OneClosure ==
  ASSUME NEW m, NEW n, Typed(m), Typed(n), NEW x \in Closures,
         \A y \in Closures \ {x} : UpsOf(n, y) = UpsOf(m, y),
         NEW o
  PROVE  Cardinality(HeldByClosures(n, o)) + Occurrences(UpsOf(m, x), o)
           = Cardinality(HeldByClosures(m, o)) + Occurrences(UpsOf(n, x), o)
<1> DEFINE Others(k) == {q \in HeldByClosures(k, o) : q[1] # x}
           Row(k) == {x} \X Places(UpsOf(k, x), {o})
<1>0. ASSUME NEW k, Typed(k)
      PROVE  HeldByClosures(k, o)
               = {q \in Closures \X (1 .. MaxCaptures) : q[2] \in Places(UpsOf(k, q[1]), {o})}
  <2>1. k \in MachineType /\ k.closures \in ClosureHeap /\ DOMAIN k.closures = Closures
        /\ \A y \in Live(k.closures) : Len(k.closures[y].upvalues) <= MaxCaptures
    BY <1>0, MachineIs DEF Typed, Bounded, ClosureHeap
  <2>2. ASSUME NEW y \in Closures, NEW i
        PROVE  i \in Places(UpsOf(k, y), {o})
                 <=> y \in Live(k.closures) /\ i \in DOMAIN k.closures[y].upvalues /\ k.closures[y].upvalues[i] = o
    <3>1. CASE k.closures[y] = None BY <2>1, <3>1 DEF UpsOf, Places, Live, Free
    <3>2. CASE k.closures[y] # None
      <4>1. y \in Live(k.closures) /\ UpsOf(k, y) = k.closures[y].upvalues
        BY <2>1, <3>2 DEF UpsOf, Live, Free
      <4>2. UpsOf(k, y) \in Seq(Upvalues) BY <2>1, UpsAre
      <4>3. QED BY <4>1, <4>2 DEF Places
    <3>3. QED BY <3>1, <3>2
  <2>3. Live(k.closures) \subseteq Closures BY <2>1 DEF Live
  <2>4. QED BY <2>2, <2>3 DEF HeldByClosures
<1>1. ASSUME NEW k, Typed(k)
      PROVE  /\ HeldByClosures(k, o) = Others(k) \cup Row(k)
             /\ Others(k) \cap Row(k) = {}
             /\ IsFiniteSet(Others(k)) /\ IsFiniteSet(Row(k))
             /\ Cardinality(Row(k)) = Occurrences(UpsOf(k, x), o)
  <2>0. k \in MachineType /\ UpsOf(k, x) \in Seq(Upvalues) /\ Len(UpsOf(k, x)) <= MaxCaptures /\ MaxCaptures \in Nat
    <3>1. k \in MachineType /\ MaxCaptures \in Nat BY <1>1, LimitsAssumption DEF Typed
    <3>2. CASE k.closures[x] = None
      <4>1. UpsOf(k, x) = <<>> BY <3>2 DEF UpsOf
      <4>2. QED BY <3>1, <4>1
    <3>3. CASE k.closures[x] # None
      <4>1. x \in Live(k.closures) /\ UpsOf(k, x) = k.closures[x].upvalues
        BY <3>1, <3>3, MachineIs DEF UpsOf, Live, Free, ClosureHeap
      <4>2. QED BY <1>1, <3>1, <4>1, UpsAre DEF Typed, Bounded
    <3>4. QED BY <3>2, <3>3
  <2>1. \A i \in Places(UpsOf(k, x), {o}) : i \in 1 .. MaxCaptures BY <2>0 DEF Places
  <2>2. HeldByClosures(k, o) = Others(k) \cup Row(k)
    <3>1. ASSUME NEW q \in Row(k) PROVE q \in HeldByClosures(k, o)
      <4>0. q \in {x} \X Places(UpsOf(k, x), {o}) OBVIOUS
      <4>1. q = <<x, q[2]>> /\ q[1] = x /\ q[2] \in Places(UpsOf(k, x), {o}) BY <4>0
      <4> HIDE DEF Row
      <4>2. q[2] \in 1 .. MaxCaptures BY <2>1, <4>1
      <4>3. QED BY <1>0, <1>1, <4>1, <4>2
    <3>2. ASSUME NEW q \in HeldByClosures(k, o), q[1] = x PROVE q \in Row(k) BY <1>0, <1>1, <3>2
    <3>3. QED BY <3>1, <3>2
  <2>3. IsFiniteSet(Places(UpsOf(k, x), {o})) BY <2>0, PlacesFinite
  <2>4. IsFiniteSet(Others(k))
    <3>1. Others(k) \in SUBSET HeldByClosures(k, o) OBVIOUS
    <3>2. QED BY <2>0, <3>1, HoldersAre, FS_Subset
  <2>5. Others(k) \cap Row(k) = {} OBVIOUS
  <2>6. QED BY <2>2, <2>3, <2>4, <2>5, RowSize DEF Occurrences
<1>2. Others(n) = Others(m) BY <1>0
<1> HIDE DEF Others, Row
<1>3. /\ Cardinality(HeldByClosures(m, o)) = Cardinality(Others(m)) + Occurrences(UpsOf(m, x), o)
      /\ Cardinality(HeldByClosures(n, o)) = Cardinality(Others(n)) + Occurrences(UpsOf(n, x), o)
      /\ Cardinality(Others(m)) \in Nat
  BY <1>1, DisjointSize
<1>4. Occurrences(UpsOf(m, x), o) \in Nat /\ Occurrences(UpsOf(n, x), o) \in Nat
  BY UpsAre, OccurrencesIs DEF Typed
<1>5. QED BY <1>2, <1>3, <1>4

\* The same closures.
LEMMA SameClosures ==
  ASSUME NEW m \in MachineType, NEW n \in MachineType,
         \A x \in Closures : (n.closures[x] = None <=> m.closures[x] = None) /\ UpsOf(n, x) = UpsOf(m, x),
         NEW o
  PROVE  HeldByClosures(n, o) = HeldByClosures(m, o)
<1>1. DOMAIN m.closures = Closures /\ DOMAIN n.closures = Closures BY MachineIs DEF ClosureHeap
<1>2. Live(n.closures) = Live(m.closures) /\ Live(m.closures) \subseteq Closures
  BY <1>1 DEF Live, Free
<1>3. \A x \in Live(m.closures) : n.closures[x].upvalues = m.closures[x].upvalues
  BY <1>1, <1>2 DEF Live, Free, UpsOf
<1>4. QED BY <1>2, <1>3 DEF HeldByClosures

\* The closed up-values that have o.
LEMMA BoxesAre ==
  ASSUME NEW m \in MachineType, NEW o
  PROVE  HeldByBoxes(m, o) = {u \in Upvalues : Boxed(m, u, o)}
<1>1. DOMAIN m.upvalues = Upvalues BY MachineIs DEF UpvalueHeap
<1>2. QED BY <1>1 DEF HeldByBoxes, Boxed, Live, Free

\* Heaps that differ in one up-value.
LEMMA OneBox ==
  ASSUME NEW m \in MachineType, NEW n \in MachineType, NEW u \in Upvalues, NEW o,
         \A w \in Upvalues \ {u} : Boxed(n, w, o) <=> Boxed(m, w, o)
  PROVE  Cardinality(HeldByBoxes(n, o)) + (IF Boxed(m, u, o) THEN 1 ELSE 0)
           = Cardinality(HeldByBoxes(m, o)) + (IF Boxed(n, u, o) THEN 1 ELSE 0)
<1> DEFINE Others == {w \in Upvalues \ {u} : Boxed(m, w, o)}
<1>1. IsFiniteSet(Others) /\ Cardinality(Others) \in Nat
  <2>1. Others \in SUBSET Upvalues OBVIOUS
  <2>2. QED BY <2>1, ObjectsAssumption, FS_Subset, FS_CardinalityType
<1>2. /\ IsFiniteSet(Others \cup {u})
      /\ Cardinality(Others \cup {u}) = Cardinality(Others) + 1
  <2>1. u \notin Others OBVIOUS
  <2>2. QED BY <1>1, <2>1, FS_AddElement
<1>3. ASSUME NEW k \in {m, n}
      PROVE  HeldByBoxes(k, o) = IF Boxed(k, u, o) THEN Others \cup {u} ELSE Others
  BY BoxesAre
<1> HIDE DEF Others
<1>4. ASSUME NEW k \in {m, n}
      PROVE  Cardinality(HeldByBoxes(k, o)) = Cardinality(Others) + (IF Boxed(k, u, o) THEN 1 ELSE 0)
  <2>1. CASE Boxed(k, u, o) BY <1>1, <1>2, <1>3, <2>1
  <2>2. CASE ~Boxed(k, u, o) BY <1>1, <1>3, <2>2
  <2>3. QED BY <2>1, <2>2
<1>5. /\ Cardinality(HeldByBoxes(m, o)) = Cardinality(Others) + (IF Boxed(m, u, o) THEN 1 ELSE 0)
      /\ Cardinality(HeldByBoxes(n, o)) = Cardinality(Others) + (IF Boxed(n, u, o) THEN 1 ELSE 0)
  BY <1>4
<1>6. QED BY <1>1, <1>5

\* The same up-values.
LEMMA SameBoxes ==
  ASSUME NEW m \in MachineType, NEW n \in MachineType, NEW o,
         \A w \in Upvalues : Boxed(n, w, o) <=> Boxed(m, w, o)
  PROVE  HeldByBoxes(n, o) = HeldByBoxes(m, o)
BY BoxesAre

----------------------------------------------------------------------------
(* Frames and what they hold.                                              *)

\* The frames of a coroutine are a sequence.
LEMMA FramesAre ==
  ASSUME NEW m \in MachineType, NEW c \in Coroutines
  PROVE  /\ m.frames[c] \in Seq(FrameType) /\ Len(m.frames[c]) \in Nat
         /\ DOMAIN m.frames[c] = 1 .. Len(m.frames[c])
         /\ \A i \in 1 .. Len(m.frames[c]) :
               /\ m.frames[c][i] \in FrameType
               /\ Holds(m.frames[c][i]) \subseteq 0 .. MaxValues
               /\ \A p \in Holds(m.frames[c][i]) :
                     HeldAt(m.frames[c][i], p) \in Closures \cup Upvalues \cup {None}
<1>1. m.frames[c] \in Seq(FrameType) BY MachineIs DEF CallStacks
<1>2. /\ Len(m.frames[c]) \in Nat /\ DOMAIN m.frames[c] = 1 .. Len(m.frames[c])
      /\ \A i \in 1 .. Len(m.frames[c]) : m.frames[c][i] \in FrameType
  BY <1>1
<1>3. ASSUME NEW f \in FrameType
      PROVE  /\ Holds(f) \subseteq 0 .. MaxValues
             /\ \A p \in Holds(f) : HeldAt(f, p) \in Closures \cup Upvalues \cup {None}
  <2>1. PICK S \in SUBSET (1 .. MaxValues) : f.tracked \in [S -> Upvalues] BY DEF FrameType
  <2>2. f.closure \in Closures \cup {None} /\ DOMAIN f.tracked = S /\ \A p \in S : f.tracked[p] \in Upvalues
    BY <2>1 DEF FrameType
  <2>3. S \subseteq 0 .. MaxValues /\ 0 \in 0 .. MaxValues /\ 0 \notin S BY LimitsAssumption
  <2>4. QED BY <2>2, <2>3 DEF Holds, HeldAt
<1>4. QED BY <1>1, <1>2, <1>3

\* The references of some frames of a coroutine, as a list and as a set.
LEMMA OfFramesAre ==
  ASSUME NEW m, Typed(m), NEW c \in Coroutines, NEW S, S \subseteq DOMAIN m.frames[c], NEW o
  PROVE  /\ OfFrames(m, c, S) \in Seq(Closures \cup Upvalues \cup {None})
         /\ Occurrences(OfFrames(m, c, S), o) = Cardinality(SlotsOf(m, c, S, o))
<1> DEFINE T == Closures \cup Upvalues \cup {None}
           H == UNION {{i} \X Holds(m.frames[c][i]) : i \in S}
           held == SetToSeq(H)
           s == OfFrames(m, c, S)
           P == Places(s, {o})
           R == SlotsOf(m, c, S, o)
           f == [j \in P |-> <<c, held[j][1], held[j][2]>>]
           L == Cardinality(H)
<1>1. /\ m \in MachineType /\ MaxValues \in Nat /\ MaxFrames \in Nat
      /\ Len(m.frames[c]) \in Nat /\ DOMAIN m.frames[c] = 1 .. Len(m.frames[c])
      /\ Len(m.frames[c]) < MaxFrames
  BY FramesAre, LimitsAssumption DEF Typed, Bounded
<1>2. \A i \in S : /\ i \in 1 .. MaxFrames /\ Holds(m.frames[c][i]) \subseteq 0 .. MaxValues
                   /\ \A p \in Holds(m.frames[c][i]) : HeldAt(m.frames[c][i], p) \in T
  BY <1>1, FramesAre
<1>3. \A q : q \in H <=> \E i \in S : \E p \in Holds(m.frames[c][i]) : q = <<i, p>> OBVIOUS
<1>a. s = [j \in DOMAIN held |-> HeldAt(m.frames[c][held[j][1]], held[j][2])] BY DEF OfFrames
<1> HIDE DEF H, s
<1>4. IsFiniteSet(H)
  <2>1. H \in SUBSET ((1 .. MaxFrames) \X (0 .. MaxValues)) BY <1>2, <1>3
  <2>2. IsFiniteSet(1 .. MaxFrames) /\ IsFiniteSet(0 .. MaxValues) BY <1>1, FS_Interval
  <2>3. IsFiniteSet((1 .. MaxFrames) \X (0 .. MaxValues)) BY <2>2, FS_Product
  <2>4. QED BY <2>1, <2>3, FS_Subset
<1>5. /\ L \in Nat /\ held \in [1 .. L -> H]
      /\ \A i, j \in 1 .. L : held[i] = held[j] => i = j
      /\ \A x \in H : \E i \in 1 .. L : held[i] = x
  BY <1>4, SetToSeqIs
<1> HIDE DEF held, L
<1>6. \A j \in 1 .. L : /\ held[j][1] \in S /\ held[j][2] \in Holds(m.frames[c][held[j][1]])
                        /\ held[j] = <<held[j][1], held[j][2]>>
                        /\ s[j] = HeldAt(m.frames[c][held[j][1]], held[j][2])
                        /\ s[j] \in T
  BY <1>2, <1>3, <1>5, <1>a
<1>7. s \in Seq(T) /\ Len(s) = L
  <2>1. s \in [1 .. L -> T] BY <1>5, <1>6, <1>a
  <2>2. QED BY <1>5, <2>1
<1>8. P = {j \in 1 .. L : s[j] = o} /\ IsFiniteSet(P)
  <2>1. P = {j \in 1 .. L : s[j] = o} BY <1>7 DEF Places
  <2>2. IsFiniteSet(P) BY <1>7, PlacesFinite
  <2>3. QED BY <2>1, <2>2
<1> HIDE DEF P
<1>9. f \in [P -> R]
  <2>1. ASSUME NEW j \in P PROVE f[j] \in R
    <3> DEFINE i == held[j][1]
               p == held[j][2]
    <3>1. /\ i \in S /\ p \in Holds(m.frames[c][i]) /\ HeldAt(m.frames[c][i], p) = o
          /\ f[j] = <<c, i, p>>
      BY <1>6, <1>8
    <3> HIDE DEF i, p
    <3>2. i \in 1 .. MaxFrames /\ p \in 0 .. MaxValues /\ i \in DOMAIN m.frames[c] BY <1>2, <3>1
    <3>3. <<c, i, p>> \in HeldByFrames(m, o) BY <3>1, <3>2 DEF HeldByFrames
    <3>4. QED BY <3>1, <3>3 DEF SlotsOf
  <2>2. QED BY <2>1
<1>10. \A x, y \in P : f[x] = f[y] => x = y
  <2>1. ASSUME NEW x \in P, NEW y \in P, f[x] = f[y] PROVE x = y
    <3>1. x \in 1 .. L /\ y \in 1 .. L BY <1>8
    <3>2. held[x][1] = held[y][1] /\ held[x][2] = held[y][2] BY <2>1
    <3>3. held[x] = held[y] BY <1>6, <3>1, <3>2
    <3>4. QED BY <1>5, <3>1, <3>3
  <2>2. QED BY <2>1
<1>11. \A t \in R : \E x \in P : f[x] = t
  <2>1. ASSUME NEW t \in R PROVE \E x \in P : f[x] = t
    <3>1. /\ t = <<c, t[2], t[3]>> /\ t[2] \in S /\ t[3] \in Holds(m.frames[c][t[2]])
          /\ HeldAt(m.frames[c][t[2]], t[3]) = o
      BY DEF SlotsOf, HeldByFrames
    <3>2. <<t[2], t[3]>> \in H BY <1>3, <3>1
    <3>3. PICK j \in 1 .. L : held[j] = <<t[2], t[3]>> BY <1>5, <3>2
    <3>4. j \in P /\ f[j] = t BY <1>6, <1>8, <3>1, <3>3
    <3>5. QED BY <3>4
  <2>2. QED BY <2>1
<1> HIDE DEF R, f
<1>12. Cardinality(R) = Cardinality(P)
  <2>1. IsFiniteSet(P) BY <1>8
  <2>2. QED BY <2>1, <1>9, <1>10, <1>11, SameSize
<1>13. QED BY <1>7, <1>12 DEF R, T, P, s, Occurrences

\* Stacks of frames that differ in the frames S of c.
LEMMA OneFrames ==
  ASSUME NEW m \in MachineType, NEW n \in MachineType, NEW c \in Coroutines, NEW S, NEW o,
         \A d \in Coroutines, i \in 1 .. MaxFrames : d # c \/ i \notin S =>
            /\ i \in DOMAIN n.frames[d] <=> i \in DOMAIN m.frames[d]
            /\ i \in DOMAIN m.frames[d] =>
                  /\ n.frames[d][i].closure = m.frames[d][i].closure
                  /\ n.frames[d][i].tracked = m.frames[d][i].tracked
  PROVE  /\ Cardinality(HeldByFrames(n, o)) + Cardinality(SlotsOf(m, c, S, o))
              = Cardinality(HeldByFrames(m, o)) + Cardinality(SlotsOf(n, c, S, o))
         /\ Cardinality(SlotsOf(m, c, S, o)) \in Nat
         /\ Cardinality(SlotsOf(n, c, S, o)) \in Nat
<1> DEFINE Others(k) == {q \in HeldByFrames(k, o) : ~(q[1] = c /\ q[2] \in S)}
<1>1. ASSUME NEW k \in MachineType
      PROVE  /\ HeldByFrames(k, o) = Others(k) \cup SlotsOf(k, c, S, o)
             /\ Others(k) \cap SlotsOf(k, c, S, o) = {}
             /\ IsFiniteSet(Others(k)) /\ IsFiniteSet(SlotsOf(k, c, S, o))
  <2>1. Others(k) \in SUBSET HeldByFrames(k, o) /\ SlotsOf(k, c, S, o) \in SUBSET HeldByFrames(k, o)
    BY DEF SlotsOf
  <2>2. IsFiniteSet(HeldByFrames(k, o)) BY HoldersAre
  <2>3. IsFiniteSet(Others(k)) /\ IsFiniteSet(SlotsOf(k, c, S, o)) BY <2>1, <2>2, FS_Subset
  <2>4. QED BY <2>3 DEF SlotsOf
<1>2. Others(n) = Others(m) BY DEF HeldByFrames, Holds, HeldAt
<1> HIDE DEF Others
<1>3. /\ Cardinality(HeldByFrames(m, o)) = Cardinality(Others(m)) + Cardinality(SlotsOf(m, c, S, o))
      /\ Cardinality(HeldByFrames(n, o)) = Cardinality(Others(n)) + Cardinality(SlotsOf(n, c, S, o))
      /\ Cardinality(Others(m)) \in Nat /\ Cardinality(SlotsOf(m, c, S, o)) \in Nat
      /\ Cardinality(SlotsOf(n, c, S, o)) \in Nat
  BY <1>1, DisjointSize
<1>4. QED BY <1>2, <1>3

\* The same frames.
LEMMA SameFrames ==
  ASSUME NEW m, NEW n, n.frames = m.frames, NEW o
  PROVE  HeldByFrames(n, o) = HeldByFrames(m, o)
BY DEF HeldByFrames

----------------------------------------------------------------------------
(* Counting references.                                                    *)

\* Heaps that differ in the counts of references only.
SameUpvalue(m, n, u) ==
    /\ n.upvalues[u] = None <=> m.upvalues[u] = None
    /\ m.upvalues[u] # None =>
          /\ n.upvalues[u].open = m.upvalues[u].open
          /\ m.upvalues[u].open => n.upvalues[u].cr = m.upvalues[u].cr /\ n.upvalues[u].at = m.upvalues[u].at
          /\ ~m.upvalues[u].open => n.upvalues[u].v = m.upvalues[u].v
SameClosure(m, n, x) ==
    /\ n.closures[x] = None <=> m.closures[x] = None
    /\ UpsOf(n, x) = UpsOf(m, x)
SameHeap(m, n) ==
    (\A u \in Upvalues : SameUpvalue(m, n, u)) /\ (\A x \in Closures : SameClosure(m, n, x))

\* An up-value is nothing, open or closed.
LEMMA UpvalueIs ==
  ASSUME NEW m \in MachineType, NEW u \in Upvalues, m.upvalues[u] # None
  PROVE  /\ m.upvalues[u].refs \in Nat /\ m.upvalues[u].open \in BOOLEAN
         /\ m.upvalues[u].open => /\ m.upvalues[u] \in OpenUpvalue
                                  /\ m.upvalues[u].cr \in Coroutines /\ m.upvalues[u].at \in Nat
         /\ ~m.upvalues[u].open => m.upvalues[u] \in BoxedValue /\ m.upvalues[u].v \in Value
<1>1. m.upvalues[u] \in OpenUpvalue \/ m.upvalues[u] \in BoxedValue BY MachineIs DEF UpvalueHeap
<1>2. CASE m.upvalues[u] \in OpenUpvalue BY <1>2 DEF OpenUpvalue
<1>3. CASE m.upvalues[u] \in BoxedValue BY <1>3 DEF BoxedValue
<1>4. QED BY <1>1, <1>2, <1>3

\* What Counted is about, for the two kinds of objects.
LEMMA RefsAre ==
  ASSUME NEW m \in MachineType, NEW o \in Objects
  PROVE  /\ Refs(m, o) \in Nat /\ Keeps(m, o) \in Nat /\ Holders(m, o) \in Nat
         /\ Heap(m, o)[o] = None => Refs(m, o) = 0
         /\ o \in Closures => /\ o \notin Upvalues /\ Heap(m, o)[o] = m.closures[o]
                              /\ m.closures[o] # None => Refs(m, o) = m.closures[o].refs
         /\ o \in Upvalues => /\ o \notin Closures /\ Heap(m, o)[o] = m.upvalues[o] /\ Keeps(m, o) = 0
                              /\ m.upvalues[o] # None => Refs(m, o) = m.upvalues[o].refs
<1>1. CASE o \in Closures
  <2>1. o \notin Upvalues BY <1>1, ObjectsAssumption
  <2>2. m.closures[o] \in Closure \cup {None} /\ m.kept[o] \in Nat
    BY <1>1, MachineIs DEF ClosureHeap
  <2>3. QED BY <1>1, <2>1, <2>2, HoldersAre DEF Refs, Heap, Keeps, Closure
<1>2. CASE o \in Upvalues
  <2>1. o \notin Closures BY <1>2, ObjectsAssumption
  <2>2. m.upvalues[o] # None => m.upvalues[o].refs \in Nat BY <1>2, UpvalueIs
  <2>3. QED BY <1>2, <2>1, <2>2, HoldersAre DEF Refs, Heap, Keeps
<1>3. QED BY <1>1, <1>2 DEF Objects

\* What is in hand, or held somewhere, is allocated.
LEMMA CountedIsLive ==
  ASSUME NEW m \in MachineType, NEW h \in Hands, Counted(m, h), NEW o \in Objects, Holders(m, o) + h[o] >= 1
  PROVE  /\ Heap(m, o)[o] # None
         /\ o \in Closures => m.closures[o] # None
         /\ o \in Upvalues => m.upvalues[o] # None
<1>1. Refs(m, o) = Holders(m, o) + Keeps(m, o) + h[o] /\ h[o] \in Int BY DEF Counted, Hands
<1>2. Refs(m, o) \in Nat /\ Keeps(m, o) \in Nat /\ Holders(m, o) \in Nat BY RefsAre
<1>3. Refs(m, o) >= 1 BY <1>1, <1>2
<1>4. QED BY <1>3, RefsAre

\* The same heap but for counts: the same holders in the heap.
LEMMA SameHeapHolders ==
  ASSUME NEW m \in MachineType, NEW n \in MachineType, SameHeap(m, n), NEW o
  PROVE  HeldByBoxes(n, o) = HeldByBoxes(m, o) /\ HeldByClosures(n, o) = HeldByClosures(m, o)
<1>1. \A w \in Upvalues : Boxed(n, w, o) <=> Boxed(m, w, o) BY DEF SameHeap, SameUpvalue, Boxed
<1>2. HeldByBoxes(n, o) = HeldByBoxes(m, o) BY <1>1, SameBoxes
<1>3. \A x \in Closures : (n.closures[x] = None <=> m.closures[x] = None) /\ UpsOf(n, x) = UpsOf(m, x)
  BY DEF SameHeap, SameClosure
<1>4. QED BY <1>2, <1>3, SameClosures

\* ... and the same stacks: the same in every other respect.
LEMMA SameHeapKeeps ==
  ASSUME NEW m, Typed(m), NEW n \in MachineType, SameHeap(m, n),
         n.values = m.values, n.frames = m.frames, n.variable = m.variable
  PROVE  /\ Typed(n)
         /\ Stacked(m) => Stacked(n)
         /\ Tracking(m) => Tracking(n)
         /\ Valued(m) => Valued(n)
<1>0. m \in MachineType /\ Bounded(m) BY DEF Typed
<1>1. DOMAIN m.closures = Closures /\ DOMAIN n.closures = Closures
      /\ DOMAIN m.upvalues = Upvalues /\ DOMAIN n.upvalues = Upvalues
  BY <1>0, MachineIs DEF ClosureHeap, UpvalueHeap
<1>2. Bounded(n)
  <2>1. \A x \in Live(n.closures) : Len(n.closures[x].upvalues) <= MaxCaptures
    <3>1. ASSUME NEW x \in Live(n.closures) PROVE Len(n.closures[x].upvalues) <= MaxCaptures
      <4>1. x \in Closures /\ n.closures[x] # None BY <1>1 DEF Live, Free
      <4>2. m.closures[x] # None /\ UpsOf(n, x) = UpsOf(m, x) BY <4>1 DEF SameHeap, SameClosure
      <4>3. x \in Live(m.closures) /\ n.closures[x].upvalues = m.closures[x].upvalues
        BY <1>1, <4>1, <4>2 DEF Live, Free, UpsOf
      <4>4. QED BY <1>0, <4>3 DEF Bounded
    <3>2. QED BY <3>1
  <2>2. QED BY <1>0, <2>1 DEF Bounded
<1>3. Stacked(m) => Stacked(n) BY DEF Stacked
<1>4. \A u \in Upvalues : \A c, p : Aliases(n, u, c, p) <=> Aliases(m, u, c, p)
  BY DEF SameHeap, SameUpvalue, Aliases
<1>5. \A c, p, u : Tracks(n, c, p, u) <=> Tracks(m, c, p, u) BY DEF Tracks, Owns
<1>6. Tracking(m) => Tracking(n) BY <1>4, <1>5 DEF Tracking
<1>7. Valued(m) => Valued(n)
  <2>1. SUFFICES ASSUME Valued(m), NEW u \in Live(n.upvalues) PROVE ValueOf(n, u) = n.variable[u]
    BY DEF Valued
  <2>2. u \in Upvalues /\ SameUpvalue(m, n, u) /\ n.upvalues[u] # None
    BY <1>1 DEF SameHeap, Live, Free
  <2>3. u \in Live(m.upvalues) /\ m.upvalues[u] # None BY <1>1, <2>2 DEF Live, Free, SameUpvalue
  <2>4. ValueOf(n, u) = ValueOf(m, u) BY <1>0, <2>2, <2>3, UpvalueIs DEF SameUpvalue, ValueOf
  <2>5. QED BY <2>1, <2>3, <2>4 DEF Valued
<1>8. QED BY <1>2, <1>3, <1>6, <1>7 DEF Typed

\* One up-value that is counted once more or several times.
LEMMA CountedUpvalue ==
  ASSUME NEW k \in Nat, NEW r, NEW s, s = [r EXCEPT !.refs = @ + k]
  PROVE  /\ r \in OpenUpvalue => /\ s \in OpenUpvalue /\ s.refs = r.refs + k
                                 /\ s.open = r.open /\ r.open /\ s.cr = r.cr /\ s.at = r.at
         /\ r \in BoxedValue => /\ s \in BoxedValue /\ s.refs = r.refs + k
                                /\ s.open = r.open /\ ~r.open /\ s.v = r.v
<1>1. ASSUME r \in OpenUpvalue
      PROVE  /\ s \in OpenUpvalue /\ s.refs = r.refs + k
             /\ s.open = r.open /\ r.open /\ s.cr = r.cr /\ s.at = r.at
  <2>1. r.refs \in Nat /\ r.refs + k \in Nat BY <1>1 DEF OpenUpvalue
  <2>2. QED BY <1>1, <2>1 DEF OpenUpvalue
<1>2. ASSUME r \in BoxedValue
      PROVE  /\ s \in BoxedValue /\ s.refs = r.refs + k
             /\ s.open = r.open /\ ~r.open /\ s.v = r.v
  <2>1. r.refs \in Nat /\ r.refs + k \in Nat BY <1>2 DEF BoxedValue
  <2>2. QED BY <1>2, <2>1 DEF BoxedValue
<1>3. QED BY <1>1, <1>2

\* What counting the references in xs does.
LEMMA RefAllIs ==
  ASSUME NEW m \in MachineType, NEW T, NEW xs \in Seq(T), NEW n, n = RefAll(m, xs)
  PROVE  /\ n \in MachineType /\ SameHeap(m, n)
         /\ n.values = m.values /\ n.frames = m.frames /\ n.status = m.status
         /\ n.variable = m.variable /\ n.kept = m.kept /\ n.freed = m.freed
         /\ \A o \in Objects : Refs(n, o) = Refs(m, o) + (IF Heap(m, o)[o] = None THEN 0 ELSE Occurrences(xs, o))
<1> DEFINE cs == Referenced(m.closures, xs)
           us == Referenced(m.upvalues, xs)
           k == [m EXCEPT !.closures = cs]
<1>1. \A o : Occurrences(xs, o) \in Nat BY OccurrencesIs
<1>2. m.closures \in ClosureHeap /\ m.upvalues \in UpvalueHeap BY MachineIs
<1>3. /\ cs \in ClosureHeap
      /\ \A x \in Closures : /\ cs[x] = None <=> m.closures[x] = None
                             /\ m.closures[x] # None => /\ cs[x].refs = m.closures[x].refs + Occurrences(xs, x)
                                                        /\ cs[x].upvalues = m.closures[x].upvalues
  <2>1. ASSUME NEW x \in Closures
        PROVE  /\ cs[x] \in Closure \cup {None}
               /\ cs[x] = None <=> m.closures[x] = None
               /\ m.closures[x] # None => /\ cs[x].refs = m.closures[x].refs + Occurrences(xs, x)
                                          /\ cs[x].upvalues = m.closures[x].upvalues
    <3>1. cs[x] = IF m.closures[x] = None THEN None
                  ELSE [m.closures[x] EXCEPT !.refs = @ + Occurrences(xs, x)]
      BY <1>2 DEF Referenced, ClosureHeap
    <3> HIDE DEF cs
    <3>2. m.closures[x] \in Closure \/ m.closures[x] = None BY <1>2 DEF ClosureHeap
    <3>3. CASE m.closures[x] = None BY <3>1, <3>3
    <3>4. CASE m.closures[x] \in Closure
      <4>1. m.closures[x] # None BY <3>4, NoneAssumption
      <4>2. cs[x] = [m.closures[x] EXCEPT !.refs = @ + Occurrences(xs, x)] BY <3>1, <4>1
      <4>3. /\ cs[x] \in Closure /\ cs[x].refs = m.closures[x].refs + Occurrences(xs, x)
            /\ cs[x].upvalues = m.closures[x].upvalues
        BY <1>1, <3>4, <4>2 DEF Closure
      <4>4. QED BY <4>1, <4>3, NoneAssumption
    <3>5. QED BY <3>2, <3>3, <3>4
  <2>2. DOMAIN cs = Closures /\ cs = [x \in Closures |-> cs[x]] BY <1>2 DEF Referenced, ClosureHeap
  <2> HIDE DEF cs
  <2>3. cs \in ClosureHeap BY <2>1, <2>2 DEF ClosureHeap
  <2>4. QED BY <2>1, <2>3
<1>4. /\ us \in UpvalueHeap
      /\ \A u \in Upvalues : /\ us[u] = None <=> m.upvalues[u] = None
                             /\ m.upvalues[u] # None =>
                                   /\ us[u].refs = m.upvalues[u].refs + Occurrences(xs, u)
                                   /\ us[u].open = m.upvalues[u].open
                                   /\ m.upvalues[u].open => us[u].cr = m.upvalues[u].cr /\ us[u].at = m.upvalues[u].at
                                   /\ ~m.upvalues[u].open => us[u].v = m.upvalues[u].v
  <2>1. ASSUME NEW u \in Upvalues
        PROVE  /\ us[u] \in OpenUpvalue \cup BoxedValue \cup {None}
               /\ us[u] = None <=> m.upvalues[u] = None
               /\ m.upvalues[u] # None =>
                     /\ us[u].refs = m.upvalues[u].refs + Occurrences(xs, u)
                     /\ us[u].open = m.upvalues[u].open
                     /\ m.upvalues[u].open => us[u].cr = m.upvalues[u].cr /\ us[u].at = m.upvalues[u].at
                     /\ ~m.upvalues[u].open => us[u].v = m.upvalues[u].v
    <3>1. us[u] = IF m.upvalues[u] = None THEN None
                  ELSE [m.upvalues[u] EXCEPT !.refs = @ + Occurrences(xs, u)]
      BY <1>2 DEF Referenced, UpvalueHeap
    <3> HIDE DEF us
    <3>2. m.upvalues[u] \in OpenUpvalue \/ m.upvalues[u] \in BoxedValue \/ m.upvalues[u] = None
      BY <1>2 DEF UpvalueHeap
    <3>3. CASE m.upvalues[u] = None BY <3>1, <3>3
    <3>4. CASE m.upvalues[u] \in OpenUpvalue
      <4>1. m.upvalues[u] # None BY <3>4, NoneAssumption
      <4>2. us[u] = [m.upvalues[u] EXCEPT !.refs = @ + Occurrences(xs, u)] BY <3>1, <4>1
      <4>3. /\ us[u] \in OpenUpvalue /\ us[u].refs = m.upvalues[u].refs + Occurrences(xs, u)
            /\ us[u].open = m.upvalues[u].open /\ m.upvalues[u].open
            /\ us[u].cr = m.upvalues[u].cr /\ us[u].at = m.upvalues[u].at
        BY <1>1, <3>4, <4>2, CountedUpvalue
      <4>4. QED BY <4>1, <4>3, NoneAssumption
    <3>5. CASE m.upvalues[u] \in BoxedValue
      <4>1. m.upvalues[u] # None BY <3>5, NoneAssumption
      <4>2. us[u] = [m.upvalues[u] EXCEPT !.refs = @ + Occurrences(xs, u)] BY <3>1, <4>1
      <4>3. /\ us[u] \in BoxedValue /\ us[u].refs = m.upvalues[u].refs + Occurrences(xs, u)
            /\ us[u].open = m.upvalues[u].open /\ ~m.upvalues[u].open
            /\ us[u].v = m.upvalues[u].v
        BY <1>1, <3>5, <4>2, CountedUpvalue
      <4>4. QED BY <4>1, <4>3, NoneAssumption
    <3>6. QED BY <3>2, <3>3, <3>4, <3>5
  <2>2. DOMAIN us = Upvalues /\ us = [u \in Upvalues |-> us[u]] BY <1>2 DEF Referenced, UpvalueHeap
  <2> HIDE DEF us
  <2>3. us \in UpvalueHeap BY <2>1, <2>2 DEF UpvalueHeap
  <2>4. QED BY <2>1, <2>3
<1>5. n = [k EXCEPT !.upvalues = us] BY DEF RefAll
<1> HIDE DEF cs, us
<1>6. /\ k \in MachineType /\ k.closures = cs
      /\ k.values = m.values /\ k.frames = m.frames /\ k.upvalues = m.upvalues
      /\ k.status = m.status /\ k.variable = m.variable /\ k.kept = m.kept /\ k.freed = m.freed
  BY <1>3, WithClosures
<1> HIDE DEF k
<1>7. /\ n \in MachineType /\ n.upvalues = us /\ n.closures = cs
      /\ n.values = m.values /\ n.frames = m.frames
      /\ n.status = m.status /\ n.variable = m.variable /\ n.kept = m.kept /\ n.freed = m.freed
  BY <1>4, <1>5, <1>6, WithUpvalues
<1>8. SameHeap(m, n) BY <1>3, <1>4, <1>7 DEF SameHeap, SameUpvalue, SameClosure, UpsOf
<1>9. ASSUME NEW o \in Objects
      PROVE  Refs(n, o) = Refs(m, o) + (IF Heap(m, o)[o] = None THEN 0 ELSE Occurrences(xs, o))
  <2>1. CASE o \in Closures BY <1>3, <1>7, <2>1, RefsAre
  <2>2. CASE o \in Upvalues BY <1>4, <1>7, <2>2, RefsAre
  <2>3. QED BY <2>1, <2>2 DEF Objects
<1>10. QED BY <1>7, <1>8, <1>9

\* References that are counted are in hand; only what is allocated is counted.
LEMMA RefAllCounts ==
  ASSUME NEW m, Typed(m), NEW h \in Hands, Counted(m, h), NEW T, NEW xs \in Seq(T),
         \A o \in Objects : o \in ToSet(xs) => Heap(m, o)[o] # None,
         NEW n, n = RefAll(m, xs),
         NEW k \in Hands, \A o \in Objects : k[o] = h[o] + Occurrences(xs, o)
  PROVE  Typed(n) /\ Counted(n, k)
<1>0. m \in MachineType BY DEF Typed
<1>1. /\ n \in MachineType /\ SameHeap(m, n)
      /\ n.values = m.values /\ n.frames = m.frames /\ n.variable = m.variable /\ n.kept = m.kept
      /\ \A o \in Objects : Refs(n, o) = Refs(m, o) + (IF Heap(m, o)[o] = None THEN 0 ELSE Occurrences(xs, o))
  BY <1>0, RefAllIs
<1>2. Typed(n) BY <1>1, SameHeapKeeps
<1>3. ASSUME NEW o \in Objects
      PROVE  Refs(n, o) = Holders(n, o) + Keeps(n, o) + k[o] /\ (Heap(n, o)[o] # None => Refs(n, o) >= 1)
  <2>1. Holders(n, o) = Holders(m, o)
    <3>1. HeldByPlaces(n, o) = HeldByPlaces(m, o) BY <1>1 DEF HeldByPlaces
    <3>2. QED BY <1>0, <1>1, <3>1, SameHeapHolders, SameFrames DEF Holders
  <2>2. Keeps(n, o) = Keeps(m, o) BY <1>1 DEF Keeps
  <2>3. /\ Refs(m, o) = Holders(m, o) + Keeps(m, o) + h[o] /\ h[o] \in Int
        /\ Heap(m, o)[o] # None => Refs(m, o) >= 1
    BY DEF Counted, Hands
  <2>4. Occurrences(xs, o) \in Nat /\ (Heap(m, o)[o] = None => Occurrences(xs, o) = 0)
    BY OccurrencesIs
  <2>5. Refs(m, o) \in Nat /\ Keeps(m, o) \in Nat /\ Holders(m, o) \in Nat BY <1>0, RefsAre
  <2>6. Heap(n, o)[o] # None <=> Heap(m, o)[o] # None
    BY <1>0, <1>1, RefsAre DEF SameHeap, SameUpvalue, SameClosure, Objects
  <2>7. Refs(n, o) = Refs(m, o) + Occurrences(xs, o) BY <1>1, <2>4, <2>5
  <2>8. k[o] = h[o] + Occurrences(xs, o) OBVIOUS
  <2>9. Refs(n, o) = Holders(n, o) + Keeps(n, o) + k[o] BY <2>1, <2>2, <2>3, <2>4, <2>5, <2>7, <2>8
  <2>10. Heap(n, o)[o] # None => Refs(n, o) >= 1 BY <2>3, <2>4, <2>5, <2>6, <2>7
  <2>11. QED BY <2>9, <2>10
<1>4. QED BY <1>2, <1>3 DEF Counted

----------------------------------------------------------------------------
(* Places on the stacks.                                                   *)

\* Only the places of c differ.
OnlyPlacesOf(m, n, c) ==
    /\ \A d \in Coroutines \ {c} : n.values[d] = m.values[d]
    /\ n.frames = m.frames /\ n.upvalues = m.upvalues /\ n.closures = m.closures
    /\ n.status = m.status /\ n.variable = m.variable /\ n.kept = m.kept /\ n.freed = m.freed

\* The places of m on the stack of c, and vs on top of them.
Laid(m, n, c, vs) ==
    /\ Len(n.values[c]) = Len(m.values[c]) + Len(vs)
    /\ \A i \in 1 .. Len(m.values[c]) : n.values[c][i] = m.values[c][i]
    /\ \A j \in 1 .. Len(vs) : /\ n.values[c][Len(m.values[c]) + j].v = vs[j]
                               /\ ~n.values[c][Len(m.values[c]) + j].captured

\* Another list of places for one coroutine.
LEMMA WithPlaces ==
  ASSUME NEW m \in MachineType, NEW c \in Coroutines, NEW s \in Seq(Slot),
         NEW n, n = [m EXCEPT !.values[c] = s]
  PROVE  n \in MachineType /\ n.values[c] = s /\ OnlyPlacesOf(m, n, c)
<1> DEFINE new == [m.values EXCEPT ![c] = s]
<1>1. m.values \in Stacks BY MachineIs
<1>2. new \in Stacks BY <1>1 DEF Stacks
<1>3. new[c] = s /\ \A d \in Coroutines \ {c} : new[d] = m.values[d] BY <1>1 DEF Stacks
<1>4. n = [m EXCEPT !.values = new] OBVIOUS
<1> HIDE DEF new
<1>5. /\ n \in MachineType /\ n.values = new
      /\ n.frames = m.frames /\ n.upvalues = m.upvalues /\ n.closures = m.closures
      /\ n.status = m.status /\ n.variable = m.variable /\ n.kept = m.kept /\ n.freed = m.freed
  BY <1>2, <1>4 DEF MachineType
<1>6. OnlyPlacesOf(m, n, c) BY <1>3, <1>5 DEF OnlyPlacesOf
<1>7. QED BY <1>3, <1>5, <1>6

\* The other stacks have the same values.
LEMMA OtherVals ==
  ASSUME NEW m, NEW n, NEW c, OnlyPlacesOf(m, n, c)
  PROVE  \A d \in Coroutines \ {c} : Vals(n, d) = Vals(m, d)
BY DEF OnlyPlacesOf, Vals

\* The same heap: the same number of references, and other holders only on the stack of c.
LEMMA PlacesCount ==
  ASSUME NEW m, Typed(m), NEW n, Typed(n), NEW c \in Coroutines,
         \A d \in Coroutines \ {c} : Vals(n, d) = Vals(m, d),
         n.frames = m.frames, n.upvalues = m.upvalues, n.closures = m.closures, n.kept = m.kept,
         NEW h \in Hands, Counted(m, h), NEW k \in Hands,
         \A o \in Objects : k[o] + Occurrences(Vals(n, c), o) = h[o] + Occurrences(Vals(m, c), o)
  PROVE  Counted(n, k)
<1>1. m \in MachineType /\ n \in MachineType BY DEF Typed
<1>2. ASSUME NEW o \in Objects
      PROVE  Refs(n, o) = Holders(n, o) + Keeps(n, o) + k[o] /\ (Heap(n, o)[o] # None => Refs(n, o) >= 1)
  <2>1. Heap(n, o) = Heap(m, o) /\ Refs(n, o) = Refs(m, o) /\ Keeps(n, o) = Keeps(m, o)
    BY DEF Heap, Refs, Keeps
  <2>2. Cardinality(HeldByPlaces(n, o)) + Occurrences(Vals(m, c), o)
           = Cardinality(HeldByPlaces(m, o)) + Occurrences(Vals(n, c), o)
    BY OneStack
  <2>3. HeldByBoxes(n, o) = HeldByBoxes(m, o) /\ HeldByClosures(n, o) = HeldByClosures(m, o)
        /\ HeldByFrames(n, o) = HeldByFrames(m, o)
    BY DEF HeldByBoxes, HeldByClosures, HeldByFrames
  <2>4. /\ Cardinality(HeldByPlaces(m, o)) \in Nat /\ Cardinality(HeldByBoxes(m, o)) \in Nat
        /\ Cardinality(HeldByFrames(m, o)) \in Nat /\ Cardinality(HeldByClosures(m, o)) \in Nat
        /\ Cardinality(HeldByPlaces(n, o)) \in Nat
    BY <1>1, HoldersAre
  <2>5. Occurrences(Vals(m, c), o) \in Nat /\ Occurrences(Vals(n, c), o) \in Nat
    BY <1>1, ValsAre, OccurrencesIs
  <2>6. Holders(n, o) + Occurrences(Vals(m, c), o) = Holders(m, o) + Occurrences(Vals(n, c), o)
    BY <2>2, <2>3, <2>4, <2>5 DEF Holders
  <2>7. /\ Refs(m, o) = Holders(m, o) + Keeps(m, o) + h[o]
        /\ Heap(m, o)[o] # None => Refs(m, o) >= 1
    BY DEF Counted
  <2>8. k[o] + Occurrences(Vals(n, c), o) = h[o] + Occurrences(Vals(m, c), o) /\ h[o] \in Int /\ k[o] \in Int
    BY DEF Hands
  <2>9. Refs(m, o) \in Nat /\ Keeps(m, o) \in Nat /\ Holders(m, o) \in Nat /\ Holders(n, o) \in Nat
    BY <1>1, RefsAre
  <2>10. Refs(n, o) = Holders(n, o) + Keeps(n, o) + k[o] BY <2>1, <2>5, <2>6, <2>7, <2>8, <2>9
  <2>11. QED BY <2>1, <2>7, <2>10
<1>3. QED BY <1>2 DEF Counted

\* Values that are laid on the stack of c.
LEMMA LayIs ==
  ASSUME NEW m \in MachineType, NEW c \in Coroutines, NEW vs \in Seq(Value), NEW n, n = Lay(m, c, vs)
  PROVE  n \in MachineType /\ OnlyPlacesOf(m, n, c) /\ Laid(m, n, c, vs)
<1> DEFINE laid == [i \in DOMAIN vs |-> [v |-> vs[i], captured |-> FALSE]]
           s == m.values[c] \o laid
<1>1. m.values[c] \in Seq(Slot) BY ValsAre
<1>2. laid \in [1 .. Len(vs) -> Slot] BY DEF Slot
<1>3. laid \in Seq(Slot) BY <1>2
<1>4. Len(laid) = Len(vs) /\ Len(vs) \in Nat BY <1>2
<1>5. \A i \in 1 .. Len(vs) : laid[i].v = vs[i] /\ ~laid[i].captured OBVIOUS
<1>6. n = [m EXCEPT !.values[c] = s] BY DEF Lay
<1> HIDE DEF laid
<1>7. s \in Seq(Slot) BY <1>1, <1>3, JoinPlaces
<1>8. /\ Len(s) = Len(m.values[c]) + Len(laid) /\ Len(m.values[c]) \in Nat
      /\ \A i \in 1 .. Len(m.values[c]) : s[i] = m.values[c][i]
      /\ \A i \in Len(m.values[c]) + 1 .. Len(s) : s[i] = laid[i - Len(m.values[c])]
  BY <1>1, <1>3, JoinPlaces
<1> HIDE DEF s
<1>9. n \in MachineType /\ n.values[c] = s /\ OnlyPlacesOf(m, n, c) BY <1>6, <1>7, WithPlaces
<1>10. ASSUME NEW j \in 1 .. Len(vs)
       PROVE  s[Len(m.values[c]) + j] = laid[j]
  <2>1. Len(m.values[c]) + j \in Len(m.values[c]) + 1 .. Len(s) /\ (Len(m.values[c]) + j) - Len(m.values[c]) = j
    BY <1>4, <1>8
  <2>2. s[Len(m.values[c]) + j] = laid[(Len(m.values[c]) + j) - Len(m.values[c])] BY <1>8, <2>1
  <2>3. QED BY <2>1, <2>2
<1>11. Laid(m, n, c, vs) BY <1>4, <1>5, <1>8, <1>9, <1>10 DEF Laid
<1>12. QED BY <1>9, <1>11

\* ... follow those that were there.
LEMMA LayVals ==
  ASSUME NEW m \in MachineType, NEW n \in MachineType, NEW c \in Coroutines, NEW vs \in Seq(Value),
         Laid(m, n, c, vs)
  PROVE  Vals(n, c) = Vals(m, c) \o vs
<1> DEFINE joined == Vals(m, c) \o vs
           before == Vals(m, c)
           after == Vals(n, c)
           L == Len(m.values[c])
<1>1. L \in Nat /\ Len(vs) \in Nat /\ Len(before) = L /\ Len(after) = L + Len(vs)
  BY ValsAre DEF Laid
<1>2. before \in Seq(Value) BY ValsAre
<1>3. after \in Seq(Value) BY ValsAre
<1>4. ASSUME NEW i \in 1 .. L PROVE before[i] = after[i]
  <2>1. i \in 1 .. Len(m.values[c]) /\ i \in 1 .. Len(n.values[c]) BY <1>1, ValsAre
  <2>2. before[i] = m.values[c][i].v /\ after[i] = n.values[c][i].v BY <2>1, ValsAre
  <2>3. QED BY <2>1, <2>2 DEF Laid
<1>5. ASSUME NEW j \in 1 .. Len(vs) PROVE after[L + j] = vs[j]
  <2>1. L + j \in 1 .. Len(n.values[c]) BY <1>1, ValsAre
  <2>2. after[L + j] = n.values[c][L + j].v BY <2>1, ValsAre
  <2>3. QED BY <2>2 DEF Laid
<1> HIDE DEF before, after, L
<1>6. joined \in Seq(Value) BY <1>2, JoinPlaces DEF before
<1>7. /\ Len(joined) = L + Len(vs)
      /\ \A i \in 1 .. L : joined[i] = before[i]
      /\ \A i \in L + 1 .. Len(joined) : joined[i] = vs[i - L]
  BY <1>1, <1>2, JoinPlaces DEF before
<1> HIDE DEF joined
<1>8. ASSUME NEW i \in 1 .. L + Len(vs) PROVE joined[i] = after[i]
  <2>1. CASE i \in 1 .. L BY <1>4, <1>7, <2>1
  <2>2. CASE i > L
    <3> DEFINE j == i - L
    <3>1. j \in 1 .. Len(vs) /\ i = L + j /\ i \in L + 1 .. Len(joined) BY <1>1, <1>7, <2>2
    <3>2. joined[i] = vs[j] BY <1>7, <3>1
    <3> HIDE DEF j
    <3>3. after[L + j] = vs[j] BY <1>5, <3>1
    <3>4. QED BY <3>1, <3>2, <3>3
  <2>3. QED BY <1>1, <2>1, <2>2
<1>9. joined = after BY <1>1, <1>3, <1>6, <1>7, <1>8
<1>10. QED BY <1>9 DEF joined, after, before

\* The stack holds them, no longer the instruction.
LEMMA LayCounts ==
  ASSUME NEW m, Typed(m), NEW h \in Hands, Counted(m, h), NEW c \in Coroutines,
         NEW vs \in Seq(Value), Len(m.values[c]) + Len(vs) < MaxValues,
         NEW n, n = Lay(m, c, vs),
         NEW k \in Hands, \A o \in Objects : h[o] = k[o] + Occurrences(vs, o)
  PROVE  Typed(n) /\ Counted(n, k)
<1>1. m \in MachineType BY DEF Typed
<1>2. n \in MachineType /\ OnlyPlacesOf(m, n, c) /\ Laid(m, n, c, vs) BY <1>1, LayIs
<1>6. Vals(n, c) = Vals(m, c) \o vs BY <1>1, <1>2, LayVals
<1>7. \A d \in Coroutines \ {c} : Vals(n, d) = Vals(m, d) BY <1>2, OtherVals
<1>3. Typed(n)
  <2>1. \A d \in Coroutines : Len(n.values[d]) < MaxValues
    BY <1>2 DEF Typed, Bounded, OnlyPlacesOf, Laid
  <2>2. QED BY <1>2, <2>1 DEF Typed, Bounded, OnlyPlacesOf
<1>4. \A o \in Objects : k[o] + Occurrences(Vals(n, c), o) = h[o] + Occurrences(Vals(m, c), o)
  <2>1. ASSUME NEW o \in Objects
        PROVE  k[o] + Occurrences(Vals(n, c), o) = h[o] + Occurrences(Vals(m, c), o)
    <3>1. Vals(m, c) \in Seq(Value) BY <1>1, ValsAre
    <3>2. Occurrences(Vals(m, c) \o vs, o) = Occurrences(Vals(m, c), o) + Occurrences(vs, o)
      BY <3>1, OccurrencesJoin
    <3>3. Occurrences(Vals(m, c), o) \in Nat /\ Occurrences(vs, o) \in Nat BY <3>1, OccurrencesIs
    <3>4. h[o] = k[o] + Occurrences(vs, o) /\ k[o] \in Int BY DEF Hands
    <3>5. QED BY <1>6, <3>2, <3>3, <3>4
  <2>2. QED BY <2>1
<1>8. n.frames = m.frames /\ n.upvalues = m.upvalues /\ n.closures = m.closures /\ n.kept = m.kept
  BY <1>2 DEF OnlyPlacesOf
<1>5. QED BY <1>3, <1>4, <1>7, <1>8, PlacesCount

\* Places that are added, or not captured and removed, do not concern the up-values.
LEMMA PlacesTrack ==
  ASSUME NEW m \in MachineType, NEW n \in MachineType, n.frames = m.frames, n.upvalues = m.upvalues,
         n.variable = m.variable, Tracking(m), Valued(m),
         \A d \in Coroutines : \A p \in DOMAIN m.values[d] :
            m.values[d][p].captured => p \in DOMAIN n.values[d] /\ n.values[d][p] = m.values[d][p],
         \A d \in Coroutines : \A p \in DOMAIN n.values[d] :
            n.values[d][p].captured => p \in DOMAIN m.values[d] /\ m.values[d][p].captured
  PROVE  Tracking(n) /\ Valued(n)
<1>1. \A u, c, p : (Aliases(n, u, c, p) <=> Aliases(m, u, c, p)) /\ (Tracks(n, c, p, u) <=> Tracks(m, c, p, u))
  BY DEF Aliases, Tracks, Owns
<1>2. Tracking(n)
  <2>1. ASSUME NEW u \in Upvalues, NEW c \in Coroutines, NEW p \in Nat, Aliases(n, u, c, p)
        PROVE  p \in DOMAIN n.values[c] /\ n.values[c][p].captured /\ Tracks(n, c, p, u)
    <3>1. p \in DOMAIN m.values[c] /\ m.values[c][p].captured /\ Tracks(m, c, p, u)
      BY <1>1, <2>1 DEF Tracking
    <3>2. QED BY <1>1, <3>1
  <2>2. ASSUME NEW c \in Coroutines, NEW p \in DOMAIN n.values[c], n.values[c][p].captured
        PROVE  \E u \in Upvalues : Tracks(n, c, p, u) /\ Aliases(n, u, c, p)
    BY <1>1, <2>2 DEF Tracking
  <2>3. QED BY <2>1, <2>2 DEF Tracking
<1>3. Valued(n)
  <2>1. SUFFICES ASSUME NEW u \in Live(m.upvalues) PROVE ValueOf(n, u) = n.variable[u] BY DEF Valued
  <2>2. u \in Upvalues /\ m.upvalues[u] # None /\ ValueOf(m, u) = m.variable[u]
    BY MachineIs DEF Valued, Live, Free, UpvalueHeap
  <2>3. CASE m.upvalues[u].open
    <3> DEFINE c == m.upvalues[u].cr
               p == m.upvalues[u].at
    <3>1. c \in Coroutines /\ p \in Nat /\ Aliases(m, u, c, p) BY <2>2, <2>3, UpvalueIs DEF Aliases
    <3>2. p \in DOMAIN m.values[c] /\ m.values[c][p].captured BY <2>2, <3>1 DEF Tracking
    <3>3. n.values[c][p] = m.values[c][p] BY <3>1, <3>2
    <3>4. QED BY <2>2, <2>3, <3>3 DEF ValueOf
  <2>4. CASE ~m.upvalues[u].open BY <2>2, <2>4 DEF ValueOf
  <2>5. QED BY <2>3, <2>4
<1>4. QED BY <1>2, <1>3

\* Frames stay where they are when places are added.
LEMMA LaySound ==
  ASSUME NEW m, NEW h \in Hands, Sound(m, h), NEW c \in Coroutines, m.frames[c] # <<>>,
         NEW vs \in Seq(Value), Len(m.values[c]) + Len(vs) < MaxValues,
         NEW n, n = Lay(m, c, vs),
         NEW k \in Hands, \A o \in Objects : h[o] = k[o] + Occurrences(vs, o)
  PROVE  Sound(n, k)
<1>1. m \in MachineType /\ Typed(m) /\ Counted(m, h) /\ Stacked(m) /\ Tracking(m) /\ Valued(m)
  BY DEF Sound, Typed
<1>2. Typed(n) /\ Counted(n, k) BY <1>1, LayCounts
<1>a. n \in MachineType /\ OnlyPlacesOf(m, n, c) /\ Laid(m, n, c, vs) BY <1>1, LayIs
<1>3. /\ \A d \in Coroutines \ {c} : n.values[d] = m.values[d]
      /\ n.frames = m.frames /\ n.upvalues = m.upvalues /\ n.variable = m.variable
  BY <1>a DEF OnlyPlacesOf
<1>4. /\ DOMAIN m.values[c] = 1 .. Len(m.values[c]) /\ DOMAIN n.values[c] = 1 .. Len(n.values[c])
      /\ Len(m.values[c]) \in Nat /\ Len(vs) \in Nat /\ Len(n.values[c]) = Len(m.values[c]) + Len(vs)
      /\ \A i \in 1 .. Len(m.values[c]) : n.values[c][i] = m.values[c][i]
  BY <1>1, <1>a, ValsAre DEF Laid
<1>b. ASSUME NEW p \in DOMAIN n.values[c], p > Len(m.values[c]) PROVE ~n.values[c][p].captured
  <2>1. /\ p - Len(m.values[c]) \in 1 .. Len(vs)
        /\ Len(m.values[c]) + (p - Len(m.values[c])) = p
    <3> DEFINE L == Len(m.values[c])
               K == Len(vs)
    <3>1. p \in 1 .. L + K /\ L \in Nat /\ K \in Nat /\ p > L BY <1>4, <1>b
    <3> HIDE DEF L, K
    <3>2. p - L \in 1 .. K /\ L + (p - L) = p BY <3>1
    <3>3. QED BY <3>2 DEF L, K
  <2>2. QED BY <1>a, <2>1 DEF Laid
<1>5. Stacked(n)
  <2>1. ASSUME NEW d \in Coroutines
        PROVE  /\ n.frames[d] = <<>> => n.values[d] = <<>>
               /\ \A i \in DOMAIN n.frames[d] : n.frames[d][i].offset <= Len(n.values[d])
    <3>1. CASE d = c
      <4>1. \A i \in DOMAIN m.frames[c] : m.frames[c][i].offset <= Len(m.values[c]) /\ m.frames[c][i].offset \in Nat
        BY <1>1, FramesAre DEF Stacked, FrameType
      <4>2. QED BY <1>3, <1>4, <3>1, <4>1
    <3>2. CASE d # c BY <1>1, <1>3, <3>2 DEF Stacked
    <3>3. QED BY <3>1, <3>2
  <2>2. QED BY <1>1, <1>3, <2>1 DEF Stacked
<1>6. ASSUME NEW d \in Coroutines, NEW p \in DOMAIN m.values[d], m.values[d][p].captured
      PROVE  p \in DOMAIN n.values[d] /\ n.values[d][p] = m.values[d][p]
  <2>1. CASE d = c BY <1>3, <1>4, <2>1
  <2>2. CASE d # c BY <1>3, <2>2
  <2>3. QED BY <2>1, <2>2
<1>7. ASSUME NEW d \in Coroutines, NEW p \in DOMAIN n.values[d], n.values[d][p].captured
      PROVE  p \in DOMAIN m.values[d] /\ m.values[d][p].captured
  <2>1. CASE d = c
    <3>1. CASE p \in 1 .. Len(m.values[c]) BY <1>3, <1>4, <1>7, <2>1, <3>1
    <3>2. CASE p > Len(m.values[c]) BY <1>7, <1>b, <2>1, <3>2
    <3>3. QED BY <1>4, <2>1, <3>1, <3>2
  <2>2. CASE d # c BY <1>3, <1>7, <2>2
  <2>3. QED BY <2>1, <2>2
<1>8. Tracking(n) /\ Valued(n) BY <1>1, <1>a, <1>3, <1>6, <1>7, PlacesTrack
<1>9. QED BY <1>2, <1>5, <1>8 DEF Sound

\* Values that are taken from the top of the stack of c are in hand.
Cut(m, c, L) == [m EXCEPT !.values[c] = SubSeq(@, 1, L)]

\* The values vs are taken from the top of a stack.
LEMMA CutIs ==
  ASSUME NEW m \in MachineType, NEW c \in Coroutines, NEW L \in 0 .. Len(m.values[c]),
         NEW n, n = Cut(m, c, L),
         NEW vs \in Seq(Value), Len(m.values[c]) = L + Len(vs),
         \A j \in 1 .. Len(vs) : m.values[c][L + j].v = vs[j] /\ ~m.values[c][L + j].captured
  PROVE  n \in MachineType /\ OnlyPlacesOf(m, n, c) /\ Laid(n, m, c, vs) /\ Len(n.values[c]) = L
<1> DEFINE s == SubSeq(m.values[c], 1, L)
<1>1. m.values[c] \in Seq(Slot) /\ Len(m.values[c]) \in Nat BY ValsAre
<1>2. s \in Seq(Slot) BY <1>1
<1>3. Len(s) = L /\ \A i \in 1 .. L : s[i] = m.values[c][i] BY <1>1
<1>4. n = [m EXCEPT !.values[c] = s] BY DEF Cut
<1> HIDE DEF s
<1>5. n \in MachineType /\ n.values[c] = s /\ OnlyPlacesOf(m, n, c) BY <1>2, <1>4, WithPlaces
<1>6. Laid(n, m, c, vs) BY <1>3, <1>5 DEF Laid
<1>7. QED BY <1>3, <1>5, <1>6

\* What was sound then is sound with vs in hand.
LEMMA CutSound ==
  ASSUME NEW m, NEW h \in Hands, Sound(m, h), NEW c \in Coroutines,
         NEW n \in MachineType, NEW vs \in Seq(Value), OnlyPlacesOf(m, n, c), Laid(n, m, c, vs),
         \A i \in DOMAIN m.frames[c] : m.frames[c][i].offset <= Len(n.values[c]),
         NEW k \in Hands, \A o \in Objects : k[o] = h[o] + Occurrences(vs, o)
  PROVE  Sound(n, k)
<1>1. m \in MachineType /\ Typed(m) /\ Counted(m, h) /\ Stacked(m) /\ Tracking(m) /\ Valued(m)
  BY DEF Sound, Typed
<1>2. /\ \A d \in Coroutines \ {c} : n.values[d] = m.values[d]
      /\ n.frames = m.frames /\ n.upvalues = m.upvalues /\ n.closures = m.closures
      /\ n.variable = m.variable /\ n.kept = m.kept
  BY DEF OnlyPlacesOf
<1>3. /\ Len(n.values[c]) \in Nat /\ Len(vs) \in Nat /\ Len(m.values[c]) = Len(n.values[c]) + Len(vs)
      /\ \A i \in 1 .. Len(n.values[c]) : n.values[c][i] = m.values[c][i]
      /\ DOMAIN m.values[c] = 1 .. Len(m.values[c]) /\ DOMAIN n.values[c] = 1 .. Len(n.values[c])
  BY <1>1, ValsAre DEF Laid
<1>4. ASSUME NEW p \in DOMAIN m.values[c], p > Len(n.values[c]) PROVE ~m.values[c][p].captured
  <2> DEFINE L == Len(n.values[c])
             K == Len(vs)
  <2>1. p \in 1 .. L + K /\ L \in Nat /\ K \in Nat /\ p > L BY <1>3, <1>4
  <2> HIDE DEF L, K
  <2>2. p - L \in 1 .. K /\ L + (p - L) = p BY <2>1
  <2>3. QED BY <2>2 DEF Laid, L, K
<1>5. Typed(n)
  <2>1. \A d \in Coroutines : Len(n.values[d]) < MaxValues
    <3>1. Len(n.values[c]) < MaxValues BY <1>1, <1>3, LimitsAssumption DEF Typed, Bounded
    <3>2. QED BY <1>1, <1>2, <3>1 DEF Typed, Bounded
  <2>2. QED BY <1>1, <1>2, <2>1 DEF Typed, Bounded
<1>6. Counted(n, k)
  <2>1. \A d \in Coroutines \ {c} : Vals(n, d) = Vals(m, d) BY OtherVals
  <2>2. Vals(m, c) = Vals(n, c) \o vs BY <1>1, LayVals
  <2>3. ASSUME NEW o \in Objects
        PROVE  k[o] + Occurrences(Vals(n, c), o) = h[o] + Occurrences(Vals(m, c), o)
    <3>1. Vals(n, c) \in Seq(Value) BY ValsAre
    <3>2. Occurrences(Vals(n, c) \o vs, o) = Occurrences(Vals(n, c), o) + Occurrences(vs, o)
      BY <3>1, OccurrencesJoin
    <3>3. Occurrences(Vals(n, c), o) \in Nat /\ Occurrences(vs, o) \in Nat BY <3>1, OccurrencesIs
    <3>4. k[o] = h[o] + Occurrences(vs, o) /\ h[o] \in Int BY DEF Hands
    <3>5. QED BY <2>2, <3>2, <3>3, <3>4
  <2>4. QED BY <1>1, <1>2, <1>5, <2>1, <2>3, PlacesCount
<1>7. Stacked(n)
  <2>1. ASSUME NEW d \in Coroutines
        PROVE  /\ n.frames[d] = <<>> => n.values[d] = <<>>
               /\ \A i \in DOMAIN n.frames[d] : n.frames[d][i].offset <= Len(n.values[d])
    <3>1. CASE d = c
      <4>1. m.frames[c] = <<>> => Len(m.values[c]) = 0 BY <1>1 DEF Stacked
      <4>2. m.frames[c] = <<>> => Len(n.values[c]) = 0 BY <1>3, <4>1
      <4>3. m.frames[c] = <<>> => n.values[c] = <<>>
        <5>1. n.values[c] \in Seq(Slot) BY ValsAre
        <5>2. QED BY <4>2, <5>1, EmptyLen
      <4>4. QED BY <1>2, <3>1, <4>3
    <3>2. CASE d # c BY <1>1, <1>2, <3>2 DEF Stacked
    <3>3. QED BY <3>1, <3>2
  <2>2. QED BY <1>1, <1>2, <2>1 DEF Stacked
<1>8. ASSUME NEW d \in Coroutines, NEW p \in DOMAIN m.values[d], m.values[d][p].captured
      PROVE  p \in DOMAIN n.values[d] /\ n.values[d][p] = m.values[d][p]
  <2>1. CASE d = c
    <3>1. p \in 1 .. Len(m.values[c]) /\ ~(p > Len(n.values[c])) BY <1>3, <1>4, <1>8, <2>1
    <3>2. p \in 1 .. Len(n.values[c]) BY <1>3, <3>1
    <3>3. QED BY <1>3, <2>1, <3>2
  <2>2. CASE d # c BY <1>2, <2>2
  <2>3. QED BY <2>1, <2>2
<1>9. ASSUME NEW d \in Coroutines, NEW p \in DOMAIN n.values[d], n.values[d][p].captured
      PROVE  p \in DOMAIN m.values[d] /\ m.values[d][p].captured
  <2>1. CASE d = c
    <3>1. p \in 1 .. Len(n.values[c]) BY <1>3, <2>1
    <3>2. p \in 1 .. Len(m.values[c]) BY <1>3, <3>1
    <3>3. QED BY <1>3, <1>9, <2>1, <3>1, <3>2
  <2>2. CASE d # c BY <1>2, <1>9, <2>2
  <2>3. QED BY <2>1, <2>2
<1>10. Tracking(n) /\ Valued(n) BY <1>1, <1>2, <1>8, <1>9, PlacesTrack
<1>11. QED BY <1>5, <1>6, <1>7, <1>10 DEF Sound

----------------------------------------------------------------------------
(* Up-values.                                                              *)

\* One frame owns a place: the one on top, of the places of the function that runs.
LEMMA OneOwner ==
  ASSUME NEW m \in MachineType, NEW c \in Coroutines, NEW p \in Nat
  PROVE  /\ \A i, j : Owns(m, c, i, p) /\ Owns(m, c, j, p) => i = j
         /\ \A u, w : Tracks(m, c, p, u) /\ Tracks(m, c, p, w) => u = w
         /\ m.frames[c] # <<>> /\ p > Frame(m, c).offset =>
               /\ Owns(m, c, Len(m.frames[c]), p)
               /\ \A u : Tracks(m, c, p, u) <=> p \in DOMAIN Frame(m, c).tracked /\ Frame(m, c).tracked[p] = u
<1> DEFINE L == Len(m.frames[c])
<1>1. DOMAIN m.frames[c] = 1 .. L /\ L \in Nat BY FramesAre
<1>2. \A i \in 1 .. L : m.frames[c][i].offset \in Nat BY FramesAre DEF FrameType
<1>3. ASSUME NEW i, NEW j, Owns(m, c, i, p), Owns(m, c, j, p) PROVE i = j
  <2>1. i \in 1 .. L /\ j \in 1 .. L BY <1>1, <1>3 DEF Owns
  <2>2. m.frames[c][i].offset \in Nat /\ m.frames[c][j].offset \in Nat BY <1>2, <2>1
  <2>3. m.frames[c][i].offset < p /\ m.frames[c][j].offset < p BY <1>3 DEF Owns
  <2>4. /\ j > i => m.frames[c][j].offset >= p
        /\ i > j => m.frames[c][i].offset >= p
    BY <1>3 DEF Owns
  <2>5. QED BY <1>1, <2>1, <2>2, <2>3, <2>4
<1>4. ASSUME m.frames[c] # <<>>, p > Frame(m, c).offset PROVE Owns(m, c, L, p)
  <2>1. L # 0 /\ Frame(m, c) = m.frames[c][L]
    <3>1. m.frames[c] \in Seq(FrameType) BY FramesAre
    <3>2. QED BY <1>4, <3>1 DEF Frame, Last
  <2>2. L \in DOMAIN m.frames[c] BY <1>1, <2>1
  <2>3. m.frames[c][L].offset < p BY <1>2, <1>1, <1>4, <2>1, <2>2
  <2>4. \A j \in DOMAIN m.frames[c] : ~(j > L) BY <1>1
  <2>5. QED BY <2>2, <2>3, <2>4 DEF Owns
<1>5. m.frames[c] # <<>> => Frame(m, c) = m.frames[c][L] BY FramesAre DEF Frame, Last
<1>6. QED BY <1>3, <1>4, <1>5 DEF Tracks, Owns

\* Another up-value in the heap.
AnyUpvalue == OpenUpvalue \cup BoxedValue \cup {None}
SetUpvalue(m, u, r) == [m EXCEPT !.upvalues[u] = r]
OnlyUpvalueOf(m, n, u) ==
    /\ \A w \in Upvalues \ {u} : n.upvalues[w] = m.upvalues[w]
    /\ n.values = m.values /\ n.frames = m.frames /\ n.closures = m.closures
    /\ n.status = m.status /\ n.variable = m.variable /\ n.kept = m.kept /\ n.freed = m.freed

\* Setting one up-value leaves the others alone.
LEMMA WithUpvalue ==
  ASSUME NEW m \in MachineType, NEW u \in Upvalues, NEW r \in AnyUpvalue,
         NEW n, n = SetUpvalue(m, u, r)
  PROVE  n \in MachineType /\ n.upvalues[u] = r /\ OnlyUpvalueOf(m, n, u)
<1> DEFINE new == [m.upvalues EXCEPT ![u] = r]
<1>1. m.upvalues \in UpvalueHeap BY MachineIs
<1>2. new \in UpvalueHeap BY <1>1 DEF UpvalueHeap, AnyUpvalue
<1>3. new[u] = r /\ \A w \in Upvalues \ {u} : new[w] = m.upvalues[w] BY <1>1 DEF UpvalueHeap
<1>4. n = [m EXCEPT !.upvalues = new] BY DEF SetUpvalue
<1> HIDE DEF new
<1>5. /\ n \in MachineType /\ n.upvalues = new
      /\ n.values = m.values /\ n.frames = m.frames /\ n.closures = m.closures
      /\ n.status = m.status /\ n.variable = m.variable /\ n.kept = m.kept /\ n.freed = m.freed
  BY <1>2, <1>4 DEF MachineType
<1>6. QED BY <1>3, <1>5 DEF OnlyUpvalueOf

\* A place that is no longer captured.
Uncaptured(m, n, c, p) ==
    /\ OnlyPlacesOf(m, n, c)
    /\ Len(n.values[c]) = Len(m.values[c])
    /\ n.values[c][p].v = m.values[c][p].v /\ ~n.values[c][p].captured
    /\ \A q \in 1 .. Len(m.values[c]) : q # p => n.values[c][q] = m.values[c][q]

\* Clearing the mark of a place changes no value.
LEMMA UncapturedIs ==
  ASSUME NEW m \in MachineType, NEW c \in Coroutines, NEW p \in 1 .. Len(m.values[c]),
         NEW n, n = [m EXCEPT !.values[c][p].captured = FALSE]
  PROVE  n \in MachineType /\ Uncaptured(m, n, c, p) /\ \A d \in Coroutines : Vals(n, d) = Vals(m, d)
<1> DEFINE r == [m.values[c][p] EXCEPT !.captured = FALSE]
           s == [m.values[c] EXCEPT ![p] = r]
           L == Len(m.values[c])
<1>1. m.values[c] \in Seq(Slot) /\ L \in Nat /\ m.values[c][p] \in Slot BY ValsAre
<1>2. r \in Slot /\ r.v = m.values[c][p].v /\ ~r.captured BY <1>1 DEF Slot
<1> HIDE DEF r
<1>3. s \in [1 .. L -> Slot] BY <1>1, <1>2
<1>4. s \in Seq(Slot) BY <1>1, <1>3
<1>5. Len(s) = L /\ s[p] = r /\ \A q \in 1 .. L : q # p => s[q] = m.values[c][q] BY <1>1, <1>3
<1>6. n = [m EXCEPT !.values[c] = s] BY DEF r
<1> HIDE DEF s
<1>7. n \in MachineType /\ n.values[c] = s /\ OnlyPlacesOf(m, n, c) BY <1>4, <1>6, WithPlaces
<1>8. Uncaptured(m, n, c, p) BY <1>2, <1>5, <1>7 DEF Uncaptured
<1>9. Vals(n, c) = Vals(m, c)
  <2>1. \A i \in 1 .. L : n.values[c][i].v = m.values[c][i].v BY <1>2, <1>5, <1>7
  <2>2. DOMAIN n.values[c] = 1 .. L /\ DOMAIN m.values[c] = 1 .. L BY <1>5, <1>7, ValsAre
  <2>3. QED BY <2>1, <2>2 DEF Vals
<1>10. \A d \in Coroutines \ {c} : Vals(n, d) = Vals(m, d) BY <1>7, OtherVals
<1>11. QED BY <1>7, <1>8, <1>9, <1>10

\* Who is held has a holder.
LEMMA HeldIsCounted ==
  ASSUME NEW m \in MachineType, NEW o, NEW q,
         \/ q \in HeldByPlaces(m, o) \/ q \in HeldByBoxes(m, o)
         \/ q \in HeldByFrames(m, o) \/ q \in HeldByClosures(m, o)
  PROVE  Holders(m, o) >= 1
<1>1. ASSUME NEW S, IsFiniteSet(S), q \in S PROVE Cardinality(S) >= 1
  <2>1. Cardinality(S) \in Nat BY <1>1, FS_CardinalityType
  <2>2. Cardinality(S) # 0 BY <1>1, FS_EmptySet
  <2>3. QED BY <2>1, <2>2
<1>2. /\ q \in HeldByPlaces(m, o) => Cardinality(HeldByPlaces(m, o)) >= 1
      /\ q \in HeldByBoxes(m, o) => Cardinality(HeldByBoxes(m, o)) >= 1
      /\ q \in HeldByFrames(m, o) => Cardinality(HeldByFrames(m, o)) >= 1
      /\ q \in HeldByClosures(m, o) => Cardinality(HeldByClosures(m, o)) >= 1
  BY <1>1, HoldersAre
<1>3. /\ Cardinality(HeldByPlaces(m, o)) \in Nat /\ Cardinality(HeldByBoxes(m, o)) \in Nat
      /\ Cardinality(HeldByFrames(m, o)) \in Nat /\ Cardinality(HeldByClosures(m, o)) \in Nat
  BY HoldersAre
<1>4. QED BY <1>2, <1>3 DEF Holders

\* The closures on a stack, and those that frames run, are allocated, and so is what they captured.
LEMMA HeldIsLive ==
  ASSUME NEW m, Typed(m), NEW h \in Hands, Counted(m, h), \A o \in Objects : h[o] >= 0
  PROVE  /\ \A c \in Coroutines : \A p \in DOMAIN m.values[c] :
               m.values[c][p].v \in Closures => m.closures[m.values[c][p].v] # None
         /\ \A c \in Coroutines : \A i \in DOMAIN m.frames[c] :
               /\ m.frames[c][i].closure # None => m.closures[m.frames[c][i].closure] # None
               /\ \A p \in DOMAIN m.frames[c][i].tracked : m.upvalues[m.frames[c][i].tracked[p]] # None
         /\ \A x \in Closures : \A i \in DOMAIN UpsOf(m, x) : m.upvalues[UpsOf(m, x)[i]] # None
         /\ \A u \in Upvalues : m.upvalues[u] # None /\ ~m.upvalues[u].open /\ m.upvalues[u].v \in Closures =>
               m.closures[m.upvalues[u].v] # None
<1>0. m \in MachineType /\ Bounded(m) BY DEF Typed
<1>1. ASSUME NEW o \in Objects, NEW q,
             \/ q \in HeldByPlaces(m, o) \/ q \in HeldByBoxes(m, o)
             \/ q \in HeldByFrames(m, o) \/ q \in HeldByClosures(m, o)
      PROVE  /\ o \in Closures => m.closures[o] # None
             /\ o \in Upvalues => m.upvalues[o] # None
  <2>1. Holders(m, o) >= 1 /\ Holders(m, o) \in Nat BY <1>0, <1>1, HeldIsCounted, HoldersAre
  <2>2. h[o] \in Int /\ h[o] >= 0 BY DEF Hands
  <2>3. Holders(m, o) + h[o] >= 1 BY <2>1, <2>2
  <2>4. QED BY <1>0, <2>3, CountedIsLive
<1>2. ASSUME NEW c \in Coroutines, NEW p \in DOMAIN m.values[c], m.values[c][p].v \in Closures
      PROVE  m.closures[m.values[c][p].v] # None
  <2>1. p \in 1 .. Len(m.values[c]) /\ Len(m.values[c]) \in Nat /\ Len(m.values[c]) < MaxValues /\ MaxValues \in Nat
    BY <1>0, ValsAre, LimitsAssumption DEF Bounded
  <2>2. p \in 1 .. MaxValues BY <2>1
  <2>3. <<c, p>> \in HeldByPlaces(m, m.values[c][p].v) BY <2>2 DEF HeldByPlaces
  <2>4. QED BY <1>1, <1>2, <2>3 DEF Objects
<1>3. ASSUME NEW c \in Coroutines, NEW i \in DOMAIN m.frames[c], NEW p \in Holds(m.frames[c][i]),
             HeldAt(m.frames[c][i], p) # None
      PROVE  LET o == HeldAt(m.frames[c][i], p)
             IN  (o \in Closures => m.closures[o] # None) /\ (o \in Upvalues => m.upvalues[o] # None)
  <2>1. i \in 1 .. Len(m.frames[c]) /\ Len(m.frames[c]) \in Nat /\ Len(m.frames[c]) < MaxFrames /\ MaxFrames \in Nat
    BY <1>0, FramesAre, LimitsAssumption DEF Bounded
  <2>2. i \in 1 .. MaxFrames BY <2>1
  <2>3. p \in 0 .. MaxValues /\ HeldAt(m.frames[c][i], p) \in Objects
    BY <1>0, <1>3, <2>1, FramesAre DEF Objects
  <2>4. <<c, i, p>> \in HeldByFrames(m, HeldAt(m.frames[c][i], p)) BY <2>2, <2>3 DEF HeldByFrames
  <2>5. QED BY <1>1, <2>3, <2>4
<1>4. ASSUME NEW c \in Coroutines, NEW i \in DOMAIN m.frames[c]
      PROVE  /\ m.frames[c][i].closure # None => m.closures[m.frames[c][i].closure] # None
             /\ \A p \in DOMAIN m.frames[c][i].tracked : m.upvalues[m.frames[c][i].tracked[p]] # None
  <2>1. i \in 1 .. Len(m.frames[c]) BY <1>0, FramesAre
  <2>2. m.frames[c][i] \in FrameType BY <1>0, <2>1, FramesAre
  <2>3. PICK S \in SUBSET (1 .. MaxValues) : m.frames[c][i].tracked \in [S -> Upvalues]
    BY <2>2 DEF FrameType
  <2>4. 0 \notin DOMAIN m.frames[c][i].tracked BY <2>3, LimitsAssumption
  <2>5. m.frames[c][i].closure \in Closures \cup {None} /\ 0 \in Holds(m.frames[c][i])
        /\ HeldAt(m.frames[c][i], 0) = m.frames[c][i].closure
    BY <2>2 DEF FrameType, Holds, HeldAt
  <2>6. ASSUME NEW p \in DOMAIN m.frames[c][i].tracked
        PROVE  m.upvalues[m.frames[c][i].tracked[p]] # None
    <3>1. p \in Holds(m.frames[c][i]) /\ HeldAt(m.frames[c][i], p) = m.frames[c][i].tracked[p]
      BY <2>4 DEF Holds, HeldAt
    <3>2. m.frames[c][i].tracked[p] \in Upvalues /\ m.frames[c][i].tracked[p] # None
      BY <2>3, ObjectsAssumption
    <3>3. QED BY <1>3, <3>1, <3>2
  <2>7. m.frames[c][i].closure # None => m.closures[m.frames[c][i].closure] # None BY <1>3, <2>5
  <2>8. QED BY <2>6, <2>7
<1>5. ASSUME NEW x \in Closures, NEW i \in DOMAIN UpsOf(m, x)
      PROVE  m.upvalues[UpsOf(m, x)[i]] # None
  <2>1. m.closures[x] # None /\ UpsOf(m, x) = m.closures[x].upvalues BY DEF UpsOf
  <2>2. x \in Live(m.closures) BY <1>0, <2>1, MachineIs DEF Live, Free, ClosureHeap
  <2>3. UpsOf(m, x) \in Seq(Upvalues) /\ Len(UpsOf(m, x)) <= MaxCaptures /\ MaxCaptures \in Nat
    BY <1>0, <2>1, <2>2, UpsAre, LimitsAssumption DEF Bounded
  <2>4. i \in 1 .. MaxCaptures /\ UpsOf(m, x)[i] \in Upvalues BY <2>3
  <2>5. <<x, i>> \in HeldByClosures(m, UpsOf(m, x)[i]) BY <2>1, <2>2, <2>4 DEF HeldByClosures
  <2>6. QED BY <1>1, <2>4, <2>5 DEF Objects
<1>6. ASSUME NEW u \in Upvalues, m.upvalues[u] # None, ~m.upvalues[u].open, m.upvalues[u].v \in Closures
      PROVE  m.closures[m.upvalues[u].v] # None
  <2>1. u \in HeldByBoxes(m, m.upvalues[u].v) BY <1>0, <1>6, BoxesAre DEF Boxed
  <2>2. QED BY <1>1, <1>6, <2>1 DEF Objects
<1>7. QED BY <1>2, <1>4, <1>5, <1>6

\* The values of the same stack, and the same frames and closures.
SameOutside(m, n) ==
    /\ n.frames = m.frames /\ n.status = m.status /\ n.kept = m.kept /\ n.freed = m.freed
    /\ \A x \in Closures : SameClosure(m, n, x)

\* lstf_vm_value_uplift() of a captured place: the up-value that its frame tracks is closed.
LEMMA UpliftCaptured ==
  ASSUME NEW m, NEW h \in Hands, Sound(m, h), \A o \in Objects : h[o] >= 0,
         NEW c \in Coroutines, m.frames[c] # <<>>, Len(m.values[c]) > Frame(m, c).offset,
         m.values[c][Len(m.values[c])].captured,
         NEW n, n = Uplift(m, c)
  PROVE  /\ Sound(n, h) /\ SameOutside(m, n)
         /\ \A d \in Coroutines \ {c} : n.values[d] = m.values[d]
         /\ Len(n.values[c]) = Len(m.values[c])
         /\ n.values[c][Len(m.values[c])].v = m.values[c][Len(m.values[c])].v
         /\ ~n.values[c][Len(m.values[c])].captured
         /\ \A q \in 1 .. Len(m.values[c]) : q # Len(m.values[c]) => n.values[c][q] = m.values[c][q]
<1> DEFINE L == Len(m.values[c])
           f == Frame(m, c)
           v == m.values[c][L].v
<1>1. m \in MachineType /\ Typed(m) /\ Counted(m, h) /\ Stacked(m) /\ Tracking(m) /\ Valued(m)
  BY DEF Sound, Typed
<1>2. L \in Nat /\ f.offset \in Nat
  <2>1. Len(m.frames[c]) # 0 /\ f = m.frames[c][Len(m.frames[c])] /\ Len(m.frames[c]) \in Nat
    BY <1>1, FramesAre DEF Frame, Last
  <2>2. f \in FrameType BY <1>1, <2>1, FramesAre
  <2>3. QED BY <1>1, <2>2, ValsAre DEF FrameType
<1>3. L \in 1 .. L /\ L \in DOMAIN m.values[c] /\ v \in Value
  <2>1. L \in 1 .. L BY <1>2
  <2>2. QED BY <1>1, <2>1, ValsAre
<1>4. PICK u \in Upvalues : Tracks(m, c, L, u) /\ Aliases(m, u, c, L) BY <1>1, <1>3 DEF Tracking
<1>5. L \in DOMAIN f.tracked /\ f.tracked[L] = u BY <1>1, <1>2, <1>4, OneOwner
<1>6. m.upvalues[u] # None /\ m.upvalues[u].open /\ m.upvalues[u].cr = c /\ m.upvalues[u].at = L
  BY <1>4 DEF Aliases
<1> DEFINE r == [open |-> FALSE, refs |-> m.upvalues[u].refs, v |-> v]
           a == [m EXCEPT !.upvalues[u] = r]
           b == [a EXCEPT !.values[c][L].captured = FALSE]
<1>7. n = Ref(b, v) BY <1>5 DEF Uplift
<1>8. r \in BoxedValue /\ r.v = v /\ ~r.open /\ r.refs = m.upvalues[u].refs
  BY <1>1, <1>3, <1>6, UpvalueIs DEF BoxedValue
<1> HIDE DEF r
<1>9. /\ a \in MachineType /\ a.upvalues[u] = r
      /\ \A w \in Upvalues \ {u} : a.upvalues[w] = m.upvalues[w]
      /\ a.values = m.values /\ a.frames = m.frames /\ a.closures = m.closures
      /\ a.status = m.status /\ a.variable = m.variable /\ a.kept = m.kept /\ a.freed = m.freed
  <2>1. r \in AnyUpvalue BY <1>8 DEF AnyUpvalue
  <2>4. m \in MachineType BY <1>1
  <2> HIDE DEF a
  <2>2. a = SetUpvalue(m, u, r) BY DEF a, SetUpvalue
  <2>3. a \in MachineType /\ a.upvalues[u] = r /\ OnlyUpvalueOf(m, a, u)
    BY <2>1, <2>2, <2>4, WithUpvalue
  <2>5. QED BY <2>3 DEF OnlyUpvalueOf
<1> HIDE DEF a
<1>10. b \in MachineType /\ Uncaptured(a, b, c, L) /\ \A d \in Coroutines : Vals(b, d) = Vals(a, d)
  <2>1. L \in 1 .. Len(a.values[c]) BY <1>3, <1>9
  <2> HIDE DEF b, L
  <2>2. b = [a EXCEPT !.values[c][L].captured = FALSE] BY DEF b
  <2>3. a \in MachineType BY <1>9
  <2>4. QED BY <2>1, <2>2, <2>3, UncapturedIs
<1> HIDE DEF b
<1>11. /\ b.upvalues[u] = r /\ \A w \in Upvalues \ {u} : b.upvalues[w] = m.upvalues[w]
       /\ b.frames = m.frames /\ b.closures = m.closures
       /\ b.status = m.status /\ b.variable = m.variable /\ b.kept = m.kept /\ b.freed = m.freed
  BY <1>9, <1>10 DEF Uncaptured, OnlyPlacesOf
<1>12. /\ \A d \in Coroutines \ {c} : b.values[d] = m.values[d]
       /\ Len(b.values[c]) = L /\ b.values[c][L].v = v /\ ~b.values[c][L].captured
       /\ \A q \in 1 .. L : q # L => b.values[c][q] = m.values[c][q]
  BY <1>9, <1>10 DEF Uncaptured, OnlyPlacesOf
<1>13. \A d \in Coroutines : Vals(b, d) = Vals(m, d) BY <1>9, <1>10 DEF Vals
<1>14. Typed(b) /\ Stacked(b)
  <2>1. \A d \in Coroutines : Len(b.values[d]) = Len(m.values[d]) BY <1>12
  <2>2. \A d \in Coroutines : m.values[d] = <<>> => b.values[d] = <<>> BY <1>3, <1>12
  <2>3. Typed(b) BY <1>1, <1>10, <1>11, <2>1 DEF Typed, Bounded
  <2>4. QED BY <1>1, <1>11, <2>1, <2>2, <2>3 DEF Stacked
<1> DEFINE k == [o \in Objects |-> h[o] - Occurrences(<<v>>, o)]
<1>15. \A o : Occurrences(<<v>>, o) = IF o = v THEN 1 ELSE 0 BY OccurrencesOne
<1>16. k \in Hands BY <1>15 DEF Hands
<1>17. Counted(b, k)
  <2>1. ASSUME NEW o \in Objects
        PROVE  Refs(b, o) = Holders(b, o) + Keeps(b, o) + k[o] /\ (Heap(b, o)[o] # None => Refs(b, o) >= 1)
    <3>1. HeldByPlaces(b, o) = HeldByPlaces(m, o) BY <1>13, SameStacks
    <3>2. HeldByFrames(b, o) = HeldByFrames(m, o) /\ HeldByClosures(b, o) = HeldByClosures(m, o)
      BY <1>11 DEF HeldByFrames, HeldByClosures
    <3>3. ~Boxed(m, u, o) /\ (Boxed(b, u, o) <=> o = v)
      BY <1>6, <1>8, <1>11, NoneAssumption DEF Boxed
    <3>4. \A w \in Upvalues \ {u} : Boxed(b, w, o) <=> Boxed(m, w, o) BY <1>11 DEF Boxed
    <3>5. Cardinality(HeldByBoxes(b, o)) + (IF Boxed(m, u, o) THEN 1 ELSE 0)
            = Cardinality(HeldByBoxes(m, o)) + (IF Boxed(b, u, o) THEN 1 ELSE 0)
      BY <1>1, <1>10, <3>4, OneBox
    <3>6. Cardinality(HeldByBoxes(b, o)) \in Nat /\ Cardinality(HeldByBoxes(m, o)) \in Nat
      BY <1>1, <1>10, HoldersAre
    <3>7. Cardinality(HeldByBoxes(b, o)) = Cardinality(HeldByBoxes(m, o)) + Occurrences(<<v>>, o)
      BY <1>15, <3>3, <3>5, <3>6
    <3>8. /\ Cardinality(HeldByPlaces(m, o)) \in Nat /\ Cardinality(HeldByFrames(m, o)) \in Nat
          /\ Cardinality(HeldByClosures(m, o)) \in Nat
      BY <1>1, HoldersAre
    <3>9. Holders(b, o) = Holders(m, o) + Occurrences(<<v>>, o)
      <4>1. Occurrences(<<v>>, o) \in Nat BY <1>15
      <4>2. Holders(b, o) = Cardinality(HeldByPlaces(m, o)) + Cardinality(HeldByBoxes(b, o))
                            + Cardinality(HeldByFrames(m, o)) + Cardinality(HeldByClosures(m, o))
        BY <3>1, <3>2 DEF Holders
      <4>3. QED BY <3>6, <3>7, <3>8, <4>1, <4>2 DEF Holders
    <3>10. Keeps(b, o) = Keeps(m, o) BY <1>11 DEF Keeps
    <3>11. Refs(b, o) = Refs(m, o) /\ (Heap(b, o)[o] # None <=> Heap(m, o)[o] # None)
      <4>1. CASE o \in Closures BY <1>11, <4>1 DEF Refs, Heap
      <4>2. CASE o \in Upvalues
        <5>1. r # None BY <1>8, NoneAssumption
        <5>2. QED BY <1>1, <1>6, <1>8, <1>10, <1>11, <4>2, <5>1, RefsAre
      <4>3. QED BY <4>1, <4>2 DEF Objects
    <3>12. /\ Refs(m, o) = Holders(m, o) + Keeps(m, o) + h[o] /\ h[o] \in Int
           /\ Heap(m, o)[o] # None => Refs(m, o) >= 1
      BY <1>1 DEF Counted, Hands
    <3>13. Keeps(m, o) \in Nat /\ Holders(m, o) \in Nat BY <1>1, RefsAre
    <3>14. k[o] = h[o] - Occurrences(<<v>>, o) /\ Occurrences(<<v>>, o) \in Nat BY <1>15
    <3>15. Refs(b, o) = Holders(b, o) + Keeps(b, o) + k[o]
      BY <3>9, <3>10, <3>11, <3>12, <3>13, <3>14
    <3>16. QED BY <3>11, <3>12, <3>15
  <2>2. QED BY <2>1 DEF Counted
<1>18. Tracking(b)
  <2>1. \A d, p, w : Tracks(b, d, p, w) <=> Tracks(m, d, p, w) BY <1>11 DEF Tracks, Owns
  <2>2. ASSUME NEW w \in Upvalues, NEW d \in Coroutines, NEW p \in Nat, Aliases(b, w, d, p)
        PROVE  p \in DOMAIN b.values[d] /\ b.values[d][p].captured /\ Tracks(b, d, p, w)
    <3>1. w # u /\ Aliases(m, w, d, p) BY <1>8, <1>11, <2>2 DEF Aliases
    <3>2. p \in DOMAIN m.values[d] /\ m.values[d][p].captured /\ Tracks(m, d, p, w)
      BY <1>1, <3>1 DEF Tracking
    <3>3. d # c \/ p # L BY <1>1, <1>4, <3>1, <3>2, OneOwner
    <3>4. p \in DOMAIN b.values[d] /\ b.values[d][p] = m.values[d][p]
      <4>1. CASE d = c
        <5>1. p \in 1 .. L /\ p # L BY <1>1, <3>2, <3>3, <4>1, ValsAre
        <5>2. p \in DOMAIN b.values[c] BY <1>10, <1>12, <5>1, ValsAre
        <5>3. QED BY <1>12, <4>1, <5>1, <5>2
      <4>2. CASE d # c BY <1>12, <3>2, <4>2
      <4>3. QED BY <4>1, <4>2
    <3>5. QED BY <2>1, <3>2, <3>4
  <2>3. ASSUME NEW d \in Coroutines, NEW p \in DOMAIN b.values[d], b.values[d][p].captured
        PROVE  \E w \in Upvalues : Tracks(b, d, p, w) /\ Aliases(b, w, d, p)
    <3>1. p \in DOMAIN m.values[d] /\ m.values[d][p].captured /\ (d # c \/ p # L)
      <4>1. CASE d = c
        <5>1. p \in 1 .. L /\ p # L BY <1>10, <1>12, <2>3, <4>1, ValsAre
        <5>2. p \in DOMAIN m.values[c] BY <1>1, <5>1, ValsAre
        <5>3. QED BY <1>12, <2>3, <4>1, <5>1, <5>2
      <4>2. CASE d # c BY <1>12, <2>3, <4>2
      <4>3. QED BY <4>1, <4>2
    <3>2. PICK w \in Upvalues : Tracks(m, d, p, w) /\ Aliases(m, w, d, p) BY <1>1, <3>1 DEF Tracking
    <3>3. w # u BY <1>6, <3>1, <3>2 DEF Aliases
    <3>4. Aliases(b, w, d, p) BY <1>11, <3>2, <3>3 DEF Aliases
    <3>5. QED BY <2>1, <3>2, <3>4
  <2>4. QED BY <2>2, <2>3 DEF Tracking
<1>19. Valued(b)
  <2>1. SUFFICES ASSUME NEW w \in Live(b.upvalues) PROVE ValueOf(b, w) = b.variable[w] BY DEF Valued
  <2>2. w \in Upvalues /\ b.upvalues[w] # None BY <1>10, MachineIs DEF Live, Free, UpvalueHeap
  <2>3. w \in Live(m.upvalues) BY <1>1, <1>6, <1>11, <2>2, MachineIs DEF Live, Free, UpvalueHeap
  <2>4. ValueOf(m, w) = m.variable[w] BY <1>1, <2>3 DEF Valued
  <2>5. CASE w = u BY <1>6, <1>8, <1>11, <2>4, <2>5 DEF ValueOf
  <2>6. CASE w # u /\ m.upvalues[w].open
    <3> DEFINE d == m.upvalues[w].cr
               p == m.upvalues[w].at
    <3>1. d \in Coroutines /\ p \in Nat /\ Aliases(m, w, d, p)
      BY <1>1, <1>11, <2>2, <2>6, UpvalueIs DEF Aliases
    <3>2. p \in DOMAIN m.values[d] BY <1>1, <2>2, <3>1 DEF Tracking
    <3>3. m.values[d][p].v = b.values[d][p].v BY <1>1, <1>12, <3>1, <3>2, ValsAre
    <3>4. QED BY <1>11, <2>2, <2>4, <2>6, <3>3 DEF ValueOf
  <2>7. CASE w # u /\ ~m.upvalues[w].open BY <1>11, <2>2, <2>4, <2>7 DEF ValueOf
  <2>8. QED BY <2>5, <2>6, <2>7
<1>20. /\ n \in MachineType /\ SameHeap(b, n)
       /\ n.values = b.values /\ n.frames = b.frames /\ n.status = b.status
       /\ n.variable = b.variable /\ n.kept = b.kept /\ n.freed = b.freed
  <2> DEFINE xs == <<v>>
  <2>1. xs \in Seq(Value) BY <1>3
  <2>2. n = RefAll(b, xs) BY <1>7 DEF Ref
  <2>3. b \in MachineType BY <1>10
  <2> HIDE DEF v, xs
  <2>4. QED BY <2>1, <2>2, <2>3, RefAllIs
<1>21. Counted(n, h)
  <2>1. <<v>> \in Seq(Value) BY <1>3
  <2>2. n = RefAll(b, <<v>>) BY <1>7 DEF Ref
  <2>3. ASSUME NEW o \in Objects, o \in ToSet(<<v>>) PROVE Heap(b, o)[o] # None
    <3>1. o = v BY <1>3, <2>3, SingleElems
    <3>2. o \in Closures BY <1>3, <3>1, ObjectsAssumption DEF Objects, Value
    <3>3. m.closures[o] # None BY <1>1, <1>3, <3>1, <3>2, HeldIsLive
    <3>4. QED BY <1>11, <3>2, <3>3 DEF Heap
  <2>4. \A o \in Objects : h[o] = k[o] + Occurrences(<<v>>, o) BY <1>15 DEF Hands
  <2> HIDE DEF k
  <2>5. QED BY <1>14, <1>16, <1>17, <2>1, <2>2, <2>3, <2>4, RefAllCounts
<1>22. Sound(n, h) BY <1>14, <1>18, <1>19, <1>20, <1>21, SameHeapKeeps DEF Sound
<1>23. SameOutside(m, n) BY <1>11, <1>20 DEF SameOutside, SameHeap, SameClosure, UpsOf
<1>24. QED BY <1>12, <1>20, <1>22, <1>23

\* lstf_vm_value_uplift().
LEMMA UpliftSound ==
  ASSUME NEW m, NEW h \in Hands, Sound(m, h), \A o \in Objects : h[o] >= 0,
         NEW c \in Coroutines, m.frames[c] # <<>>, Len(m.values[c]) > Frame(m, c).offset,
         NEW n, n = Uplift(m, c)
  PROVE  /\ Sound(n, h) /\ SameOutside(m, n)
         /\ \A d \in Coroutines \ {c} : n.values[d] = m.values[d]
         /\ Len(n.values[c]) = Len(m.values[c])
         /\ n.values[c][Len(m.values[c])].v = m.values[c][Len(m.values[c])].v
         /\ ~n.values[c][Len(m.values[c])].captured
         /\ \A q \in 1 .. Len(m.values[c]) : q # Len(m.values[c]) => n.values[c][q] = m.values[c][q]
<1>1. CASE m.values[c][Len(m.values[c])].captured BY <1>1, UpliftCaptured
<1>2. CASE ~m.values[c][Len(m.values[c])].captured
  <2>1. n = m BY <1>2 DEF Uplift
  <2>2. SameOutside(m, m) BY DEF SameOutside, SameClosure
  <2>3. QED BY <1>2, <2>1, <2>2
<1>3. QED BY <1>1, <1>2

\* The frame on top is the one with the highest offset.
LEMMA TopFrame ==
  ASSUME NEW m \in MachineType, NEW c \in Coroutines, m.frames[c] # <<>>
  PROVE  /\ Len(m.frames[c]) \in Nat \ {0} /\ Len(m.frames[c]) \in DOMAIN m.frames[c]
         /\ Frame(m, c) = m.frames[c][Len(m.frames[c])] /\ Frame(m, c) \in FrameType
         /\ Frame(m, c).offset \in Nat /\ Frame(m, c).parameters \in Nat /\ Frame(m, c).due \in Nat
         /\ Stacked(m) => /\ \A i \in DOMAIN m.frames[c] : m.frames[c][i].offset <= Frame(m, c).offset
                          /\ Frame(m, c).offset <= Len(m.values[c])
<1> DEFINE L == Len(m.frames[c])
<1>1. m.frames[c] \in Seq(FrameType) BY FramesAre
<1>2. /\ L \in Nat \ {0} /\ L \in DOMAIN m.frames[c] /\ DOMAIN m.frames[c] = 1 .. L
      /\ Frame(m, c) = m.frames[c][L] /\ Frame(m, c) \in FrameType
  BY <1>1 DEF Frame, Last
<1>3. Frame(m, c).offset \in Nat /\ Frame(m, c).parameters \in Nat /\ Frame(m, c).due \in Nat
  BY <1>2 DEF FrameType
<1>4. ASSUME Stacked(m)
      PROVE  /\ \A i \in DOMAIN m.frames[c] : m.frames[c][i].offset <= Frame(m, c).offset
             /\ Frame(m, c).offset <= Len(m.values[c])
  <2>1. Frame(m, c).offset <= Len(m.values[c]) BY <1>2, <1>4 DEF Stacked
  <2>2. ASSUME NEW i \in DOMAIN m.frames[c] PROVE m.frames[c][i].offset <= Frame(m, c).offset
    <3>1. m.frames[c][i].offset \in Nat BY <1>2, FramesAre DEF FrameType
    <3>2. CASE i = L BY <1>2, <1>3, <3>2
    <3>3. CASE i < L
      <4>1. m.frames[c][i].offset + Frame(m, c).due <= Frame(m, c).offset
        BY <1>2, <1>4, <3>3 DEF Stacked
      <4>2. QED BY <1>3, <3>1, <4>1
    <3>4. QED BY <1>2, <3>2, <3>3
  <2>3. QED BY <2>1, <2>2
<1>5. QED BY <1>2, <1>3, <1>4

\* The place on top is gone, and no closure has other up-values.
Popped(m, n, c) ==
    /\ SameOutside(m, n)
    /\ \A d \in Coroutines \ {c} : n.values[d] = m.values[d]
    /\ Len(n.values[c]) = Len(m.values[c]) - 1
    /\ \A i \in 1 .. Len(n.values[c]) : n.values[c][i] = m.values[c][i]

\* lstf_vm_stack_pop_value(): the instruction owns the value on top.
LEMMA PopSound ==
  ASSUME NEW m, NEW h \in Hands, Sound(m, h), \A o \in Objects : h[o] >= 0, m.status = "continue",
         NEW c \in Coroutines, m.frames[c] # <<>>, Len(m.values[c]) > Frame(m, c).offset,
         NEW n, n = Pop(m, c),
         NEW k \in Hands, \A o \in Objects : k[o] = h[o] + Occurrences(<<Top(m, c)>>, o)
  PROVE  Sound(n, k) /\ Popped(m, n, c) /\ Top(m, c) \in Value
<1> DEFINE L == Len(m.values[c])
           l == Uplift(m, c)
           v == m.values[c][L].v
           vs == <<v>>
<1>1. m \in MachineType /\ Stacked(m) BY DEF Sound, Typed
<1>2. L \in Nat /\ Frame(m, c).offset \in Nat /\ L - 1 \in Nat /\ L \in 1 .. L
  BY <1>1, TopFrame, ValsAre
<1>3. m.values[c] \in Seq(Slot) /\ v \in Value BY <1>1, <1>2, ValsAre
<1>4. v = Top(m, c) BY <1>3 DEF Top, Last
<1>5. /\ Sound(l, h) /\ SameOutside(m, l)
      /\ \A d \in Coroutines \ {c} : l.values[d] = m.values[d]
      /\ Len(l.values[c]) = L /\ l.values[c][L].v = v /\ ~l.values[c][L].captured
      /\ \A q \in 1 .. L : q # L => l.values[c][q] = m.values[c][q]
  <2> HIDE DEF l
  <2>1. l = Uplift(m, c) BY DEF l
  <2>2. QED BY <2>1, UpliftSound
<1>6. n = [l EXCEPT !.values[c] = Front(@)] BY <1>5 DEF Pop, Ok, SameOutside
<1> HIDE DEF l, v
<1>7. l \in MachineType BY <1>5 DEF Sound, Typed
<1>8. n = [l EXCEPT !.values[c] = SubSeq(@, 1, L - 1)] BY <1>5, <1>6 DEF Front
<1>9. vs \in Seq(Value) /\ Len(vs) = 1 BY <1>3
<1>10. \A j \in 1 .. Len(vs) : l.values[c][(L - 1) + j].v = vs[j] /\ ~l.values[c][(L - 1) + j].captured
  <2>1. vs[1] = v /\ (L - 1) + 1 = L BY <1>2
  <2>2. QED BY <1>5, <1>9, <2>1
<1> HIDE DEF vs
<1>11. n \in MachineType /\ OnlyPlacesOf(l, n, c) /\ Laid(n, l, c, vs) /\ Len(n.values[c]) = L - 1
  <2> DEFINE K == L - 1
  <2>1. K \in 0 .. Len(l.values[c]) BY <1>2, <1>5, <1>9
  <2>a. Len(l.values[c]) = K + Len(vs) BY <1>2, <1>5, <1>9
  <2>2. n = Cut(l, c, K) BY <1>8 DEF Cut
  <2>3. \A j \in 1 .. Len(vs) : l.values[c][K + j].v = vs[j] /\ ~l.values[c][K + j].captured
    BY <1>10
  <2>4. vs \in Seq(Value) BY <1>9
  <2> HIDE DEF K
  <2>5. n \in MachineType /\ OnlyPlacesOf(l, n, c) /\ Laid(n, l, c, vs) /\ Len(n.values[c]) = K
    BY <1>7, <2>1, <2>a, <2>2, <2>3, <2>4, CutIs
  <2>6. QED BY <2>5 DEF K
<1>12. \A i \in DOMAIN l.frames[c] : l.frames[c][i].offset <= Len(n.values[c])
  <2>1. l.frames = m.frames BY <1>5 DEF SameOutside
  <2>2. ASSUME NEW i \in DOMAIN m.frames[c] PROVE m.frames[c][i].offset <= L - 1
    <3>1. m.frames[c][i].offset \in Nat BY <1>1, FramesAre DEF FrameType
    <3>2. m.frames[c][i].offset <= Frame(m, c).offset BY <1>1, TopFrame
    <3>3. QED BY <1>2, <3>1, <3>2
  <2>3. QED BY <1>11, <2>1, <2>2
<1>13. Sound(n, k)
  <2>1. \A o \in Objects : k[o] = h[o] + Occurrences(vs, o) BY <1>4 DEF vs
  <2>2. vs \in Seq(Value) /\ Sound(l, h) BY <1>5, <1>9
  <2>3. n \in MachineType /\ OnlyPlacesOf(l, n, c) /\ Laid(n, l, c, vs) BY <1>11
  <2>4. QED BY <1>12, <2>1, <2>2, <2>3, CutSound
<1>14. Popped(m, n, c)
  <2>1. SameOutside(m, n) BY <1>5, <1>11 DEF SameOutside, OnlyPlacesOf, SameClosure, UpsOf
  <2>2. \A d \in Coroutines \ {c} : n.values[d] = m.values[d] BY <1>5, <1>11 DEF OnlyPlacesOf
  <2>3. ASSUME NEW i \in 1 .. L - 1 PROVE n.values[c][i] = m.values[c][i]
    <3>1. i \in 1 .. L /\ i # L BY <1>2
    <3>2. l.values[c][i] = m.values[c][i] BY <1>5, <3>1
    <3>3. n.values[c][i] = l.values[c][i] BY <1>11 DEF Laid
    <3>4. QED BY <3>2, <3>3
  <2>4. QED BY <1>11, <2>1, <2>2, <2>3 DEF Popped
<1>15. QED BY <1>3, <1>4, <1>13, <1>14

----------------------------------------------------------------------------
(* Dropping references.                                                    *)

Things == Value \cup Upvalues \cup {None}

\* Another closure in the heap.
SetClosure(m, x, r) == [m EXCEPT !.closures[x] = r]
OnlyClosure(m, n, x) ==
    /\ \A y \in Closures \ {x} : n.closures[y] = m.closures[y]
    /\ n.values = m.values /\ n.frames = m.frames /\ n.upvalues = m.upvalues
    /\ n.status = m.status /\ n.variable = m.variable /\ n.kept = m.kept /\ n.freed = m.freed
AnyClosure == Closure \cup {None}

\* Setting one closure leaves the others alone.
LEMMA WithClosure ==
  ASSUME NEW m \in MachineType, NEW x \in Closures, NEW r \in AnyClosure,
         NEW n, n = SetClosure(m, x, r)
  PROVE  n \in MachineType /\ n.closures[x] = r /\ OnlyClosure(m, n, x)
<1> DEFINE new == [m.closures EXCEPT ![x] = r]
<1>1. m.closures \in ClosureHeap BY MachineIs
<1>2. new \in ClosureHeap BY <1>1 DEF ClosureHeap, AnyClosure
<1>3. new[x] = r /\ \A y \in Closures \ {x} : new[y] = m.closures[y] BY <1>1 DEF ClosureHeap
<1>4. n = [m EXCEPT !.closures = new] BY DEF SetClosure
<1> HIDE DEF new
<1>5. /\ n \in MachineType /\ n.closures = new
      /\ n.values = m.values /\ n.frames = m.frames /\ n.upvalues = m.upvalues
      /\ n.status = m.status /\ n.variable = m.variable /\ n.kept = m.kept /\ n.freed = m.freed
  BY <1>2, <1>4 DEF MachineType
<1>6. QED BY <1>3, <1>5 DEF OnlyClosure

\* What a machine keeps while references are dropped from it.
Swept(m, n) ==
    /\ n.frames = m.frames /\ n.status = m.status /\ n.kept = m.kept /\ n.freed = m.freed
    /\ \A c \in Coroutines : Vals(n, c) = Vals(m, c)
    /\ Tracking(m) /\ Valued(m) => Tracking(n) /\ Valued(n)

\* what may still be freed: a closure drops the references to what it captured, an up-value one
Budget(m) == Cardinality(Live(m.closures)) * MaxCaptures + Cardinality(Live(m.upvalues))

\* What is allocated is a finite set.
LEMMA LiveAre ==
  ASSUME NEW m \in MachineType
  PROVE  /\ Live(m.closures) = {x \in Closures : m.closures[x] # None}
         /\ Live(m.upvalues) = {u \in Upvalues : m.upvalues[u] # None}
         /\ IsFiniteSet(Live(m.closures)) /\ IsFiniteSet(Live(m.upvalues))
         /\ Cardinality(Live(m.closures)) \in Nat /\ Cardinality(Live(m.upvalues)) \in Nat
<1>1. /\ Live(m.closures) = {x \in Closures : m.closures[x] # None}
      /\ Live(m.upvalues) = {u \in Upvalues : m.upvalues[u] # None}
  BY MachineIs DEF Live, Free, ClosureHeap, UpvalueHeap
<1>2. Live(m.closures) \in SUBSET Closures /\ Live(m.upvalues) \in SUBSET Upvalues BY <1>1
<1>3. IsFiniteSet(Live(m.closures)) BY <1>2, ObjectsAssumption, FS_Subset
<1>4. IsFiniteSet(Live(m.upvalues)) BY <1>2, ObjectsAssumption, FS_Subset
<1>5. QED BY <1>1, <1>3, <1>4, FS_CardinalityType

\* The reference to x is dropped, and those in ys are in hand instead.
Drops(m, n, x, ys) ==
    \A o \in Objects :
        /\ Refs(n, o) = Refs(m, o) - Occurrences(<<x>>, o)
        /\ Holders(n, o) + Occurrences(ys, o) = Holders(m, o)
        /\ Keeps(n, o) = Keeps(m, o)
        /\ Heap(n, o)[o] # None => Heap(m, o)[o] # None /\ Refs(n, o) >= 1

\* Dropping x from the hands, for ys, keeps the counts right.
LEMMA DropsCount ==
  ASSUME NEW m \in MachineType, NEW n \in MachineType, NEW k \in Hands, Counted(m, k),
         NEW x, NEW ys \in Seq(Things), Drops(m, n, x, ys),
         NEW l \in Hands, \A o \in Objects : l[o] = (k[o] - Occurrences(<<x>>, o)) + Occurrences(ys, o)
  PROVE  Counted(n, l)
<1>1. ASSUME NEW o \in Objects
      PROVE  Refs(n, o) = Holders(n, o) + Keeps(n, o) + l[o] /\ (Heap(n, o)[o] # None => Refs(n, o) >= 1)
  <2>1. /\ Refs(n, o) = Refs(m, o) - Occurrences(<<x>>, o)
        /\ Holders(n, o) + Occurrences(ys, o) = Holders(m, o)
        /\ Keeps(n, o) = Keeps(m, o)
        /\ Heap(n, o)[o] # None => Refs(n, o) >= 1
    BY DEF Drops
  <2>2. Refs(m, o) = Holders(m, o) + Keeps(m, o) + k[o] /\ k[o] \in Int BY DEF Counted, Hands
  <2>3. l[o] = (k[o] - Occurrences(<<x>>, o)) + Occurrences(ys, o) OBVIOUS
  <2>4. Occurrences(ys, o) \in Nat BY OccurrencesIs
  <2>5. Occurrences(<<x>>, o) \in Nat BY OccurrencesOne
  <2>6. Keeps(m, o) \in Nat /\ Holders(m, o) \in Nat /\ Holders(n, o) \in Nat BY RefsAre
  <2>7. Refs(n, o) = Holders(n, o) + Keeps(n, o) + l[o] BY <2>1, <2>2, <2>3, <2>4, <2>5, <2>6
  <2>8. QED BY <2>1, <2>7
<1>2. QED BY <1>1 DEF Counted

\* What dropping the reference to x does, ys are to be dropped next.
DropsTo(m, n, x, ys) ==
    /\ Typed(n) /\ ys \in Seq(Things) /\ Drops(m, n, x, ys) /\ Swept(m, n)
    /\ Len(ys) + Budget(n) <= Budget(m)

\* The same heap but for counts: the same number of holders.
LEMMA SameHolders ==
  ASSUME NEW m \in MachineType, NEW n \in MachineType, SameHeap(m, n),
         n.values = m.values, n.frames = m.frames, NEW o
  PROVE  Holders(n, o) = Holders(m, o)
<1>1. HeldByPlaces(n, o) = HeldByPlaces(m, o) BY DEF HeldByPlaces
<1>2. QED BY <1>1, SameHeapHolders, SameFrames DEF Holders

\* One reference of several to a closure or to an up-value.
LEMMA UnrefOne ==
  ASSUME NEW m, Typed(m), NEW x, NEW n \in MachineType, SameHeap(m, n),
         n.values = m.values, n.frames = m.frames, n.status = m.status,
         n.variable = m.variable, n.kept = m.kept, n.freed = m.freed,
         \A o \in Objects : Refs(n, o) = Refs(m, o) - Occurrences(<<x>>, o),
         \A o \in Objects : Heap(n, o)[o] # None => Refs(n, o) >= 1
  PROVE  DropsTo(m, n, x, <<>>)
<1>1. m \in MachineType BY DEF Typed
<1>2. Typed(n) /\ (Tracking(m) => Tracking(n)) /\ (Valued(m) => Valued(n)) BY SameHeapKeeps
<1>3. <<>> \in Seq(Things) /\ Len(<<>>) = 0 OBVIOUS
<1>4. Drops(m, n, x, <<>>)
  <2>1. ASSUME NEW o \in Objects
        PROVE  /\ Holders(n, o) + Occurrences(<<>>, o) = Holders(m, o)
               /\ Keeps(n, o) = Keeps(m, o)
               /\ Heap(n, o)[o] # None => Heap(m, o)[o] # None
    <3>1. Holders(n, o) = Holders(m, o) /\ Holders(m, o) \in Nat /\ Occurrences(<<>>, o) = 0
      BY <1>1, SameHolders, HoldersAre, OccurrencesNone
    <3>2. Heap(n, o)[o] # None => Heap(m, o)[o] # None
      BY <1>1, RefsAre DEF SameHeap, SameUpvalue, SameClosure, Objects
    <3>3. QED BY <3>1, <3>2 DEF Keeps
  <2>2. QED BY <2>1 DEF Drops
<1>5. Swept(m, n) BY <1>2 DEF Swept, Vals
<1>6. Budget(n) = Budget(m) /\ Budget(m) \in Nat
  <2>1. Live(n.closures) = Live(m.closures) /\ Live(n.upvalues) = Live(m.upvalues)
    BY <1>1, LiveAre DEF SameHeap, SameClosure, SameUpvalue
  <2>2. Cardinality(Live(m.closures)) \in Nat /\ Cardinality(Live(m.upvalues)) \in Nat /\ MaxCaptures \in Nat
    BY <1>1, LiveAre, LimitsAssumption
  <2>3. QED BY <2>1, <2>2 DEF Budget
<1>7. QED BY <1>2, <1>3, <1>4, <1>5, <1>6 DEF DropsTo

\* Nothing is allocated that nobody refers to.
Referred(m) == \A o \in Objects : Heap(m, o)[o] # None => Refs(m, o) >= 1

\* A closure that others hold as well loses a reference.
LEMMA UnrefClosure ==
  ASSUME NEW m, Typed(m), Referred(m), NEW x \in Closures, m.closures[x] # None, m.closures[x].refs > 1,
         NEW n, n = [m EXCEPT !.closures[x].refs = @ - 1]
  PROVE  DropsTo(m, n, x, <<>>)
<1>1. m \in MachineType BY DEF Typed
<1> DEFINE r == [m.closures[x] EXCEPT !.refs = @ - 1]
<1>2. m.closures[x] \in Closure BY <1>1, MachineIs DEF ClosureHeap
<1>3. r \in Closure /\ r.refs = m.closures[x].refs - 1 /\ r.refs >= 1 /\ r.upvalues = m.closures[x].upvalues
  BY <1>2 DEF Closure
<1>4. n = SetClosure(m, x, r) BY DEF SetClosure
<1> HIDE DEF r
<1>5. r \in AnyClosure /\ r # None BY <1>3, NoneAssumption DEF AnyClosure
<1>6. n \in MachineType /\ n.closures[x] = r /\ OnlyClosure(m, n, x)
  BY <1>1, <1>4, <1>5, WithClosure
<1>7. /\ n.values = m.values /\ n.frames = m.frames /\ n.status = m.status /\ n.upvalues = m.upvalues
      /\ n.variable = m.variable /\ n.kept = m.kept /\ n.freed = m.freed
      /\ \A y \in Closures \ {x} : n.closures[y] = m.closures[y]
  BY <1>6 DEF OnlyClosure
<1>8. SameHeap(m, n) BY <1>3, <1>5, <1>6, <1>7 DEF SameHeap, SameClosure, SameUpvalue, UpsOf
<1>9. ASSUME NEW o \in Objects
      PROVE  Refs(n, o) = Refs(m, o) - Occurrences(<<x>>, o) /\ (Heap(n, o)[o] # None => Refs(n, o) >= 1)
  <2>1. Occurrences(<<x>>, o) = IF o = x THEN 1 ELSE 0 BY OccurrencesOne
  <2>2. CASE o = x
    <3>1. Refs(m, x) = m.closures[x].refs BY <1>1, RefsAre DEF Objects
    <3>2. Refs(n, x) = r.refs BY <1>5, <1>6, RefsAre DEF Objects
    <3>3. m.closures[x].refs \in Nat BY <1>2 DEF Closure
    <3>4. Occurrences(<<x>>, o) = 1 /\ Refs(n, o) = r.refs /\ Refs(m, o) = m.closures[x].refs
      BY <2>1, <2>2, <3>1, <3>2
    <3>5. r.refs = m.closures[x].refs - 1 /\ r.refs >= 1 BY <1>3
    <3>6. Refs(n, o) = Refs(m, o) - Occurrences(<<x>>, o) /\ Refs(n, o) >= 1 BY <3>3, <3>4, <3>5
    <3>7. QED BY <3>6
  <2>3. CASE o # x
    <3>1. Refs(n, o) = Refs(m, o) /\ Heap(n, o)[o] = Heap(m, o)[o]
      BY <1>7, <2>3 DEF Refs, Heap, Objects
    <3>2. Refs(m, o) \in Nat /\ (Heap(m, o)[o] # None => Refs(m, o) >= 1)
      BY <1>1, RefsAre DEF Referred
    <3>3. QED BY <2>1, <2>3, <3>1, <3>2
  <2>4. QED BY <2>2, <2>3
<1>10. QED BY <1>6, <1>7, <1>8, <1>9, UnrefOne


\* One up-value that is counted once less.
OneLess(r) == [r EXCEPT !.refs = @ - 1]

\* An up-value with one reference less is the same otherwise.
LEMMA UncountedUpvalue ==
  ASSUME NEW r, r.refs > 1, NEW s, s = OneLess(r)
  PROVE  /\ r \in OpenUpvalue => /\ s \in OpenUpvalue /\ s.refs = r.refs - 1 /\ s.refs >= 1
                                 /\ s.open = r.open /\ s.cr = r.cr /\ s.at = r.at
         /\ r \in BoxedValue => /\ s \in BoxedValue /\ s.refs = r.refs - 1 /\ s.refs >= 1
                                /\ s.open = r.open /\ s.v = r.v
<1>1. ASSUME r \in OpenUpvalue
      PROVE  /\ s \in OpenUpvalue /\ s.refs = r.refs - 1 /\ s.refs >= 1
             /\ s.open = r.open /\ s.cr = r.cr /\ s.at = r.at
  <2>1. r.refs \in Nat /\ r.refs - 1 \in Nat /\ r.refs - 1 >= 1 BY <1>1 DEF OpenUpvalue
  <2>2. QED BY <1>1, <2>1 DEF OpenUpvalue, OneLess
<1>2. ASSUME r \in BoxedValue
      PROVE  /\ s \in BoxedValue /\ s.refs = r.refs - 1 /\ s.refs >= 1
             /\ s.open = r.open /\ s.v = r.v
  <2>1. r.refs \in Nat /\ r.refs - 1 \in Nat /\ r.refs - 1 >= 1 BY <1>2 DEF BoxedValue
  <2>2. QED BY <1>2, <2>1 DEF BoxedValue, OneLess
<1>3. QED BY <1>1, <1>2

\* An up-value that others hold as well loses a reference.
LEMMA UnrefUpvalue ==
  ASSUME NEW m, Typed(m), Referred(m), NEW u \in Upvalues, m.upvalues[u] # None, m.upvalues[u].refs > 1,
         NEW n, n = [m EXCEPT !.upvalues[u].refs = @ - 1]
  PROVE  DropsTo(m, n, u, <<>>)
<1>1. m \in MachineType BY DEF Typed
<1> DEFINE b == m.upvalues[u]
           r == OneLess(b)
<1>2. b \in OpenUpvalue \/ b \in BoxedValue BY <1>1, UpvalueIs
<1>4. n = SetUpvalue(m, u, r) BY DEF SetUpvalue, OneLess
<1>12. r = OneLess(b) OBVIOUS
<1>13. b.refs > 1 OBVIOUS
<1>14. b.refs \in Nat BY <1>1, UpvalueIs
<1>5. b = m.upvalues[u] OBVIOUS
<1> HIDE DEF r, b
<1>3. /\ r \in OpenUpvalue \cup BoxedValue /\ r.refs = b.refs - 1 /\ r.refs >= 1
      /\ r.open = b.open
      /\ b.open => r.cr = b.cr /\ r.at = b.at
      /\ ~b.open => r.v = b.v
  <2>1. CASE b \in OpenUpvalue
    <3>1. b.open BY <2>1 DEF OpenUpvalue
    <3>2. QED BY <1>12, <1>13, <2>1, <3>1, UncountedUpvalue
  <2>2. CASE b \in BoxedValue
    <3>1. ~b.open BY <2>2 DEF BoxedValue
    <3>2. QED BY <1>12, <1>13, <2>2, <3>1, UncountedUpvalue
  <2>3. QED BY <1>2, <2>1, <2>2
<1>6. r \in AnyUpvalue BY <1>3 DEF AnyUpvalue
<1>15. r # None BY <1>3, NoneAssumption
<1>7. n \in MachineType /\ n.upvalues[u] = r /\ OnlyUpvalueOf(m, n, u)
  BY <1>1, <1>4, <1>6, WithUpvalue
<1>8. /\ n.values = m.values /\ n.frames = m.frames /\ n.status = m.status /\ n.closures = m.closures
      /\ n.variable = m.variable /\ n.kept = m.kept /\ n.freed = m.freed
      /\ \A w \in Upvalues \ {u} : n.upvalues[w] = m.upvalues[w]
  BY <1>7 DEF OnlyUpvalueOf
<1>9. SameHeap(m, n)
  <2>1. SameUpvalue(m, n, u) BY <1>3, <1>5, <1>15, <1>7 DEF SameUpvalue
  <2>2. QED BY <1>8, <2>1 DEF SameHeap, SameClosure, SameUpvalue, UpsOf
<1>10. ASSUME NEW o \in Objects
       PROVE  Refs(n, o) = Refs(m, o) - Occurrences(<<u>>, o) /\ (Heap(n, o)[o] # None => Refs(n, o) >= 1)
  <2>1. Occurrences(<<u>>, o) = IF o = u THEN 1 ELSE 0 BY OccurrencesOne
  <2>2. CASE o = u
    <3>1. Refs(m, u) = b.refs BY <1>1, <1>5, RefsAre DEF Objects
    <3>2. Refs(n, u) = r.refs BY <1>15, <1>7, RefsAre DEF Objects
    <3>3. Occurrences(<<u>>, o) = 1 /\ Refs(n, o) = r.refs /\ Refs(m, o) = b.refs
      BY <2>1, <2>2, <3>1, <3>2
    <3>4. r.refs = b.refs - 1 /\ r.refs >= 1 BY <1>3
    <3>5. Refs(n, o) = Refs(m, o) - Occurrences(<<u>>, o) /\ Refs(n, o) >= 1 BY <1>14, <3>3, <3>4
    <3>6. QED BY <3>5
  <2>3. CASE o # u
    <3>1. Refs(n, o) = Refs(m, o) /\ Heap(n, o)[o] = Heap(m, o)[o]
      BY <1>8, <2>3 DEF Refs, Heap, Objects
    <3>2. Refs(m, o) \in Nat /\ (Heap(m, o)[o] # None => Refs(m, o) >= 1)
      BY <1>1, RefsAre DEF Referred
    <3>3. QED BY <2>1, <2>3, <3>1, <3>2
  <2>4. QED BY <2>2, <2>3
<1>11. QED BY <1>7, <1>8, <1>9, <1>10, UnrefOne

\* The last reference to a closure: those to its up-values are to be dropped.
LEMMA FreedClosure ==
  ASSUME NEW m, Typed(m), Referred(m), NEW x \in Closures, m.closures[x] # None, m.closures[x].refs <= 1,
         NEW n, n = [m EXCEPT !.closures[x] = None]
  PROVE  DropsTo(m, n, x, m.closures[x].upvalues)
<1> DEFINE ys == m.closures[x].upvalues
<1>1. m \in MachineType /\ Bounded(m) BY DEF Typed
<1>2. m.closures[x] \in Closure BY <1>1, MachineIs DEF ClosureHeap
<1>3. ys \in Seq(Upvalues) /\ ys = UpsOf(m, x) /\ ys \in Seq(Things)
  BY <1>2 DEF Closure, UpsOf, Things
<1>4. n = SetClosure(m, x, None) BY DEF SetClosure
<1>5. n \in MachineType /\ n.closures[x] = None /\ OnlyClosure(m, n, x)
  <2>1. None \in AnyClosure BY DEF AnyClosure
  <2>2. QED BY <1>1, <1>4, <2>1, WithClosure
<1>6. /\ n.values = m.values /\ n.frames = m.frames /\ n.status = m.status /\ n.upvalues = m.upvalues
      /\ n.variable = m.variable /\ n.kept = m.kept /\ n.freed = m.freed
      /\ \A y \in Closures \ {x} : n.closures[y] = m.closures[y]
  BY <1>5 DEF OnlyClosure
<1>7. /\ Live(m.closures) = {y \in Closures : m.closures[y] # None}
      /\ Live(n.closures) = Live(m.closures) \ {x} /\ x \in Live(m.closures)
  BY <1>1, <1>5, <1>6, LiveAre
<1>8. Typed(n) BY <1>1, <1>5, <1>6, <1>7 DEF Typed, Bounded
<1>9. Drops(m, n, x, ys)
  <2>1. ASSUME NEW o \in Objects
        PROVE  /\ Refs(n, o) = Refs(m, o) - Occurrences(<<x>>, o)
               /\ Holders(n, o) + Occurrences(ys, o) = Holders(m, o)
               /\ Keeps(n, o) = Keeps(m, o)
               /\ Heap(n, o)[o] # None => Heap(m, o)[o] # None /\ Refs(n, o) >= 1
    <3>1. Occurrences(<<x>>, o) = IF o = x THEN 1 ELSE 0 BY OccurrencesOne
    <3>2. Refs(m, o) \in Nat /\ Keeps(n, o) = Keeps(m, o) BY <1>1, <1>6, RefsAre DEF Keeps
    <3>3. /\ Refs(n, o) = Refs(m, o) - Occurrences(<<x>>, o)
          /\ Heap(n, o)[o] # None => Heap(m, o)[o] # None /\ Refs(n, o) >= 1
      <4>1. CASE o = x
        <5>1. Heap(n, x)[x] = None /\ Refs(n, x) = 0 BY <1>5, RefsAre DEF Objects
        <5>2. Refs(m, x) = m.closures[x].refs /\ Heap(m, x)[x] # None BY <1>1, RefsAre DEF Objects
        <5>3. Refs(m, x) >= 1 /\ Refs(m, x) \in Nat BY <1>1, <5>2, RefsAre DEF Referred, Objects
        <5>4. Refs(m, x) = 1 BY <5>2, <5>3
        <5>5. QED BY <3>1, <4>1, <5>1, <5>4
      <4>2. CASE o # x
        <5>1. Refs(n, o) = Refs(m, o) /\ Heap(n, o)[o] = Heap(m, o)[o]
          BY <1>6, <4>2 DEF Refs, Heap, Objects
        <5>2. QED BY <3>1, <3>2, <4>2, <5>1 DEF Referred
      <4>3. QED BY <4>1, <4>2
    <3>4. Cardinality(HeldByClosures(n, o)) + Occurrences(ys, o) = Cardinality(HeldByClosures(m, o))
      <4>1. \A y \in Closures \ {x} : UpsOf(n, y) = UpsOf(m, y) BY <1>6 DEF UpsOf
      <4>2. UpsOf(n, x) = <<>> BY <1>5 DEF UpsOf
      <4>3. Cardinality(HeldByClosures(n, o)) + Occurrences(UpsOf(m, x), o)
              = Cardinality(HeldByClosures(m, o)) + Occurrences(UpsOf(n, x), o)
        BY <1>8, <4>1, OneClosure
      <4>4. Occurrences(UpsOf(n, x), o) = 0 /\ Cardinality(HeldByClosures(m, o)) \in Nat
        BY <1>1, <4>2, OccurrencesNone, HoldersAre
      <4>5. QED BY <1>3, <4>3, <4>4
    <3>5. HeldByPlaces(n, o) = HeldByPlaces(m, o) /\ HeldByBoxes(n, o) = HeldByBoxes(m, o)
          /\ HeldByFrames(n, o) = HeldByFrames(m, o)
      BY <1>6 DEF HeldByPlaces, HeldByBoxes, HeldByFrames
    <3>6. Occurrences(ys, o) \in Nat BY <1>3, OccurrencesIs
    <3>7. /\ Cardinality(HeldByPlaces(m, o)) \in Nat /\ Cardinality(HeldByBoxes(m, o)) \in Nat
          /\ Cardinality(HeldByFrames(m, o)) \in Nat /\ Cardinality(HeldByClosures(n, o)) \in Nat
      BY <1>1, <1>5, HoldersAre
    <3>8. Holders(n, o) + Occurrences(ys, o) = Holders(m, o) BY <3>4, <3>5, <3>6, <3>7 DEF Holders
    <3>9. QED BY <3>2, <3>3, <3>8
  <2>2. QED BY <2>1 DEF Drops
<1>10. Swept(m, n)
  <2>1. Tracking(m) => Tracking(n) BY <1>6 DEF Tracking, Tracks, Owns, Aliases
  <2>2. Valued(m) => Valued(n) BY <1>6 DEF Valued, ValueOf
  <2>3. QED BY <1>6, <2>1, <2>2 DEF Swept, Vals
<1>11. Len(ys) + Budget(n) <= Budget(m)
  <2> DEFINE a == Cardinality(Live(m.closures))
             b == Cardinality(Live(n.closures))
             w == Cardinality(Live(m.upvalues))
  <2>1. a \in Nat /\ b \in Nat /\ w \in Nat /\ MaxCaptures \in Nat
    BY <1>1, <1>5, LiveAre, LimitsAssumption
  <2>2. a = b + 1
    <3>1. IsFiniteSet(Live(n.closures)) BY <1>5, LiveAre
    <3>2. Live(m.closures) = Live(n.closures) \cup {x} /\ x \notin Live(n.closures) BY <1>7
    <3>3. Cardinality(Live(n.closures) \cup {x}) = Cardinality(Live(n.closures)) + 1
      BY <3>1, <3>2, FS_AddElement
    <3>4. QED BY <3>2, <3>3
  <2>3. Len(ys) <= MaxCaptures /\ Len(ys) \in Nat BY <1>1, <1>3, <1>7 DEF Bounded
  <2>4. Budget(m) = a * MaxCaptures + w /\ Budget(n) = b * MaxCaptures + w BY <1>6 DEF Budget
  <2> HIDE DEF a, b, w, ys
  <2>5. a * MaxCaptures = b * MaxCaptures + MaxCaptures /\ b * MaxCaptures \in Nat BY <2>1, <2>2
  <2>6. QED BY <2>1, <2>3, <2>4, <2>5
<1>12. QED BY <1>3, <1>8, <1>9, <1>10, <1>11 DEF DropsTo

\* Machines that differ in an up-value that is no more.
OnlyFreed(m, n, u) ==
    /\ n.upvalues[u] = None
    /\ \A w \in Upvalues \ {u} : n.upvalues[w] = m.upvalues[w] /\ n.variable[w] = m.variable[w]
    /\ n.frames = m.frames /\ n.closures = m.closures
    /\ n.status = m.status /\ n.kept = m.kept /\ n.freed = m.freed

\* free(upvalue).
LEMMA FreeUpvalueIs ==
  ASSUME NEW m \in MachineType, NEW u \in Upvalues, NEW n, n = FreeUpvalue(m, u)
  PROVE  n \in MachineType /\ OnlyFreed(m, n, u) /\ n.values = m.values
<1> DEFINE us == [m.upvalues EXCEPT ![u] = None]
           vs == [m.variable EXCEPT ![u] = None]
           k == [m EXCEPT !.upvalues = us]
<1>1. m.upvalues \in UpvalueHeap /\ m.variable \in Variables BY MachineIs
<1>2. us \in UpvalueHeap /\ vs \in Variables BY <1>1 DEF UpvalueHeap, Variables
<1>3. us[u] = None /\ \A w \in Upvalues \ {u} : us[w] = m.upvalues[w] /\ vs[w] = m.variable[w]
  BY <1>1 DEF UpvalueHeap, Variables
<1>4. n = [k EXCEPT !.variable = vs] BY DEF FreeUpvalue, MachineType
<1> HIDE DEF us, vs
<1>5. k \in MachineType /\ k.upvalues = us
      /\ k.values = m.values /\ k.frames = m.frames /\ k.closures = m.closures
      /\ k.status = m.status /\ k.variable = m.variable /\ k.kept = m.kept /\ k.freed = m.freed
  BY <1>2 DEF MachineType
<1> HIDE DEF k
<1>6. n \in MachineType /\ n.variable = vs
      /\ n.values = k.values /\ n.frames = k.frames /\ n.closures = k.closures
      /\ n.status = k.status /\ n.upvalues = k.upvalues /\ n.kept = k.kept /\ n.freed = k.freed
  BY <1>2, <1>4, <1>5 DEF MachineType
<1>7. QED BY <1>3, <1>5, <1>6 DEF OnlyFreed

\* The last reference to an up-value: that to the value that it has is to be dropped.
LEMMA FreedUpvalue ==
  ASSUME NEW m, Typed(m), Referred(m), NEW u \in Upvalues, m.upvalues[u] # None, m.upvalues[u].refs <= 1,
         NEW n \in MachineType, OnlyFreed(m, n, u), \A c \in Coroutines : Vals(n, c) = Vals(m, c),
         \A c \in Coroutines : Len(n.values[c]) = Len(m.values[c]),
         NEW ys, ys = IF m.upvalues[u].open THEN <<>> ELSE <<m.upvalues[u].v>>
  PROVE  Typed(n) /\ ys \in Seq(Things) /\ Drops(m, n, u, ys) /\ Len(ys) + Budget(n) <= Budget(m)
<1>1. m \in MachineType /\ Bounded(m) BY DEF Typed
<1>2. /\ n.upvalues[u] = None
      /\ \A w \in Upvalues \ {u} : n.upvalues[w] = m.upvalues[w]
      /\ n.frames = m.frames /\ n.closures = m.closures /\ n.kept = m.kept
  BY DEF OnlyFreed
<1>3. Typed(n) BY <1>1, <1>2 DEF Typed, Bounded
<1>4. ys \in Seq(Things) /\ Len(ys) \in {0, 1}
  <2>1. ~m.upvalues[u].open => m.upvalues[u].v \in Things BY <1>1, UpvalueIs DEF Things
  <2>2. QED BY <2>1
<1>5. Drops(m, n, u, ys)
  <2>1. ASSUME NEW o \in Objects
        PROVE  /\ Refs(n, o) = Refs(m, o) - Occurrences(<<u>>, o)
               /\ Holders(n, o) + Occurrences(ys, o) = Holders(m, o)
               /\ Keeps(n, o) = Keeps(m, o)
               /\ Heap(n, o)[o] # None => Heap(m, o)[o] # None /\ Refs(n, o) >= 1
    <3>1. Occurrences(<<u>>, o) = IF o = u THEN 1 ELSE 0 BY OccurrencesOne
    <3>2. Refs(m, o) \in Nat /\ Keeps(n, o) = Keeps(m, o) BY <1>1, <1>2, RefsAre DEF Keeps
    <3>3. /\ Refs(n, o) = Refs(m, o) - Occurrences(<<u>>, o)
          /\ Heap(n, o)[o] # None => Heap(m, o)[o] # None /\ Refs(n, o) >= 1
      <4>1. CASE o = u
        <5>1. Heap(n, u)[u] = None /\ Refs(n, u) = 0 BY <1>2, RefsAre DEF Objects
        <5>2. Refs(m, u) = m.upvalues[u].refs /\ Heap(m, u)[u] # None BY <1>1, RefsAre DEF Objects
        <5>3. Refs(m, u) >= 1 /\ Refs(m, u) \in Nat BY <1>1, <5>2, RefsAre DEF Referred, Objects
        <5>4. Refs(m, u) = 1 BY <5>2, <5>3
        <5>5. QED BY <3>1, <4>1, <5>1, <5>4
      <4>2. CASE o # u
        <5>1. Refs(n, o) = Refs(m, o) /\ Heap(n, o)[o] = Heap(m, o)[o]
          BY <1>2, <4>2 DEF Refs, Heap, Objects
        <5>2. QED BY <3>1, <3>2, <4>2, <5>1 DEF Referred
      <4>3. QED BY <4>1, <4>2
    <3>4. Cardinality(HeldByBoxes(n, o)) + Occurrences(ys, o) = Cardinality(HeldByBoxes(m, o))
      <4>1. \A w \in Upvalues \ {u} : Boxed(n, w, o) <=> Boxed(m, w, o) BY <1>2 DEF Boxed
      <4>2. ~Boxed(n, u, o) BY <1>2 DEF Boxed
      <4>3. Cardinality(HeldByBoxes(n, o)) + (IF Boxed(m, u, o) THEN 1 ELSE 0)
              = Cardinality(HeldByBoxes(m, o)) + (IF Boxed(n, u, o) THEN 1 ELSE 0)
        BY <1>1, <4>1, OneBox
      <4>4. Occurrences(ys, o) = IF Boxed(m, u, o) THEN 1 ELSE 0
        <5>1. CASE m.upvalues[u].open BY <5>1, OccurrencesNone DEF Boxed
        <5>2. CASE ~m.upvalues[u].open
          <6>1. Occurrences(<<m.upvalues[u].v>>, o) = IF o = m.upvalues[u].v THEN 1 ELSE 0
            BY OccurrencesOne
          <6>2. QED BY <5>2, <6>1 DEF Boxed
        <5>3. QED BY <5>1, <5>2
      <4>5. Cardinality(HeldByBoxes(m, o)) \in Nat /\ Cardinality(HeldByBoxes(n, o)) \in Nat
        BY <1>1, HoldersAre
      <4>6. QED BY <4>2, <4>3, <4>4, <4>5
    <3>5. Cardinality(HeldByPlaces(n, o)) = Cardinality(HeldByPlaces(m, o)) BY SameStacks
    <3>6. HeldByClosures(n, o) = HeldByClosures(m, o) /\ HeldByFrames(n, o) = HeldByFrames(m, o)
      BY <1>2 DEF HeldByClosures, HeldByFrames
    <3>7. Occurrences(ys, o) \in Nat BY <1>4, OccurrencesIs
    <3>8. /\ Cardinality(HeldByPlaces(m, o)) \in Nat /\ Cardinality(HeldByBoxes(n, o)) \in Nat
          /\ Cardinality(HeldByFrames(m, o)) \in Nat /\ Cardinality(HeldByClosures(m, o)) \in Nat
      BY <1>1, HoldersAre
    <3>9. Holders(n, o) + Occurrences(ys, o) = Holders(m, o)
      BY <3>4, <3>5, <3>6, <3>7, <3>8 DEF Holders
    <3>10. QED BY <3>2, <3>3, <3>9
  <2>2. QED BY <2>1 DEF Drops
<1>6. Len(ys) + Budget(n) <= Budget(m)
  <2> DEFINE a == Cardinality(Live(m.upvalues))
             b == Cardinality(Live(n.upvalues))
             w == Cardinality(Live(m.closures)) * MaxCaptures
  <2>1. /\ Live(m.upvalues) = {y \in Upvalues : m.upvalues[y] # None}
        /\ Live(n.upvalues) = Live(m.upvalues) \ {u} /\ u \in Live(m.upvalues)
    BY <1>1, <1>2, LiveAre
  <2>2. a \in Nat /\ b \in Nat BY <1>1, LiveAre
  <2>3. w \in Nat
    <3>1. Cardinality(Live(m.closures)) \in Nat /\ MaxCaptures \in Nat
      BY <1>1, LiveAre, LimitsAssumption
    <3>2. QED BY <3>1
  <2>4. a = b + 1
    <3>1. IsFiniteSet(Live(n.upvalues)) BY LiveAre
    <3>2. Live(m.upvalues) = Live(n.upvalues) \cup {u} /\ u \notin Live(n.upvalues) BY <2>1
    <3>3. Cardinality(Live(n.upvalues) \cup {u}) = Cardinality(Live(n.upvalues)) + 1
      BY <3>1, <3>2, FS_AddElement
    <3>4. QED BY <3>2, <3>3
  <2>5. Budget(m) = w + a /\ Budget(n) = w + b BY <1>2 DEF Budget
  <2> HIDE DEF a, b, w
  <2>6. QED BY <1>4, <2>2, <2>3, <2>4, <2>5
<1>7. QED BY <1>3, <1>4, <1>5, <1>6

\* ... of one that has its value.
LEMMA FreedBox ==
  ASSUME NEW m, Typed(m), Referred(m), NEW u \in Upvalues, m.upvalues[u] # None, m.upvalues[u].refs <= 1,
         ~m.upvalues[u].open, NEW n, n = FreeUpvalue(m, u)
  PROVE  DropsTo(m, n, u, <<m.upvalues[u].v>>)
<1>1. m \in MachineType BY DEF Typed
<1>2. n \in MachineType /\ OnlyFreed(m, n, u) /\ n.values = m.values BY <1>1, FreeUpvalueIs
<1> DEFINE ys == <<m.upvalues[u].v>>
<1>3. ys = IF m.upvalues[u].open THEN <<>> ELSE <<m.upvalues[u].v>> OBVIOUS
<1>4. \A c \in Coroutines : Vals(n, c) = Vals(m, c) /\ Len(n.values[c]) = Len(m.values[c])
  BY <1>2 DEF Vals
<1>5. n \in MachineType BY <1>2
<1>6. OnlyFreed(m, n, u) BY <1>2
<1> HIDE DEF ys
<1>7. Typed(n) /\ ys \in Seq(Things) /\ Drops(m, n, u, ys) /\ Len(ys) + Budget(n) <= Budget(m)
  BY <1>3, <1>4, <1>5, <1>6, FreedUpvalue
<1>8. Swept(m, n)
  <2>1. \A w, c, p : Aliases(n, w, c, p) /\ w \in Upvalues <=> Aliases(m, w, c, p) /\ w \in Upvalues
    BY <1>6 DEF Aliases, OnlyFreed
  <2>2. \A c, p, w : Tracks(n, c, p, w) <=> Tracks(m, c, p, w) BY <1>6 DEF OnlyFreed, Tracks, Owns
  <2>3. Tracking(m) => Tracking(n) BY <1>2, <2>1, <2>2 DEF Tracking
  <2>4. Valued(m) => Valued(n) BY <1>1, <1>2, <1>6, LiveAre DEF Valued, ValueOf, OnlyFreed
  <2>5. QED BY <1>4, <1>6, <2>3, <2>4 DEF Swept, OnlyFreed
<1>9. DropsTo(m, n, u, ys) BY <1>7, <1>8 DEF DropsTo
<1>10. QED BY <1>9 DEF ys

\* A failure changes the status, and only the first assertion counts.
LEMMA FailIs ==
  ASSUME NEW m \in MachineType, NEW why \in Statuses
  PROVE  /\ why \in Aborted => Fail(m, why).status \in Aborted
         /\ m.status \notin Aborted => Fail(m, why) = [m EXCEPT !.status = why]
BY DEF Fail, MachineType

\* ... of one that is open: its place is given back.
LEMMA ReleaseIs ==
  ASSUME NEW m, Typed(m), Referred(m), NEW u \in Upvalues, m.upvalues[u] # None, m.upvalues[u].refs <= 1,
         m.upvalues[u].open, NEW n, n = Release(m, u)
  PROVE  n.status \in Aborted \/ DropsTo(m, n, u, <<>>)
<1> DEFINE c == m.upvalues[u].cr
           p == m.upvalues[u].at
<1>1. m \in MachineType BY DEF Typed
<1>2. c \in Coroutines /\ p \in Nat BY <1>1, UpvalueIs
<1>3. CASE c \in m.freed
  <2>1. n = Fail(m, "coroutine_is_gone") BY <1>3 DEF Release
  <2>2. "coroutine_is_gone" \in Statuses /\ "coroutine_is_gone" \in Aborted BY DEF Aborted, Statuses
  <2>3. QED BY <1>1, <2>1, <2>2, FailIs
<1>4. CASE c \notin m.freed /\ ~(p \in DOMAIN m.values[c] /\ m.values[c][p].captured)
  <2>1. n = Fail(m, "up_value_of_no_place") BY <1>4 DEF Release
  <2>2. "up_value_of_no_place" \in Statuses /\ "up_value_of_no_place" \in Aborted
    BY DEF Aborted, Statuses
  <2>3. QED BY <1>1, <2>1, <2>2, FailIs
<1>5. CASE c \notin m.freed /\ p \in DOMAIN m.values[c] /\ m.values[c][p].captured
  <2> DEFINE k == [m EXCEPT !.values[c][p].captured = FALSE]
  <2>1. n = FreeUpvalue(k, u) BY <1>5 DEF Release
  <2>2. p \in 1 .. Len(m.values[c]) BY <1>1, <1>2, <1>5, ValsAre
  <2>3. c \in Coroutines BY <1>2
  <2>4. k = [m EXCEPT !.values[c][p].captured = FALSE] OBVIOUS
  <2>5. Aliases(m, u, c, p) BY DEF Aliases
  <2>6. m.values[c][p].captured BY <1>5
  <2> HIDE DEF k, c, p
  <2>7. k \in MachineType /\ Uncaptured(m, k, c, p) /\ \A d \in Coroutines : Vals(k, d) = Vals(m, d)
    BY <1>1, <2>2, <2>3, <2>4, UncapturedIs
  <2>8. k \in MachineType BY <2>7
  <2>9. n \in MachineType /\ OnlyFreed(k, n, u) /\ n.values = k.values BY <2>1, <2>8, FreeUpvalueIs
  <2>10. /\ \A d \in Coroutines \ {c} : n.values[d] = m.values[d]
         /\ Len(n.values[c]) = Len(m.values[c])
         /\ n.values[c][p].v = m.values[c][p].v /\ ~n.values[c][p].captured
         /\ \A q \in 1 .. Len(m.values[c]) : q # p => n.values[c][q] = m.values[c][q]
    BY <2>7, <2>9 DEF Uncaptured, OnlyPlacesOf
  <2>11. OnlyFreed(m, n, u) BY <2>7, <2>9 DEF OnlyFreed, Uncaptured, OnlyPlacesOf
  <2>12. \A d \in Coroutines : Vals(n, d) = Vals(m, d) BY <2>7, <2>9 DEF Vals
  <2>13. \A d \in Coroutines : Len(n.values[d]) = Len(m.values[d]) BY <2>10
  <2>14. n \in MachineType BY <2>9
  <2> DEFINE ys == <<>>
  <2>15. ys = IF m.upvalues[u].open THEN <<>> ELSE <<m.upvalues[u].v>> OBVIOUS
  <2> HIDE DEF ys
  <2>16. Typed(n) /\ ys \in Seq(Things) /\ Drops(m, n, u, ys) /\ Len(ys) + Budget(n) <= Budget(m)
    BY <2>11, <2>12, <2>13, <2>14, <2>15, FreedUpvalue
  <2>17. ASSUME Tracking(m) PROVE Tracking(n)
    <3>1. /\ n.frames = m.frames /\ n.upvalues[u] = None
          /\ \A w \in Upvalues \ {u} : n.upvalues[w] = m.upvalues[w]
      BY <2>11 DEF OnlyFreed
    <3>2. \A w \in Upvalues : \A d, q : Aliases(n, w, d, q) <=> w # u /\ Aliases(m, w, d, q)
      BY <3>1 DEF Aliases
    <3>3. \A w, d, q : Tracks(n, d, q, w) <=> Tracks(m, d, q, w) BY <3>1 DEF Tracks, Owns
    <3>4. \A w \in Upvalues : Aliases(m, w, c, p) => w = u
      <4>1. ASSUME NEW w \in Upvalues, Aliases(m, w, c, p) PROVE w = u
        <5>1. p \in Nat BY <2>2
        <5>2. Tracks(m, c, p, w) /\ Tracks(m, c, p, u) BY <2>3, <2>5, <2>17, <4>1, <5>1 DEF Tracking
        <5>3. QED BY <1>1, <2>3, <5>1, <5>2, OneOwner
      <4>2. QED BY <4>1
    <3>5. ASSUME NEW d \in Coroutines
          PROVE  DOMAIN m.values[d] = 1 .. Len(m.values[d]) /\ DOMAIN n.values[d] = 1 .. Len(m.values[d])
      BY <1>1, <2>13, <2>14, ValsAre
    <3>6. ASSUME NEW w \in Upvalues, NEW d \in Coroutines, NEW q \in Nat, Aliases(n, w, d, q)
          PROVE  q \in DOMAIN n.values[d] /\ n.values[d][q].captured /\ Tracks(n, d, q, w)
      <4>1. w # u /\ Aliases(m, w, d, q) BY <3>2, <3>6
      <4>2. q \in DOMAIN m.values[d] /\ m.values[d][q].captured /\ Tracks(m, d, q, w)
        BY <2>17, <4>1 DEF Tracking
      <4>3. d # c \/ q # p BY <3>4, <4>1
      <4>4. n.values[d][q] = m.values[d][q] BY <2>10, <3>5, <4>2, <4>3
      <4>5. QED BY <3>3, <3>5, <4>2, <4>4
    <3>7. ASSUME NEW d \in Coroutines, NEW q \in DOMAIN n.values[d], n.values[d][q].captured
          PROVE  \E w \in Upvalues : Tracks(n, d, q, w) /\ Aliases(n, w, d, q)
      <4>1. d # c \/ q # p BY <2>10, <3>7
      <4>2. q \in DOMAIN m.values[d] /\ m.values[d][q].captured BY <2>10, <3>5, <3>7, <4>1
      <4>3. PICK w \in Upvalues : Tracks(m, d, q, w) /\ Aliases(m, w, d, q)
        BY <2>17, <4>2 DEF Tracking
      <4>4. w # u BY <2>5, <4>1, <4>3 DEF Aliases
      <4>5. QED BY <3>2, <3>3, <4>3, <4>4
    <3>8. QED BY <3>6, <3>7 DEF Tracking
  <2>18. ASSUME Tracking(m), Valued(m) PROVE Valued(n)
    <3>1. ASSUME NEW w \in Live(n.upvalues) PROVE ValueOf(n, w) = n.variable[w]
      <4>1. w \in Upvalues /\ n.upvalues[w] # None BY <2>14, LiveAre
      <4>2. w # u /\ n.upvalues[w] = m.upvalues[w] /\ n.variable[w] = m.variable[w]
        BY <2>11, <4>1 DEF OnlyFreed
      <4>3. w \in Live(m.upvalues) BY <1>1, <4>1, <4>2, LiveAre
      <4>4. m.upvalues[w].open => n.values[m.upvalues[w].cr][m.upvalues[w].at].v
                                   = m.values[m.upvalues[w].cr][m.upvalues[w].at].v
        <5> DEFINE d == m.upvalues[w].cr
                   q == m.upvalues[w].at
        <5>1. SUFFICES ASSUME m.upvalues[w].open PROVE n.values[d][q].v = m.values[d][q].v OBVIOUS
        <5>2. d \in Coroutines /\ q \in Nat BY <1>1, <4>1, <4>2, <5>1, UpvalueIs
        <5>3. Aliases(m, w, d, q) BY <4>1, <4>2, <5>1 DEF Aliases
        <5>4. q \in DOMAIN m.values[d] BY <2>18, <4>1, <5>2, <5>3 DEF Tracking
        <5> HIDE DEF d, q
        <5>5. q \in 1 .. Len(m.values[d]) BY <1>1, <5>2, <5>4, ValsAre
        <5>6. QED BY <2>10, <5>2, <5>5
      <4>5. ValueOf(m, w) = m.variable[w] BY <2>18, <4>3 DEF Valued
      <4>6. QED BY <4>2, <4>4, <4>5 DEF ValueOf
    <3>2. QED BY <3>1 DEF Valued
  <2>19. Swept(m, n) BY <2>11, <2>12, <2>17, <2>18 DEF Swept, OnlyFreed
  <2>20. DropsTo(m, n, u, ys) BY <2>16, <2>19 DEF DropsTo
  <2>21. QED BY <2>20 DEF ys
<1>6. QED BY <1>3, <1>4, <1>5

\* One reference is dropped.
LEMMA UnrefIs ==
  ASSUME NEW m, Typed(m), Referred(m), NEW x \in Things, x \in Objects => Heap(m, x)[x] # None,
         NEW p, p = Unref(m, x)
  PROVE  p[1].status \in Aborted \/ DropsTo(m, p[1], x, p[2])
<1>1. m \in MachineType BY DEF Typed
<1>2. CASE x \in Closures
  <2>1. x \notin Upvalues /\ m.closures[x] # None BY <1>1, <1>2, RefsAre DEF Objects
  <2>2. m.closures[x].refs \in Nat BY <1>1, <1>2, <2>1, MachineIs DEF ClosureHeap, Closure
  <2>3. CASE m.closures[x].refs > 1
    <3> DEFINE n == [m EXCEPT !.closures[x].refs = @ - 1]
    <3>1. p = <<n, <<>>>> BY <1>2, <2>1, <2>2, <2>3 DEF Unref
    <3>2. DropsTo(m, n, x, <<>>) BY <1>2, <2>1, <2>3, UnrefClosure
    <3> HIDE DEF n
    <3>3. QED BY <3>1, <3>2
  <2>4. CASE m.closures[x].refs <= 1
    <3> DEFINE n == [m EXCEPT !.closures[x] = None]
    <3>1. p = <<n, m.closures[x].upvalues>> BY <1>2, <2>1, <2>2, <2>4 DEF Unref
    <3>2. DropsTo(m, n, x, m.closures[x].upvalues) BY <1>2, <2>1, <2>4, FreedClosure
    <3> HIDE DEF n
    <3>3. QED BY <3>1, <3>2
  <2>5. QED BY <2>2, <2>3, <2>4
<1>3. CASE x \in Upvalues
  <2>1. x \notin Closures /\ m.upvalues[x] # None BY <1>1, <1>3, RefsAre DEF Objects
  <2>2. m.upvalues[x].refs \in Nat /\ m.upvalues[x].open \in BOOLEAN BY <1>1, <1>3, <2>1, UpvalueIs
  <2>3. CASE m.upvalues[x].refs > 1
    <3> DEFINE n == [m EXCEPT !.upvalues[x].refs = @ - 1]
    <3>1. p = <<n, <<>>>> BY <1>3, <2>1, <2>2, <2>3 DEF Unref
    <3>2. DropsTo(m, n, x, <<>>) BY <1>3, <2>1, <2>3, UnrefUpvalue
    <3> HIDE DEF n
    <3>3. QED BY <3>1, <3>2
  <2>4. CASE m.upvalues[x].refs <= 1 /\ m.upvalues[x].open
    <3> DEFINE n == Release(m, x)
    <3>1. p = <<n, <<>>>> BY <1>3, <2>1, <2>2, <2>4 DEF Unref
    <3>2. n.status \in Aborted \/ DropsTo(m, n, x, <<>>) BY <1>3, <2>1, <2>4, ReleaseIs
    <3> HIDE DEF n
    <3>3. QED BY <3>1, <3>2
  <2>5. CASE m.upvalues[x].refs <= 1 /\ ~m.upvalues[x].open
    <3> DEFINE n == FreeUpvalue(m, x)
    <3>1. p = <<n, <<m.upvalues[x].v>>>> BY <1>3, <2>1, <2>2, <2>5 DEF Unref
    <3>2. DropsTo(m, n, x, <<m.upvalues[x].v>>) BY <1>3, <2>1, <2>5, FreedBox
    <3> HIDE DEF n
    <3>3. QED BY <3>1, <3>2
  <2>6. QED BY <2>2, <2>3, <2>4, <2>5
<1>4. CASE x \notin Objects
  <2>1. p = <<m, <<>>>> BY <1>4 DEF Unref, Objects
  <2>2. SameHeap(m, m) BY DEF SameHeap, SameUpvalue, SameClosure
  <2>3. \A o \in Objects : Refs(m, o) = Refs(m, o) - Occurrences(<<x>>, o)
    <3>1. ASSUME NEW o \in Objects PROVE Refs(m, o) = Refs(m, o) - Occurrences(<<x>>, o)
      <4>1. Occurrences(<<x>>, o) = 0 /\ Refs(m, o) \in Nat BY <1>1, <1>4, OccurrencesOne, RefsAre
      <4>2. QED BY <4>1
    <3>2. QED BY <3>1
  <2>4. \A o \in Objects : Heap(m, o)[o] # None => Refs(m, o) >= 1 BY DEF Referred
  <2>5. DropsTo(m, m, x, <<>>) BY <1>1, <2>2, <2>3, <2>4, UnrefOne
  <2>6. QED BY <2>1, <2>5
<1>5. QED BY <1>2, <1>3, <1>4 DEF Objects

----------------------------------------------------------------------------
(* The loops.  Each is a function of how often it was gone through.        *)

Step(loop, c, last, n, p) ==
    IF loop = "drop" THEN DropFirst(p) ELSE IF loop = "discard" THEN Discard(p, c) ELSE DestroyStack(p, last[n])

\* up to the k-th time
Upto(a, loop, c, last, k, g) ==
    g = [n \in 0 .. k |-> IF n = 0 THEN a ELSE Step(loop, c, last, n, g[n - 1])]

\* A loop can be unfolded any number of times,
LEMMA LoopUpto ==
  ASSUME NEW a, NEW loop, NEW c, NEW last
  PROVE  \A k \in Nat : \E g : Upto(a, loop, c, last, k, g)
<1> DEFINE R(k, g) == Upto(a, loop, c, last, k, g)
           T == {k \in Nat : ~\E g : R(k, g)}
<1>1. \E g : R(0, g)
  <2> DEFINE g == [n \in 0 .. 0 |-> a]
  <2>1. g = [n \in 0 .. 0 |-> IF n = 0 THEN a ELSE Step(loop, c, last, n, g[n - 1])]
    <3>1. \A n \in 0 .. 0 : n = 0 OBVIOUS
    <3>2. QED BY <3>1
  <2>2. QED BY <2>1 DEF Upto
<1>2. ASSUME NEW k \in Nat, NEW g, R(k, g) PROVE \E h : R(k + 1, h)
  <2> DEFINE h == [n \in 0 .. k + 1 |-> IF n = k + 1 THEN Step(loop, c, last, n, g[k]) ELSE g[n]]
  <2>1. \A n \in 0 .. k : g[n] = IF n = 0 THEN a ELSE Step(loop, c, last, n, g[n - 1])
    BY <1>2 DEF Upto
  <2>2. ASSUME NEW n \in 0 .. k + 1
        PROVE  h[n] = IF n = 0 THEN a ELSE Step(loop, c, last, n, h[n - 1])
    <3>1. CASE n = k + 1
      <4>1. n # 0 /\ n - 1 = k /\ k \in 0 .. k + 1 /\ k # k + 1 BY <3>1
      <4>2. h[n - 1] = g[k] /\ h[n] = Step(loop, c, last, n, g[k]) BY <3>1, <4>1
      <4>3. QED BY <4>1, <4>2
    <3>2. CASE n # k + 1
      <4>1. n \in 0 .. k /\ h[n] = g[n] BY <3>2
      <4>2. CASE n = 0 BY <2>1, <4>1, <4>2
      <4>3. CASE n # 0
        <5>1. n - 1 \in 0 .. k + 1 /\ n - 1 # k + 1 BY <4>1, <4>3
        <5>2. h[n - 1] = g[n - 1] BY <5>1
        <5>3. QED BY <2>1, <4>1, <4>3, <5>2
      <4>4. QED BY <4>2, <4>3
    <3>3. QED BY <3>1, <3>2
  <2>3. h = [n \in 0 .. k + 1 |-> IF n = 0 THEN a ELSE Step(loop, c, last, n, h[n - 1])]
    <3>1. h = [n \in 0 .. k + 1 |-> h[n]] OBVIOUS
    <3> HIDE DEF h
    <3>2. QED BY <2>2, <3>1
  <2>4. R(k + 1, h) BY <2>3 DEF Upto
  <2>5. QED BY <2>4
<1> HIDE DEF R
<1>3. ASSUME T # {} PROVE FALSE
  <2>1. PICK k \in T : \A l \in T : k <= l
    <3>1. T \subseteq Nat OBVIOUS
    <3>2. QED BY <1>3, <3>1, LeastNumber
  <2>2. k \in Nat /\ k # 0 BY <1>1
  <2>3. k - 1 \in Nat /\ k - 1 \notin T /\ (k - 1) + 1 = k BY <2>1, <2>2
  <2>4. PICK g : R(k - 1, g) BY <2>3
  <2>5. \E h : R((k - 1) + 1, h) BY <1>2, <2>3, <2>4
  <2>6. QED BY <2>3, <2>5
<1>4. QED BY <1>3 DEF R

\* ... always with the same results,
LEMMA LoopAgrees ==
  ASSUME NEW a, NEW loop, NEW c, NEW last, NEW k \in Nat, NEW l \in Nat, NEW g, NEW h,
         Upto(a, loop, c, last, k, g), Upto(a, loop, c, last, l, h)
  PROVE  \A n \in Nat : n <= k /\ n <= l => g[n] = h[n]
<1> DEFINE T == {n \in Nat : n <= k /\ n <= l /\ g[n] # h[n]}
<1>1. \A n \in 0 .. k : g[n] = IF n = 0 THEN a ELSE Step(loop, c, last, n, g[n - 1]) BY DEF Upto
<1>2. \A n \in 0 .. l : h[n] = IF n = 0 THEN a ELSE Step(loop, c, last, n, h[n - 1]) BY DEF Upto
<1>3. ASSUME T # {} PROVE FALSE
  <2>1. PICK n \in T : \A i \in T : n <= i
    <3>1. T \subseteq Nat OBVIOUS
    <3>2. QED BY <1>3, <3>1, LeastNumber
  <2>2. n \in 0 .. k /\ n \in 0 .. l /\ g[n] # h[n] OBVIOUS
  <2>3. n # 0 BY <1>1, <1>2, <2>2
  <2>4. n - 1 \in Nat /\ n - 1 <= k /\ n - 1 <= l /\ ~(n <= n - 1) BY <2>2, <2>3
  <2>5. g[n - 1] = h[n - 1] BY <2>1, <2>4
  <2>6. g[n] = Step(loop, c, last, n, g[n - 1]) /\ h[n] = Step(loop, c, last, n, h[n - 1])
    BY <1>1, <1>2, <2>2, <2>3
  <2>7. QED BY <2>2, <2>5, <2>6
<1>4. QED BY <1>3

Loop(a, loop, c, last, g) == [n \in Nat |-> IF n = 0 THEN a ELSE Step(loop, c, last, n, g[n - 1])]

\* ... so that there is a function of the number of times.
LEMMA LoopIs ==
  ASSUME NEW a, NEW loop, NEW c, NEW last
  PROVE  \E g : g = Loop(a, loop, c, last, g)
<1> DEFINE U(k) == CHOOSE g : Upto(a, loop, c, last, k, g)
           f == [k \in Nat |-> U(k)[k]]
<1>1. ASSUME NEW k \in Nat PROVE Upto(a, loop, c, last, k, U(k)) BY LoopUpto
<1>2. \A k \in Nat : f[k] = U(k)[k] OBVIOUS
<1>3. f = [k \in Nat |-> f[k]] OBVIOUS
<1> HIDE DEF f, U
<1>4. ASSUME NEW n \in Nat PROVE f[n] = IF n = 0 THEN a ELSE Step(loop, c, last, n, f[n - 1])
  <2>1. U(n) = [i \in 0 .. n |-> IF i = 0 THEN a ELSE Step(loop, c, last, i, U(n)[i - 1])]
    BY <1>1 DEF Upto
  <2>2. n \in 0 .. n OBVIOUS
  <2>3. f[n] = IF n = 0 THEN a ELSE Step(loop, c, last, n, U(n)[n - 1]) BY <1>2, <2>1, <2>2
  <2>4. CASE n # 0
    <3>1. n - 1 \in Nat /\ n - 1 <= n /\ n - 1 <= n - 1 BY <2>4
    <3>2. Upto(a, loop, c, last, n, U(n)) /\ Upto(a, loop, c, last, n - 1, U(n - 1)) BY <1>1, <3>1
    <3>3. Upto(a, loop, c, last, n, U(n)) BY <3>2
    <3>4. Upto(a, loop, c, last, n - 1, U(n - 1)) BY <3>2
    <3>5. n - 1 \in Nat BY <3>1
    <3>6. U(n)[n - 1] = U(n - 1)[n - 1] BY <3>1, <3>3, <3>4, <3>5, LoopAgrees
    <3>7. QED BY <1>2, <2>3, <3>1, <3>6
  <2>5. QED BY <2>3, <2>4
<1>5. f = [n \in Nat |-> IF n = 0 THEN a ELSE Step(loop, c, last, n, f[n - 1])] BY <1>3, <1>4
<1>6. QED BY <1>5 DEF Loop

\* The loop of UnrefAll: a function that counts its steps, whatever is done in one.
Dropping(m, xs, n, g) ==
    /\ g[0] = <<m, xs>>
    /\ \A i \in Nat \ {0} : g[i] = DropFirst(g[i - 1])
    /\ n = g[Len(xs) + Cardinality(Closures) * MaxCaptures + Cardinality(Upvalues)][1]

\* UnrefAll is such a loop.
LEMMA UnrefAllIs ==
  ASSUME NEW m, NEW xs, NEW n, n = UnrefAll(m, xs), m.status \notin Aborted,
         ToSet(xs) \cap Objects # {}
  PROVE  \E g : Dropping(m, xs, n, g)
<1> DEFINE steps == Len(xs) + Cardinality(Closures) * MaxCaptures + Cardinality(Upvalues)
           Def(g) == [i \in Nat |-> IF i = 0 THEN <<m, xs>> ELSE DropFirst(g[i - 1])]
           after == CHOOSE g : g = Def(g)
<1>1. n = after[steps][1] BY DEF UnrefAll, Objects
<1>2. \E g : g = Def(g)
  <2>1. PICK g : g = Loop(<<m, xs>>, "drop", 0, 0, g) BY LoopIs
  <2>2. \A i : Step("drop", 0, 0, i, g[i - 1]) = DropFirst(g[i - 1]) BY DEF Step
  <2>3. g = Def(g) BY <2>1, <2>2 DEF Loop
  <2>4. QED BY <2>3
<1> HIDE DEF Def
<1>3. after = Def(after) BY <1>2
<1> HIDE DEF after
<1>4. /\ after[0] = <<m, xs>>
      /\ \A i \in Nat \ {0} : after[i] = DropFirst(after[i - 1])
  <2>1. after = [i \in Nat |-> IF i = 0 THEN <<m, xs>> ELSE DropFirst(after[i - 1])] BY <1>3 DEF Def
  <2>2. after[0] = <<m, xs>> BY <2>1
  <2>3. ASSUME NEW i \in Nat \ {0} PROVE after[i] = DropFirst(after[i - 1]) BY <2>1
  <2>4. QED BY <2>2, <2>3
<1>5. Dropping(m, xs, n, after) BY <1>1, <1>4 DEF Dropping
<1>6. QED BY <1>5

\* What the stacks hold, which does not change while references are dropped.
Roots(m, o) == Cardinality(HeldByPlaces(m, o)) + Cardinality(HeldByFrames(m, o))

\* What the stacks hold stays the same,
LEMMA SweptRoots ==
  ASSUME NEW m, NEW n, Swept(m, n), NEW o
  PROVE  Roots(n, o) = Roots(m, o)
<1>1. n.frames = m.frames /\ \A c \in Coroutines : Vals(n, c) = Vals(m, c) BY DEF Swept
<1>2. HeldByPlaces(n, o) = HeldByPlaces(m, o) BY <1>1, SameStacks
<1>3. HeldByFrames(n, o) = HeldByFrames(m, o) BY <1>1 DEF HeldByFrames
<1>4. QED BY <1>2, <1>3 DEF Roots

\* ... over any number of references that are dropped.
LEMMA SweptTwice ==
  ASSUME NEW m, NEW n, NEW k, Swept(m, n), Swept(n, k)
  PROVE  Swept(m, k)
BY DEF Swept

\* With adds up.
LEMMA WithIs ==
  ASSUME NEW l \in Hands, NEW xs \in Seq(Things)
  PROVE  With(l, xs) \in Hands /\ \A o \in Objects : With(l, xs)[o] = l[o] + Occurrences(xs, o)
<1>1. \A o : Occurrences(xs, o) \in Nat BY OccurrencesIs
<1>2. \A o \in Objects : l[o] + Occurrences(xs, o) \in Int BY <1>1 DEF Hands
<1>3. QED BY <1>2 DEF With, Hands

\* The first reference of several is dropped.
LEMMA DropFirstIs ==
  ASSUME NEW m, Typed(m), m.status \notin Aborted, NEW work \in Seq(Things), work # <<>>,
         NEW l \in Hands, Counted(m, With(l, work)), \A o \in Objects : l[o] + Roots(m, o) >= 0,
         NEW p, p = DropFirst(<<m, work>>)
  PROVE  \/ p[1].status \in Aborted
         \/ /\ Typed(p[1]) /\ p[2] \in Seq(Things) /\ Counted(p[1], With(l, p[2])) /\ Swept(m, p[1])
            /\ Len(p[2]) + Budget(p[1]) < Len(work) + Budget(m)
<1> DEFINE x == Head(work)
           t == Tail(work)
           k == With(l, work)
           q == Unref(m, x)
<1>1. m \in MachineType BY DEF Typed
<1>2. x \in Things /\ t \in Seq(Things) /\ Len(t) = Len(work) - 1 /\ Len(work) \in Nat OBVIOUS
<1>3. x \in Things BY <1>2
<1>4. t \in Seq(Things) BY <1>2
<1>5. p[1] = q[1] /\ p[2] = q[2] \o t BY DEF DropFirst
<1>6. ASSUME NEW o \in Objects
      PROVE  Occurrences(work, o) = Occurrences(<<x>>, o) + Occurrences(t, o)
  <2> DEFINE hd == <<x>>
  <2>1. hd \in Seq(Things) BY <1>3
  <2>2. work = hd \o t OBVIOUS
  <2> HIDE DEF hd, t
  <2>3. Occurrences(hd \o t, o) = Occurrences(hd, o) + Occurrences(t, o)
    BY <1>4, <2>1, OccurrencesJoin
  <2>4. QED BY <2>2, <2>3 DEF hd
<1>7. k \in Hands BY WithIs
<1>8. \A o \in Objects : k[o] = l[o] + Occurrences(work, o) BY WithIs
<1>9. Referred(m) BY DEF Counted, Referred
<1>10. ASSUME x \in Objects PROVE Heap(m, x)[x] # None
  <2>1. Occurrences(<<x>>, x) = 1 BY OccurrencesOne
  <2>2. Occurrences(t, x) \in Nat BY <1>4, OccurrencesIs
  <2>3. k[x] = l[x] + 1 + Occurrences(t, x) /\ l[x] \in Int
    BY <1>6, <1>8, <1>10, <2>1, <2>2 DEF Hands
  <2>4. Holders(m, x) = Roots(m, x) + Cardinality(HeldByBoxes(m, x)) + Cardinality(HeldByClosures(m, x))
        /\ Roots(m, x) \in Nat
    BY <1>1, HoldersAre DEF Holders, Roots
  <2>5. Cardinality(HeldByBoxes(m, x)) \in Nat /\ Cardinality(HeldByClosures(m, x)) \in Nat
    BY <1>1, HoldersAre
  <2>6. l[x] + Roots(m, x) >= 0 BY <1>10
  <2> HIDE DEF x, t, k
  <2>7. Holders(m, x) + k[x] >= 1 BY <2>2, <2>3, <2>4, <2>5, <2>6
  <2>8. Counted(m, k) BY DEF k
  <2>9. QED BY <1>1, <1>7, <1>10, <2>7, <2>8, CountedIsLive
<1> HIDE DEF x, t
<1>11. q[1].status \in Aborted \/ DropsTo(m, q[1], x, q[2]) BY <1>3, <1>9, <1>10, UnrefIs
<1>12. ASSUME DropsTo(m, q[1], x, q[2])
       PROVE  /\ Typed(p[1]) /\ p[2] \in Seq(Things) /\ Counted(p[1], With(l, p[2])) /\ Swept(m, p[1])
              /\ Len(p[2]) + Budget(p[1]) < Len(work) + Budget(m)
  <2> DEFINE n == q[1]
             ys == q[2]
             j == With(l, p[2])
  <2>1. Typed(n) /\ ys \in Seq(Things) /\ Drops(m, n, x, ys) /\ Swept(m, n) /\ Len(ys) + Budget(n) <= Budget(m)
    BY <1>12 DEF DropsTo
  <2>2. ys \in Seq(Things) BY <2>1
  <2>3. n \in MachineType BY <2>1 DEF Typed
  <2> HIDE DEF n, ys, q
  <2>4. p[1] = n /\ p[2] = ys \o t BY <1>5 DEF n, ys
  <2> DEFINE w == ys \o t
  <2>5. w \in Seq(Things) /\ Len(w) = Len(ys) + Len(t) /\ Len(ys) \in Nat BY <1>4, <2>2
  <2>15. \A o : Occurrences(w, o) = Occurrences(ys, o) + Occurrences(t, o)
    BY <1>4, <2>2, OccurrencesJoin
  <2>16. p[2] = w BY <2>4
  <2> HIDE DEF w
  <2>6. p[2] \in Seq(Things) BY <2>5, <2>16
  <2>7. j \in Hands BY <2>6, WithIs
  <2>8. ASSUME NEW o \in Objects PROVE j[o] = (k[o] - Occurrences(<<x>>, o)) + Occurrences(ys, o)
    <3>1. j[o] = l[o] + Occurrences(p[2], o) BY <2>6, WithIs
    <3>2. Occurrences(p[2], o) = Occurrences(ys, o) + Occurrences(t, o) BY <2>15, <2>16
    <3>3. Occurrences(t, o) \in Nat /\ Occurrences(ys, o) \in Nat BY <1>4, <2>2, OccurrencesIs
    <3>4. Occurrences(<<x>>, o) \in Nat BY OccurrencesOne
    <3>5. k[o] = l[o] + (Occurrences(<<x>>, o) + Occurrences(t, o)) /\ l[o] \in Int
      BY <1>6, <1>8 DEF Hands
    <3>6. QED BY <3>1, <3>2, <3>3, <3>4, <3>5
  <2>9. Drops(m, n, x, ys) BY <2>1
  <2>10. Counted(m, k) OBVIOUS
  <2> HIDE DEF j, k
  <2>11. Counted(n, j) BY <1>1, <1>7, <2>2, <2>3, <2>7, <2>8, <2>9, <2>10, DropsCount
  <2>12. Budget(n) \in Nat /\ Budget(m) \in Nat
    <3>1. ASSUME NEW i \in MachineType PROVE Budget(i) \in Nat
      <4>1. Cardinality(Live(i.closures)) \in Nat /\ Cardinality(Live(i.upvalues)) \in Nat /\ MaxCaptures \in Nat
        BY LiveAre, LimitsAssumption
      <4>2. QED BY <4>1 DEF Budget
    <3>2. QED BY <1>1, <2>3, <3>1
  <2>13. Len(p[2]) + Budget(p[1]) < Len(work) + Budget(m)
    <3>1. Len(t) = Len(work) - 1 /\ Len(work) \in Nat /\ Len(ys) + Budget(n) <= Budget(m)
      BY <1>2, <2>1
    <3>2. Len(w) = Len(ys) + Len(t) /\ Len(ys) \in Nat BY <2>5
    <3>3. Len(w) + Budget(n) < Len(work) + Budget(m) BY <2>12, <3>1, <3>2
    <3>4. QED BY <2>4, <2>16, <3>3
  <2>14. QED BY <2>1, <2>4, <2>6, <2>11, <2>13 DEF j
<1>13. QED BY <1>5, <1>11, <1>12

\* An aborted machine stays as it is.
LEMMA UnrefAllAborted ==
  ASSUME NEW m, m.status \in Aborted, NEW xs
  PROVE  UnrefAll(m, xs) = m
BY DEF UnrefAll

\* The budget is enough for all that may be freed.
LEMMA BudgetIs ==
  ASSUME NEW m \in MachineType
  PROVE  /\ Budget(m) \in Nat
         /\ Cardinality(Closures) \in Nat /\ Cardinality(Upvalues) \in Nat
         /\ Cardinality(Closures) * MaxCaptures \in Nat
         /\ Budget(m) <= Cardinality(Closures) * MaxCaptures + Cardinality(Upvalues)
<1> DEFINE a == Cardinality(Live(m.closures))
           b == Cardinality(Live(m.upvalues))
           A == Cardinality(Closures)
           B == Cardinality(Upvalues)
<1>1. MaxCaptures \in Nat /\ a \in Nat /\ b \in Nat BY LimitsAssumption, LiveAre
<1>2. A \in Nat /\ B \in Nat BY ObjectsAssumption, FS_CardinalityType
<1>3. a <= A /\ b <= B
  <2>1. Live(m.closures) \in SUBSET Closures /\ Live(m.upvalues) \in SUBSET Upvalues BY LiveAre
  <2>2. a <= A BY <2>1, ObjectsAssumption, FS_Subset
  <2>3. b <= B BY <2>1, ObjectsAssumption, FS_Subset
  <2>4. QED BY <2>2, <2>3
<1>4. Budget(m) = a * MaxCaptures + b BY DEF Budget
<1> HIDE DEF a, b, A, B
<1>5. a * MaxCaptures \in Nat /\ A * MaxCaptures \in Nat /\ a * MaxCaptures <= A * MaxCaptures
  <2>1. PICK d \in Nat : A = a + d
    <3>1. A - a \in Nat /\ A = a + (A - a) BY <1>1, <1>2, <1>3
    <3>2. QED BY <3>1
  <2>2. A * MaxCaptures = a * MaxCaptures + d * MaxCaptures BY <1>1, <2>1
  <2>3. a * MaxCaptures \in Nat /\ d * MaxCaptures \in Nat BY <1>1, <2>1
  <2> DEFINE ac == a * MaxCaptures
             dc == d * MaxCaptures
             Ac == A * MaxCaptures
  <2>4. Ac = ac + dc /\ ac \in Nat /\ dc \in Nat BY <2>2, <2>3
  <2> HIDE DEF ac, dc, Ac
  <2>5. ac \in Nat /\ Ac \in Nat /\ ac <= Ac BY <2>4
  <2>6. QED BY <2>5 DEF ac, Ac
<1> DEFINE ac == a * MaxCaptures
           Ac == A * MaxCaptures
<1>6. Budget(m) = ac + b /\ ac \in Nat /\ Ac \in Nat /\ ac <= Ac BY <1>4, <1>5
<1> HIDE DEF ac, Ac
<1>7. Budget(m) \in Nat /\ Budget(m) <= Ac + B BY <1>1, <1>2, <1>3, <1>6
<1>8. QED BY <1>2, <1>6, <1>7 DEF ac, Ac, A, B

\* Dropping all of several references.
LEMMA UnrefAllCounts ==
  ASSUME NEW m, Typed(m), m.status \notin Aborted, NEW xs \in Seq(Things),
         NEW l \in Hands, Counted(m, With(l, xs)), \A o \in Objects : l[o] + Roots(m, o) >= 0,
         NEW n, n = UnrefAll(m, xs)
  PROVE  n.status \in Aborted \/ (Typed(n) /\ Counted(n, l) /\ Swept(m, n))
<1>1. m \in MachineType BY DEF Typed
<1>2. Len(xs) \in Nat OBVIOUS
<1>3. CASE ToSet(xs) \cap Objects = {}
  <2>1. n = m BY <1>3 DEF UnrefAll, Objects
  <2>2. Swept(m, m) BY DEF Swept
  <2>3. ASSUME NEW o \in Objects PROVE With(l, xs)[o] = l[o]
    <3>1. Occurrences(xs, o) = 0 BY <1>3, OccurrencesIs
    <3>2. With(l, xs)[o] = l[o] + Occurrences(xs, o) /\ l[o] \in Int BY WithIs DEF Hands
    <3>3. QED BY <3>1, <3>2
  <2>4. Counted(m, l) BY <2>3 DEF Counted
  <2>5. QED BY <2>1, <2>2, <2>4
<1>4. CASE ToSet(xs) \cap Objects # {}
  <2> DEFINE steps == Len(xs) + Cardinality(Closures) * MaxCaptures + Cardinality(Upvalues)
             Good(p) == /\ Typed(p[1]) /\ p[1].status \notin Aborted /\ p[2] \in Seq(Things)
                        /\ Counted(p[1], With(l, p[2])) /\ Swept(m, p[1])
             Inv(p, i) == \/ p[1].status \in Aborted
                          \/ Good(p) /\ (p[2] = <<>> \/ Len(p[2]) + Budget(p[1]) + i <= steps)
  <2>11. PICK g : Dropping(m, xs, n, g) BY <1>4, UnrefAllIs
  <2>1. /\ g[0] = <<m, xs>>
        /\ \A i \in Nat \ {0} : g[i] = DropFirst(g[i - 1])
        /\ n = g[steps][1]
    BY <2>11 DEF Dropping
  <2>2. steps \in Nat /\ Len(xs) + Budget(m) <= steps
    <3> DEFINE Ac == Cardinality(Closures) * MaxCaptures
    <3>1. Budget(m) \in Nat /\ Ac \in Nat /\ Cardinality(Upvalues) \in Nat
          /\ Budget(m) <= Ac + Cardinality(Upvalues) /\ steps = Len(xs) + Ac + Cardinality(Upvalues)
      BY <1>1, BudgetIs
    <3> HIDE DEF Ac, steps
    <3>2. QED BY <1>2, <3>1
  <2> HIDE DEF steps
  <2>3. Inv(g[0], 0)
    <3>1. Swept(m, m) BY DEF Swept
    <3>2. Len(xs) + Budget(m) + 0 <= steps BY <1>1, <1>2, <2>2, BudgetIs
    <3>3. g[0][1] = m /\ g[0][2] = xs BY <2>1
    <3>4. QED BY <3>1, <3>2, <3>3
  <2>4. ASSUME NEW i \in Nat, NEW p, Inv(p, i) PROVE Inv(DropFirst(p), i + 1)
    <3> DEFINE r == DropFirst(p)
    <3>1. CASE p[1].status \in Aborted
      <4>1. r = p BY <3>1 DEF DropFirst
      <4>2. QED BY <3>1, <4>1
    <3>2. CASE Good(p) /\ p[2] = <<>>
      <4>1. r = p BY <3>2 DEF DropFirst
      <4>2. QED BY <3>2, <4>1
    <3>3. CASE Good(p) /\ p[2] # <<>> /\ Len(p[2]) + Budget(p[1]) + i <= steps
      <4> DEFINE k == p[1]
                 work == p[2]
      <4>1. Typed(k) BY <3>3
      <4>2. k.status \notin Aborted BY <3>3
      <4>3. work \in Seq(Things) BY <3>3
      <4>4. work # <<>> BY <3>3
      <4>5. Counted(k, With(l, work)) BY <3>3
      <4>6. Swept(m, k) BY <3>3
      <4>7. Len(work) + Budget(k) + i <= steps BY <3>3
      <4>8. r = DropFirst(<<k, work>>)
        <5>1. r = IF work = <<>> \/ k.status \in Aborted THEN p
                  ELSE <<Unref(k, Head(work))[1], Unref(k, Head(work))[2] \o Tail(work)>>
          BY DEF DropFirst
        <5>2. DropFirst(<<k, work>>) = IF work = <<>> \/ k.status \in Aborted THEN <<k, work>>
                  ELSE <<Unref(k, Head(work))[1], Unref(k, Head(work))[2] \o Tail(work)>>
          BY DEF DropFirst
        <5>3. QED BY <4>2, <4>4, <5>1, <5>2
      <4> HIDE DEF k, work, r
      <4>9. \A o \in Objects : l[o] + Roots(k, o) >= 0 BY <4>6, SweptRoots
      <4>10. \/ r[1].status \in Aborted
             \/ /\ Typed(r[1]) /\ r[2] \in Seq(Things) /\ Counted(r[1], With(l, r[2])) /\ Swept(k, r[1])
                /\ Len(r[2]) + Budget(r[1]) < Len(work) + Budget(k)
        BY <4>1, <4>2, <4>3, <4>4, <4>5, <4>8, <4>9, DropFirstIs
      <4>11. CASE r[1].status \notin Aborted
        <5>1. /\ Typed(r[1]) /\ r[2] \in Seq(Things) /\ Counted(r[1], With(l, r[2]))
              /\ Len(r[2]) + Budget(r[1]) < Len(work) + Budget(k)
          BY <4>10, <4>11
        <5>2. Swept(k, r[1]) BY <4>10, <4>11
        <5>3. Swept(m, r[1]) BY <4>6, <5>2, SweptTwice
        <5>4. Budget(r[1]) \in Nat /\ Budget(k) \in Nat BY <4>1, <5>1, BudgetIs DEF Typed
        <5>5. Len(r[2]) \in Nat /\ Len(work) \in Nat BY <4>3, <5>1
        <5>6. Len(r[2]) + Budget(r[1]) + (i + 1) <= steps BY <2>2, <4>7, <5>1, <5>4, <5>5
        <5>7. Inv(r, i + 1) BY <4>11, <5>1, <5>3, <5>6
        <5>8. QED BY <5>7 DEF r
      <4>12. CASE r[1].status \in Aborted BY <4>12 DEF r
      <4>13. QED BY <4>11, <4>12
    <3>4. QED BY <2>4, <3>1, <3>2, <3>3
  <2> HIDE DEF Inv
  <2> DEFINE T == {i \in Nat : ~Inv(g[i], i)}
  <2>5. ASSUME T # {} PROVE FALSE
    <3>1. T \subseteq Nat OBVIOUS
    <3>2. PICK i \in T : \A j \in T : i <= j BY <2>5, <3>1, LeastNumber
    <3>3. i \in Nat /\ i # 0 BY <2>3
    <3>4. i - 1 \in Nat /\ ~(i <= i - 1) /\ (i - 1) + 1 = i BY <3>3
    <3>5. Inv(g[i - 1], i - 1) BY <3>2, <3>4
    <3>6. Inv(DropFirst(g[i - 1]), (i - 1) + 1) BY <2>4, <3>4, <3>5
    <3>7. g[i] = DropFirst(g[i - 1]) BY <2>1, <3>3
    <3>8. Inv(g[i], i) BY <3>4, <3>6, <3>7
    <3>9. QED BY <3>8
  <2>6. Inv(g[steps], steps) BY <2>2, <2>5
  <2> DEFINE p == g[steps]
  <2>7. Inv(p, steps) /\ n = p[1] BY <2>1, <2>6
  <2> HIDE DEF p
  <2>8. CASE n.status \in Aborted BY <2>8
  <2>9. CASE n.status \notin Aborted
    <3>1. Good(p) /\ (p[2] = <<>> \/ Len(p[2]) + Budget(p[1]) + steps <= steps)
      BY <2>7, <2>9 DEF Inv
    <3>2. Typed(n) /\ p[2] \in Seq(Things) /\ Counted(n, With(l, p[2])) /\ Swept(m, n) BY <2>7, <3>1
    <3>3. p[2] = <<>>
      <4>1. Budget(p[1]) \in Nat BY <2>7, <3>2, BudgetIs DEF Typed
      <4>2. Len(p[2]) \in Nat /\ (Len(p[2]) = 0 => p[2] = <<>>) BY <3>2
      <4>3. QED BY <2>2, <3>1, <4>1, <4>2
    <3>4. ASSUME NEW o \in Objects PROVE With(l, <<>>)[o] = l[o]
      <4>1. Occurrences(<<>>, o) = 0 BY OccurrencesNone
      <4>2. With(l, <<>>)[o] = l[o] + Occurrences(<<>>, o) /\ l[o] \in Int BY DEF With, Hands
      <4>3. QED BY <4>1, <4>2
    <3>5. Counted(n, l) BY <3>2, <3>3, <3>4 DEF Counted
    <3>6. QED BY <3>2, <3>5
  <2>10. QED BY <2>8, <2>9
<1>5. QED BY <1>3, <1>4

\* The same, of a machine that keeps the rest of the invariant.
LEMMA UnrefAllSound ==
  ASSUME NEW m, NEW h \in Hands, Sound(m, h), m.status \notin Aborted, NEW xs \in Seq(Things),
         NEW l \in Hands, \A o \in Objects : l[o] >= 0 /\ h[o] = l[o] + Occurrences(xs, o),
         NEW n, n = UnrefAll(m, xs)
  PROVE  \/ n.status \in Aborted
         \/ /\ Sound(n, l)
            /\ n.frames = m.frames /\ n.status = m.status /\ n.freed = m.freed
            /\ \A c \in Coroutines : Len(n.values[c]) = Len(m.values[c])
<1>1. Typed(m) /\ m \in MachineType BY DEF Sound, Typed
<1>2. Counted(m, With(l, xs)) BY WithIs DEF Sound, Counted
<1>3. \A o \in Objects : l[o] + Roots(m, o) >= 0
  <2>1. ASSUME NEW o \in Objects PROVE l[o] + Roots(m, o) >= 0
    <3>1. Cardinality(HeldByPlaces(m, o)) \in Nat /\ Cardinality(HeldByFrames(m, o)) \in Nat
      BY <1>1, HoldersAre
    <3>2. l[o] \in Int /\ l[o] >= 0 BY DEF Hands
    <3>3. QED BY <3>1, <3>2 DEF Roots
  <2>2. QED BY <2>1
<1>4. n.status \in Aborted \/ (Typed(n) /\ Counted(n, l) /\ Swept(m, n))
  BY <1>1, <1>2, <1>3, UnrefAllCounts
<1>5. ASSUME Typed(n), Counted(n, l), Swept(m, n)
      PROVE  /\ Sound(n, l)
             /\ n.frames = m.frames /\ n.status = m.status /\ n.freed = m.freed
             /\ \A c \in Coroutines : Len(n.values[c]) = Len(m.values[c])
  <2>1. n.frames = m.frames /\ n.status = m.status /\ n.freed = m.freed BY <1>5 DEF Swept
  <2>2. ASSUME NEW c \in Coroutines
        PROVE  Len(n.values[c]) = Len(m.values[c]) /\ (m.values[c] = <<>> => n.values[c] = <<>>)
    <3>1. n \in MachineType BY <1>5 DEF Typed
    <3>2. Vals(n, c) = Vals(m, c) BY <1>5 DEF Swept
    <3>3. Len(n.values[c]) = Len(Vals(n, c)) /\ Len(m.values[c]) = Len(Vals(m, c))
      BY <1>1, <3>1, ValsAre
    <3>4. n.values[c] \in Seq(Slot) BY <3>1, ValsAre
    <3>5. Len(n.values[c]) = Len(m.values[c]) BY <3>2, <3>3
    <3>6. m.values[c] = <<>> => Len(n.values[c]) = 0 BY <3>5
    <3>7. QED BY <3>4, <3>5, <3>6
  <2>3. Stacked(n) BY <2>1, <2>2 DEF Sound, Stacked
  <2>4. Tracking(n) /\ Valued(n) BY <1>5 DEF Sound, Swept
  <2>5. QED BY <1>5, <2>1, <2>2, <2>3, <2>4 DEF Sound
<1>6. QED BY <1>4, <1>5

\* A stack with less on it.
Fewer(m, n, c, j) ==
    /\ n.frames = m.frames /\ n.status = m.status /\ n.freed = m.freed
    /\ Len(n.values[c]) = Len(m.values[c]) - j

\* A value is popped and cleared.
LEMMA DiscardIs ==
  ASSUME NEW m, NEW l \in Hands, Sound(m, l), \A o \in Objects : l[o] >= 0, m.status = "continue",
         NEW c \in Coroutines, m.frames[c] # <<>>, Len(m.values[c]) > Frame(m, c).offset,
         NEW n, n = Discard(m, c)
  PROVE  n.status \in Aborted \/ (Sound(n, l) /\ Fewer(m, n, c, 1))
<1> DEFINE xs == <<Top(m, c)>>
           k == Pop(m, c)
           h == With(l, xs)
<1>1. m \in MachineType BY DEF Sound, Typed
<1>2. xs \in Seq(Things)
  <2>1. Len(m.values[c]) \in 1 .. Len(m.values[c]) /\ Top(m, c) = m.values[c][Len(m.values[c])].v
    <3>1. Len(m.values[c]) \in Nat /\ Frame(m, c).offset \in Nat BY <1>1, ValsAre, TopFrame
    <3>2. QED BY <3>1 DEF Top, Last
  <2>2. Top(m, c) \in Value BY <1>1, <2>1, ValsAre
  <2>3. QED BY <2>2 DEF Things
<1>3. n = UnrefAll(k, xs) BY DEF Discard, Ok
<1>4. k = Pop(m, c) OBVIOUS
<1>5. xs = <<Top(m, c)>> OBVIOUS
<1> HIDE DEF xs, k
<1>6. h \in Hands BY <1>2, WithIs
<1>7. \A o \in Objects : h[o] = l[o] + Occurrences(xs, o) BY <1>2, WithIs
<1> HIDE DEF h
<1>8. \A o \in Objects : h[o] = l[o] + Occurrences(<<Top(m, c)>>, o) BY <1>5, <1>7
<1>9. Sound(k, h) /\ Popped(m, k, c) /\ Top(m, c) \in Value BY <1>4, <1>6, <1>8, PopSound
<1>10. Sound(k, h) BY <1>9
<1>11. /\ k.frames = m.frames /\ k.status = m.status /\ k.freed = m.freed
       /\ Len(k.values[c]) = Len(m.values[c]) - 1
  BY <1>9 DEF Popped, SameOutside
<1>12. k.status \notin Aborted BY <1>11 DEF Aborted
<1>13. \A o \in Objects : l[o] >= 0 /\ h[o] = l[o] + Occurrences(xs, o) BY <1>7
<1>14. \/ n.status \in Aborted
       \/ /\ Sound(n, l)
          /\ n.frames = k.frames /\ n.status = k.status /\ n.freed = k.freed
          /\ \A d \in Coroutines : Len(n.values[d]) = Len(k.values[d])
  BY <1>2, <1>3, <1>6, <1>10, <1>12, <1>13, UnrefAllSound
<1>15. QED BY <1>11, <1>14 DEF Fewer

Discarding(m, c, g) == g[0] = m /\ \A i \in Nat \ {0} : g[i] = Discard(g[i - 1], c)

\* DiscardMany is a loop over Discard.
LEMMA DiscardManyIs ==
  ASSUME NEW m, NEW c, NEW j \in Nat, NEW n, n = DiscardMany(m, c, j)
  PROVE  \E g : Discarding(m, c, g) /\ n = g[j]
<1> DEFINE Def(g) == [i \in Nat |-> IF i = 0 THEN m ELSE Discard(g[i - 1], c)]
           after == CHOOSE g : g = Def(g)
<1>1. n = after[j] BY DEF DiscardMany
<1>2. \E g : g = Def(g)
  <2>1. PICK g : g = Loop(m, "discard", c, 0, g) BY LoopIs
  <2>2. \A i : Step("discard", c, 0, i, g[i - 1]) = Discard(g[i - 1], c) BY DEF Step
  <2>3. g = Def(g) BY <2>1, <2>2 DEF Loop
  <2>4. QED BY <2>3
<1> HIDE DEF Def
<1>3. after = Def(after) BY <1>2
<1> HIDE DEF after
<1>4. Discarding(m, c, after)
  <2>1. after = [i \in Nat |-> IF i = 0 THEN m ELSE Discard(after[i - 1], c)] BY <1>3 DEF Def
  <2>2. after[0] = m BY <2>1
  <2>3. ASSUME NEW i \in Nat \ {0} PROVE after[i] = Discard(after[i - 1], c) BY <2>1
  <2>4. QED BY <2>2, <2>3 DEF Discarding
<1>5. QED BY <1>1, <1>4

\* Several values are popped and cleared, of the frame on top.
LEMMA DiscardManySound ==
  ASSUME NEW m, NEW l \in Hands, Sound(m, l), \A o \in Objects : l[o] >= 0, m.status = "continue",
         NEW c \in Coroutines, m.frames[c] # <<>>,
         NEW j \in Nat, Frame(m, c).offset + j <= Len(m.values[c]),
         NEW n, n = DiscardMany(m, c, j)
  PROVE  n.status \in Aborted \/ (Sound(n, l) /\ Fewer(m, n, c, j))
<1> DEFINE Inv(k, i) == k.status \in Aborted \/ (k.status = "continue" /\ Sound(k, l) /\ Fewer(m, k, c, i))
<1>1. PICK g : Discarding(m, c, g) /\ n = g[j] BY DiscardManyIs
<1>2. m \in MachineType BY DEF Sound, Typed
<1>3. Len(m.values[c]) \in Nat /\ Frame(m, c).offset \in Nat BY <1>2, ValsAre, TopFrame
<1>4. Inv(g[0], 0) BY <1>1, <1>3 DEF Discarding, Fewer
<1>5. ASSUME NEW i \in Nat, i < j, NEW k, Inv(k, i) PROVE Inv(Discard(k, c), i + 1)
  <2>1. CASE k.status \in Aborted
    <3>1. Discard(k, c) = k BY <2>1 DEF Discard, Ok, Aborted
    <3>2. QED BY <2>1, <3>1
  <2>2. CASE k.status = "continue" /\ Sound(k, l) /\ Fewer(m, k, c, i)
    <3> DEFINE r == Discard(k, c)
    <3>1. Sound(k, l) BY <2>2
    <3>2. k.status = "continue" BY <2>2
    <3>3. k.frames[c] # <<>> BY <2>2 DEF Fewer
    <3>4. Frame(k, c) = Frame(m, c) /\ Len(k.values[c]) = Len(m.values[c]) - i
      BY <2>2 DEF Fewer, Frame
    <3>5. Len(k.values[c]) > Frame(k, c).offset BY <1>3, <1>5, <3>4
    <3>6. r = Discard(k, c) OBVIOUS
    <3> HIDE DEF r
    <3>7. r.status \in Aborted \/ (Sound(r, l) /\ Fewer(k, r, c, 1))
      BY <3>1, <3>2, <3>3, <3>5, <3>6, DiscardIs
    <3>8. Fewer(k, r, c, 1) => Fewer(m, r, c, i + 1) /\ r.status = "continue"
      <4>1. /\ k.frames = m.frames /\ k.status = m.status /\ k.freed = m.freed
            /\ Len(k.values[c]) = Len(m.values[c]) - i
        BY <2>2 DEF Fewer
      <4>2. SUFFICES ASSUME Fewer(k, r, c, 1) PROVE Fewer(m, r, c, i + 1) /\ r.status = "continue" OBVIOUS
      <4>3. /\ r.frames = k.frames /\ r.status = k.status /\ r.freed = k.freed
            /\ Len(r.values[c]) = Len(k.values[c]) - 1
        BY <4>2 DEF Fewer
      <4>4. Len(r.values[c]) = Len(m.values[c]) - (i + 1) BY <1>3, <4>1, <4>3
      <4>5. QED BY <3>2, <4>1, <4>3, <4>4 DEF Fewer
    <3>9. QED BY <3>6, <3>7, <3>8
  <2>3. QED BY <1>5, <2>1, <2>2
<1> HIDE DEF Inv
<1> DEFINE T == {i \in Nat : i <= j /\ ~Inv(g[i], i)}
<1>6. ASSUME T # {} PROVE FALSE
  <2>1. T \subseteq Nat OBVIOUS
  <2>2. PICK i \in T : \A q \in T : i <= q BY <1>6, <2>1, LeastNumber
  <2>3. i \in Nat /\ i # 0 /\ i <= j BY <1>4
  <2>4. i - 1 \in Nat /\ i - 1 < j /\ ~(i <= i - 1) /\ (i - 1) + 1 = i BY <2>3
  <2>5. Inv(g[i - 1], i - 1) BY <2>2, <2>4
  <2>6. Inv(Discard(g[i - 1], c), (i - 1) + 1) BY <1>5, <2>4, <2>5
  <2>7. g[i] = Discard(g[i - 1], c) BY <1>1, <2>3 DEF Discarding
  <2>8. Inv(g[i], i) BY <2>4, <2>6, <2>7
  <2>9. QED BY <2>8
<1>7. Inv(g[j], j) BY <1>6
<1>8. QED BY <1>1, <1>7 DEF Inv

\* After a failed assertion nothing is popped.
LEMMA DiscardManyAborted ==
  ASSUME NEW m, m.status \in Aborted, NEW c, NEW j \in Nat
  PROVE  DiscardMany(m, c, j).status \in Aborted
<1> DEFINE n == DiscardMany(m, c, j)
<1>1. n = DiscardMany(m, c, j) OBVIOUS
<1> HIDE DEF n
<1>2. PICK g : Discarding(m, c, g) /\ n = g[j] BY <1>1, DiscardManyIs
<1> DEFINE T == {i \in Nat : g[i] # m}
<1>3. ASSUME T # {} PROVE FALSE
  <2>1. T \subseteq Nat OBVIOUS
  <2>2. PICK i \in T : \A q \in T : i <= q BY <1>3, <2>1, LeastNumber
  <2>3. i \in Nat /\ i # 0 BY <1>2 DEF Discarding
  <2>4. i - 1 \in Nat /\ ~(i <= i - 1) BY <2>3
  <2>5. g[i - 1] = m BY <2>2, <2>4
  <2>6. g[i] = Discard(m, c) BY <1>2, <2>3, <2>5 DEF Discarding
  <2>7. Discard(m, c) = m BY DEF Discard, Ok, Aborted
  <2>8. QED BY <2>6, <2>7
<1>4. QED BY <1>1, <1>2, <1>3

----------------------------------------------------------------------------
(* Frames are pushed and dropped.                                          *)

OnlyFramesOf(m, n, c) ==
    /\ \A d \in Coroutines \ {c} : n.frames[d] = m.frames[d]
    /\ n.values = m.values /\ n.upvalues = m.upvalues /\ n.closures = m.closures
    /\ n.status = m.status /\ n.variable = m.variable /\ n.kept = m.kept /\ n.freed = m.freed

\* Setting the frames of one coroutine leaves the others alone.
LEMMA WithFramesOf ==
  ASSUME NEW m \in MachineType, NEW c \in Coroutines, NEW fs \in Seq(FrameType),
         NEW n, n = [m EXCEPT !.frames[c] = fs]
  PROVE  n \in MachineType /\ n.frames[c] = fs /\ OnlyFramesOf(m, n, c)
<1> DEFINE new == [m.frames EXCEPT ![c] = fs]
<1>1. m.frames \in CallStacks BY MachineIs
<1>2. new \in CallStacks BY <1>1 DEF CallStacks
<1>3. new[c] = fs /\ \A d \in Coroutines \ {c} : new[d] = m.frames[d] BY <1>1 DEF CallStacks
<1>4. n = [m EXCEPT !.frames = new] OBVIOUS
<1> HIDE DEF new
<1>5. /\ n \in MachineType /\ n.frames = new
      /\ n.values = m.values /\ n.upvalues = m.upvalues /\ n.closures = m.closures
      /\ n.status = m.status /\ n.variable = m.variable /\ n.kept = m.kept /\ n.freed = m.freed
  BY <1>2, <1>4 DEF MachineType
<1>6. QED BY <1>3, <1>5 DEF OnlyFramesOf

\* The frames of c outside S hold the same.
SameBelow(m, n, c, S) ==
    \A i \in 1 .. MaxFrames : i \notin S =>
        /\ i \in DOMAIN n.frames[c] <=> i \in DOMAIN m.frames[c]
        /\ i \in DOMAIN m.frames[c] => /\ n.frames[c][i].closure = m.frames[c][i].closure
                                       /\ n.frames[c][i].tracked = m.frames[c][i].tracked

\* What the frames of S hold, before and after, is all that counts.
LEMMA FramesCount ==
  ASSUME NEW m, Typed(m), NEW n \in MachineType, NEW c \in Coroutines, OnlyFramesOf(m, n, c),
         NEW S, SameBelow(m, n, c, S), NEW h \in Hands, Counted(m, h), NEW k \in Hands,
         \A o \in Objects : k[o] + Cardinality(SlotsOf(n, c, S, o)) = h[o] + Cardinality(SlotsOf(m, c, S, o))
  PROVE  Counted(n, k)
<1>1. m \in MachineType BY DEF Typed
<1>2. /\ \A d \in Coroutines \ {c} : n.frames[d] = m.frames[d]
      /\ n.values = m.values /\ n.upvalues = m.upvalues /\ n.closures = m.closures /\ n.kept = m.kept
  BY DEF OnlyFramesOf
<1>3. \A d \in Coroutines, i \in 1 .. MaxFrames : d # c \/ i \notin S =>
         /\ i \in DOMAIN n.frames[d] <=> i \in DOMAIN m.frames[d]
         /\ i \in DOMAIN m.frames[d] =>
               /\ n.frames[d][i].closure = m.frames[d][i].closure
               /\ n.frames[d][i].tracked = m.frames[d][i].tracked
  <2>1. ASSUME NEW d \in Coroutines, NEW i \in 1 .. MaxFrames, d # c \/ i \notin S
        PROVE  /\ i \in DOMAIN n.frames[d] <=> i \in DOMAIN m.frames[d]
               /\ i \in DOMAIN m.frames[d] =>
                     /\ n.frames[d][i].closure = m.frames[d][i].closure
                     /\ n.frames[d][i].tracked = m.frames[d][i].tracked
    <3>1. CASE d = c BY <2>1, <3>1 DEF SameBelow
    <3>2. CASE d # c BY <1>2, <3>2
    <3>3. QED BY <3>1, <3>2
  <2>2. QED BY <2>1
<1>4. ASSUME NEW o \in Objects
      PROVE  Refs(n, o) = Holders(n, o) + Keeps(n, o) + k[o] /\ (Heap(n, o)[o] # None => Refs(n, o) >= 1)
  <2>1. /\ Cardinality(HeldByFrames(n, o)) + Cardinality(SlotsOf(m, c, S, o))
             = Cardinality(HeldByFrames(m, o)) + Cardinality(SlotsOf(n, c, S, o))
        /\ Cardinality(SlotsOf(m, c, S, o)) \in Nat /\ Cardinality(SlotsOf(n, c, S, o)) \in Nat
    BY <1>1, <1>3, OneFrames
  <2>2. /\ HeldByPlaces(n, o) = HeldByPlaces(m, o) /\ HeldByBoxes(n, o) = HeldByBoxes(m, o)
        /\ HeldByClosures(n, o) = HeldByClosures(m, o)
    BY <1>2 DEF HeldByPlaces, HeldByBoxes, HeldByClosures
  <2>3. /\ Cardinality(HeldByPlaces(m, o)) \in Nat /\ Cardinality(HeldByBoxes(m, o)) \in Nat
        /\ Cardinality(HeldByFrames(m, o)) \in Nat /\ Cardinality(HeldByClosures(m, o)) \in Nat
        /\ Cardinality(HeldByFrames(n, o)) \in Nat
    BY <1>1, HoldersAre
  <2>4. Refs(n, o) = Refs(m, o) /\ Keeps(n, o) = Keeps(m, o) /\ Heap(n, o)[o] = Heap(m, o)[o]
    BY <1>2 DEF Refs, Keeps, Heap
  <2>5. Refs(m, o) = Holders(m, o) + Keeps(m, o) + h[o] /\ h[o] \in Int /\ k[o] \in Int
        /\ (Heap(m, o)[o] # None => Refs(m, o) >= 1)
    BY DEF Counted, Hands
  <2>6. Keeps(m, o) \in Nat BY <1>1, RefsAre
  <2>7. k[o] + Cardinality(SlotsOf(n, c, S, o)) = h[o] + Cardinality(SlotsOf(m, c, S, o)) OBVIOUS
  <2> DEFINE a == Cardinality(HeldByPlaces(m, o)) + Cardinality(HeldByBoxes(m, o))
             b == Cardinality(HeldByClosures(m, o))
             x == Cardinality(HeldByFrames(m, o))
             y == Cardinality(HeldByFrames(n, o))
             v == Cardinality(SlotsOf(m, c, S, o))
             w == Cardinality(SlotsOf(n, c, S, o))
             j == k[o]
             i == h[o]
             r == Refs(m, o)
             z == Keeps(m, o)
  <2>8. Holders(m, o) = a + x + b /\ Holders(n, o) = a + y + b BY <2>2 DEF Holders
  <2>9. /\ y + v = x + w /\ j + w = i + v /\ r = (a + x + b) + z + i
        /\ a \in Nat /\ b \in Nat /\ x \in Nat /\ y \in Nat /\ v \in Nat /\ w \in Nat /\ z \in Nat
        /\ i \in Int /\ j \in Int
    BY <2>1, <2>3, <2>5, <2>6, <2>7, <2>8
  <2>12. Refs(n, o) = r /\ Keeps(n, o) = z BY <2>4
  <2> HIDE DEF a, b, x, y, v, w, i, j, r, z
  <2>13. r = (a + y + b) + z + j BY <2>9
  <2>10. Refs(n, o) = Holders(n, o) + Keeps(n, o) + k[o] BY <2>8, <2>12, <2>13 DEF j
  <2>11. QED BY <2>4, <2>5, <2>10
<1>5. QED BY <1>4 DEF Counted

\* The up-values that are tracked are those that were, whatever frames there are.
LEMMA FramesTrack ==
  ASSUME NEW m \in MachineType, NEW n \in MachineType, NEW c \in Coroutines, OnlyFramesOf(m, n, c),
         Tracking(m), Valued(m),
         \A p \in DOMAIN m.values[c] : \A u : Tracks(m, c, p, u) => Tracks(n, c, p, u)
  PROVE  Tracking(n) /\ Valued(n)
<1>1. /\ \A d \in Coroutines \ {c} : n.frames[d] = m.frames[d]
      /\ n.values = m.values /\ n.upvalues = m.upvalues /\ n.variable = m.variable
  BY DEF OnlyFramesOf
<1>2. \A d \in Coroutines : \A p \in DOMAIN m.values[d] : \A u : Tracks(m, d, p, u) => Tracks(n, d, p, u)
  <2>1. ASSUME NEW d \in Coroutines, d # c PROVE \A p, u : Tracks(m, d, p, u) => Tracks(n, d, p, u)
    <3>1. n.frames[d] = m.frames[d] BY <1>1, <2>1
    <3>2. QED BY <3>1 DEF Tracks, Owns
  <2>2. QED BY <2>1
<1>3. \A u, d, p : Aliases(n, u, d, p) <=> Aliases(m, u, d, p) BY <1>1 DEF Aliases
<1>4. Tracking(n) BY <1>1, <1>2, <1>3 DEF Tracking
<1>5. Valued(n) BY <1>1 DEF Valued, ValueOf
<1>6. QED BY <1>4, <1>5

\* Where the i-th frame lies on a stack.
FrameFits(f, i, fs, height) ==
    /\ f.offset <= height
    /\ f.parameters <= f.due
    /\ i = 1 => f.offset = 0 /\ ~f.returns
    /\ i > 1 => f.returns
    /\ \A j \in DOMAIN fs : j < i => fs[j].offset + f.due <= f.offset

\* Stacked, frame by frame.
LEMMA StackedIs ==
  ASSUME NEW m
  PROVE  Stacked(m) <=>
           \A c \in Coroutines :
              /\ m.frames[c] = <<>> => m.values[c] = <<>>
              /\ \A i \in DOMAIN m.frames[c] :
                    FrameFits(m.frames[c][i], i, m.frames[c], Len(m.values[c]))
BY DEF Stacked, FrameFits

\* The frame on top is dropped, from a stack that has no more places of it; what
\* it held is in hand.
WithoutFrame(m, c) == [m EXCEPT !.frames[c] = Front(@)]
FrameDropped(m, n, c, k) ==
    /\ Sound(n, k) /\ OnlyFramesOf(m, n, c)
    /\ Len(n.frames[c]) = Len(m.frames[c]) - 1
    /\ \A i \in 1 .. Len(m.frames[c]) - 1 : n.frames[c][i] = m.frames[c][i]

\* A frame is taken off: what it held is in hand.
LEMMA DropFrame ==
  ASSUME NEW m, NEW h \in Hands, Sound(m, h), NEW c \in Coroutines, m.frames[c] # <<>>,
         Len(m.values[c]) = Frame(m, c).offset,
         NEW n, n = WithoutFrame(m, c),
         NEW k \in Hands, \A o \in Objects : k[o] = h[o] + Occurrences(OfFrames(m, c, {Len(m.frames[c])}), o)
  PROVE  FrameDropped(m, n, c, k)
<1> DEFINE L == Len(m.frames[c])
           fs == Front(m.frames[c])
           S == {L}
<1>1. m \in MachineType /\ Typed(m) /\ Stacked(m) /\ Counted(m, h) /\ Tracking(m) /\ Valued(m)
  BY DEF Sound, Typed
<1>2. /\ m.frames[c] \in Seq(FrameType) /\ L \in Nat \ {0} /\ DOMAIN m.frames[c] = 1 .. L
      /\ Frame(m, c) = m.frames[c][L]
  BY <1>1, FramesAre, TopFrame
<1>3. fs \in Seq(FrameType) /\ Len(fs) = L - 1 /\ \A i \in 1 .. L - 1 : fs[i] = m.frames[c][i]
  BY <1>2 DEF Front
<1>4. n = [m EXCEPT !.frames[c] = fs] BY DEF WithoutFrame
<1>5. fs \in Seq(FrameType) BY <1>3
<1> HIDE DEF fs
<1>6. n \in MachineType /\ n.frames[c] = fs /\ OnlyFramesOf(m, n, c)
  BY <1>1, <1>4, <1>5, WithFramesOf
<1>7. /\ \A d \in Coroutines \ {c} : n.frames[d] = m.frames[d]
      /\ n.values = m.values /\ n.upvalues = m.upvalues /\ n.closures = m.closures
  BY <1>6 DEF OnlyFramesOf
<1>8. DOMAIN n.frames[c] = 1 .. L - 1 /\ \A i \in 1 .. L - 1 : n.frames[c][i] = m.frames[c][i]
  BY <1>3, <1>5, <1>6
<1>9. Typed(n)
  <2>1. Bounded(m) /\ L < MaxFrames /\ MaxFrames \in Nat
    BY <1>1, LimitsAssumption DEF Typed, Bounded
  <2>2. Len(n.frames[c]) < MaxFrames BY <1>2, <1>3, <1>6, <2>1
  <2>3. \A d \in Coroutines : Len(n.frames[d]) < MaxFrames BY <1>7, <2>1, <2>2 DEF Bounded
  <2>4. QED BY <1>6, <1>7, <2>1, <2>3 DEF Typed, Bounded
<1>10. Stacked(n)
  <2>1. ASSUME n.frames[c] = <<>> PROVE n.values[c] = <<>>
    <3>1. L = 1 BY <1>2, <1>3, <1>6, <2>1
    <3>2. Frame(m, c).offset = 0 BY <1>1, <1>2, <3>1 DEF Stacked
    <3>3. m.values[c] \in Seq(Slot) /\ Len(m.values[c]) = 0 BY <1>1, <3>2, ValsAre
    <3>4. QED BY <1>7, <3>3
  <2>2. ASSUME NEW i \in DOMAIN n.frames[c]
        PROVE  FrameFits(n.frames[c][i], i, n.frames[c], Len(n.values[c]))
    <3>1. i \in 1 .. L - 1 /\ i \in DOMAIN m.frames[c] /\ n.frames[c][i] = m.frames[c][i]
      BY <1>2, <1>8
    <3>2. FrameFits(m.frames[c][i], i, m.frames[c], Len(m.values[c])) BY <1>1, <3>1, StackedIs
    <3>3. \A j \in DOMAIN n.frames[c] : j \in DOMAIN m.frames[c] /\ n.frames[c][j] = m.frames[c][j]
      BY <1>2, <1>8
    <3>4. n.values[c] = m.values[c] BY <1>7
    <3> DEFINE before == m.frames[c]
               after == n.frames[c]
               f == m.frames[c][i]
               V == Len(m.values[c])
    <3>5. /\ FrameFits(f, i, before, V)
          /\ \A j \in DOMAIN after : j \in DOMAIN before /\ after[j] = before[j]
      BY <3>2, <3>3
    <3> HIDE DEF before, after, f, V
    <3>6. FrameFits(f, i, after, V) BY <3>5 DEF FrameFits
    <3>7. QED BY <3>1, <3>4, <3>6 DEF f, after, V
  <2>3. ASSUME NEW d \in Coroutines, d # c
        PROVE  /\ n.frames[d] = <<>> => n.values[d] = <<>>
               /\ \A i \in DOMAIN n.frames[d] : FrameFits(n.frames[d][i], i, n.frames[d], Len(n.values[d]))
    <3>1. n.frames[d] = m.frames[d] /\ n.values[d] = m.values[d] BY <1>7, <2>3
    <3>2. QED BY <1>1, <3>1, StackedIs
  <2>4. QED BY <2>1, <2>2, <2>3, StackedIs
<1>11. SameBelow(m, n, c, S)
  <2>1. \A i \in 1 .. MaxFrames : i \notin S => (i \in 1 .. L <=> i \in 1 .. L - 1) BY <1>2
  <2>2. QED BY <1>2, <1>8, <2>1 DEF SameBelow
<1>12. ASSUME NEW o \in Objects
       PROVE  k[o] + Cardinality(SlotsOf(n, c, S, o)) = h[o] + Cardinality(SlotsOf(m, c, S, o))
  <2>1. SlotsOf(n, c, S, o) = {}
    <3>1. L \notin DOMAIN n.frames[c] BY <1>2, <1>8
    <3>2. QED BY <3>1 DEF SlotsOf, HeldByFrames
  <2>2. Cardinality(SlotsOf(n, c, S, o)) = 0 BY <2>1, FS_EmptySet
  <2>3. S \subseteq DOMAIN m.frames[c] BY <1>2
  <2>4. Occurrences(OfFrames(m, c, S), o) = Cardinality(SlotsOf(m, c, S, o))
    BY <1>1, <2>3, OfFramesAre
  <2>5. k[o] = h[o] + Occurrences(OfFrames(m, c, S), o) /\ k[o] \in Int BY DEF Hands
  <2>6. QED BY <2>2, <2>4, <2>5
<1>13. OnlyFramesOf(m, n, c) BY <1>6
<1>14. n \in MachineType BY <1>6
<1> HIDE DEF S
<1>15. Counted(n, k) BY <1>1, <1>11, <1>12, <1>13, <1>14, FramesCount
<1>16. ASSUME NEW p \in DOMAIN m.values[c], NEW u, Tracks(m, c, p, u) PROVE Tracks(n, c, p, u)
  <2>1. PICK i \in DOMAIN m.frames[c] :
           Owns(m, c, i, p) /\ p \in DOMAIN m.frames[c][i].tracked /\ m.frames[c][i].tracked[p] = u
    BY <1>16 DEF Tracks
  <2>2. i # L
    <3>1. p \in 1 .. Len(m.values[c]) /\ Len(m.values[c]) \in Nat BY <1>1, ValsAre
    <3>2. m.frames[c][i].offset < p BY <2>1 DEF Owns
    <3>3. Frame(m, c).offset \in Nat BY <1>1, TopFrame
    <3>4. QED BY <1>2, <3>1, <3>2, <3>3
  <2>3. i \in 1 .. L - 1 BY <1>2, <2>2
  <2>4. Owns(n, c, i, p)
    <3>1. \A j \in 1 .. L : j > i => m.frames[c][j].offset >= p BY <1>2, <2>1 DEF Owns
    <3>2. \A j \in 1 .. L - 1 : j \in 1 .. L /\ n.frames[c][j] = m.frames[c][j] BY <1>2, <1>8
    <3>3. m.frames[c][i].offset < p BY <2>1 DEF Owns
    <3>4. DOMAIN n.frames[c] = 1 .. L - 1 BY <1>8
    <3>5. QED BY <2>3, <3>1, <3>2, <3>3, <3>4 DEF Owns
  <2>5. QED BY <1>8, <2>1, <2>3, <2>4 DEF Tracks
<1>17. Tracking(n) /\ Valued(n) BY <1>1, <1>13, <1>14, <1>16, FramesTrack
<1>18. QED BY <1>3, <1>6, <1>8, <1>9, <1>10, <1>15, <1>17 DEF Sound, FrameDropped

NewFrame(offset, returns, closure, due) ==
    [offset |-> offset, parameters |-> 0, due |-> due, returns |-> returns, closure |-> closure, tracked |-> <<>>]
PushFrame(m, c, f) == [m EXCEPT !.frames[c] = Append(@, f)]

\* A frame is pushed; the closure that it holds is not counted yet.
LEMMA AddFrame ==
  ASSUME NEW m, NEW h \in Hands, Sound(m, h), NEW c \in Coroutines,
         NEW returns \in BOOLEAN, NEW closure \in Closures \cup {None}, NEW due \in Nat,
         m.frames[c] = <<>> => ~returns,
         m.frames[c] # <<>> => returns /\ Frame(m, c).offset + due <= Len(m.values[c]),
         Len(m.frames[c]) + 1 < MaxFrames,
         NEW n, n = PushFrame(m, c, NewFrame(Len(m.values[c]), returns, closure, due)),
         NEW k \in Hands, \A o \in Objects : k[o] = h[o] - Occurrences(<<closure>>, o)
  PROVE  /\ Sound(n, k) /\ OnlyFramesOf(m, n, c) /\ n.frames[c] # <<>>
<1> DEFINE L == Len(m.frames[c])
           f == NewFrame(Len(m.values[c]), returns, closure, due)
           fs == Append(m.frames[c], f)
           S == {L + 1}
<1>1. m \in MachineType /\ Typed(m) /\ Stacked(m) /\ Counted(m, h) /\ Tracking(m) /\ Valued(m)
  BY DEF Sound, Typed
<1>2. /\ m.frames[c] \in Seq(FrameType) /\ L \in Nat /\ DOMAIN m.frames[c] = 1 .. L
      /\ m.values[c] \in Seq(Slot) /\ Len(m.values[c]) \in Nat
  BY <1>1, FramesAre, ValsAre
<1>3. f \in FrameType /\ f.offset = Len(m.values[c]) /\ f.parameters = 0 /\ f.due = due
      /\ f.returns = returns /\ f.closure = closure /\ DOMAIN f.tracked = {}
  <2>1. <<>> \in [{} -> Upvalues] /\ {} \in SUBSET (1 .. MaxValues) /\ DOMAIN <<>> = {} OBVIOUS
  <2>2. <<>> \in UNION {[R -> Upvalues] : R \in SUBSET (1 .. MaxValues)} BY <2>1
  <2>3. f.tracked = <<>> /\ f.offset = Len(m.values[c]) /\ f.parameters = 0 /\ f.due = due
        /\ f.returns = returns /\ f.closure = closure
    BY DEF NewFrame
  <2> DEFINE e == <<>>
             A == UNION {[R -> Upvalues] : R \in SUBSET (1 .. MaxValues)}
  <2>4. e \in A /\ f = [offset |-> Len(m.values[c]), parameters |-> 0, due |-> due, returns |-> returns,
                        closure |-> closure, tracked |-> e]
        /\ FrameType = [offset : Nat, parameters : Nat, due : Nat, returns : BOOLEAN,
                        closure : Closures \cup {None}, tracked : A]
    BY <2>2 DEF NewFrame, FrameType
  <2> HIDE DEF e, A
  <2>5. f \in FrameType BY <1>2, <2>4
  <2>6. QED BY <2>1, <2>3, <2>5
<1>4. n = [m EXCEPT !.frames[c] = fs] BY DEF PushFrame
<1> HIDE DEF f
<1>5. fs \in Seq(FrameType) /\ Len(fs) = L + 1 /\ fs[L + 1] = f /\ \A i \in 1 .. L : fs[i] = m.frames[c][i]
  BY <1>2, <1>3
<1>6. fs \in Seq(FrameType) BY <1>5
<1> HIDE DEF fs
<1>7. n \in MachineType /\ n.frames[c] = fs /\ OnlyFramesOf(m, n, c)
  BY <1>1, <1>4, <1>6, WithFramesOf
<1>8. /\ \A d \in Coroutines \ {c} : n.frames[d] = m.frames[d]
      /\ n.values = m.values /\ n.upvalues = m.upvalues /\ n.closures = m.closures
  BY <1>7 DEF OnlyFramesOf
<1>9. /\ DOMAIN n.frames[c] = 1 .. L + 1 /\ n.frames[c][L + 1] = f
      /\ \A i \in 1 .. L : n.frames[c][i] = m.frames[c][i]
  BY <1>5, <1>6, <1>7
<1>10. Typed(n)
  <2>1. Bounded(m) BY <1>1 DEF Typed
  <2>2. Len(n.frames[c]) < MaxFrames BY <1>5, <1>7
  <2>3. \A d \in Coroutines : Len(n.frames[d]) < MaxFrames BY <1>8, <2>1, <2>2 DEF Bounded
  <2>4. QED BY <1>7, <1>8, <2>1, <2>3 DEF Typed, Bounded
<1>11. Stacked(n)
  <2> DEFINE V == Len(m.values[c])
             gs == n.frames[c]
  <2>1. ASSUME NEW i \in 1 .. L PROVE FrameFits(gs[i], i, gs, V)
    <3>1. FrameFits(m.frames[c][i], i, m.frames[c], V) BY <1>1, <1>2, StackedIs
    <3>2. gs[i] = m.frames[c][i] /\ DOMAIN gs = 1 .. L + 1 BY <1>9
    <3>3. ASSUME NEW j \in 1 .. L + 1, j < i PROVE gs[j] = m.frames[c][j] /\ j \in DOMAIN m.frames[c]
      <4>1. j \in 1 .. L BY <1>2, <3>3
      <4>2. QED BY <1>2, <1>9, <4>1
    <3> HIDE DEF gs, V
    <3>4. QED BY <3>1, <3>2, <3>3 DEF FrameFits
  <2>2. FrameFits(f, L + 1, gs, V)
    <3>1. L + 1 = 1 => V = 0 /\ ~returns
      <4>1. ASSUME L = 0 PROVE V = 0 /\ ~returns
        <5>1. m.frames[c] = <<>> BY <1>2, <4>1
        <5>2. m.values[c] = <<>> BY <1>1, <5>1 DEF Stacked
        <5>3. QED BY <5>1, <5>2
      <4>2. QED BY <1>2, <4>1
    <3>2. L + 1 > 1 => returns
      <4>1. L + 1 > 1 => m.frames[c] # <<>> BY <1>2
      <4>2. QED BY <4>1
    <3>3. ASSUME NEW j \in 1 .. L + 1, j < L + 1 PROVE gs[j].offset + due <= V
      <4>1. j \in 1 .. L /\ m.frames[c] # <<>> BY <1>2, <3>3
      <4>2. m.frames[c][j].offset <= Frame(m, c).offset /\ Frame(m, c).offset \in Nat
        BY <1>1, <1>2, <4>1, TopFrame
      <4>3. m.frames[c][j].offset \in Nat BY <1>1, <1>2, <4>1, FramesAre DEF FrameType
      <4>4. Frame(m, c).offset + due <= V BY <4>1
      <4>5. gs[j].offset = m.frames[c][j].offset BY <1>9, <4>1
      <4> DEFINE a == m.frames[c][j].offset
                 b == Frame(m, c).offset
      <4>6. a <= b /\ b + due <= V /\ a \in Nat /\ b \in Nat /\ V \in Nat BY <1>2, <4>2, <4>3, <4>4
      <4> HIDE DEF a, b, V
      <4>7. a + due <= V BY <4>6
      <4>8. QED BY <4>5, <4>7 DEF a
    <3>4. f.offset = V /\ f.parameters = 0 /\ f.due = due /\ f.returns = returns BY <1>3
    <3>5. V \in Nat /\ DOMAIN gs = 1 .. L + 1 BY <1>2, <1>9
    <3> HIDE DEF V, gs
    <3>6. f.offset <= V /\ f.parameters <= f.due BY <3>4, <3>5
    <3>7. \A j \in DOMAIN gs : j < L + 1 => gs[j].offset + f.due <= f.offset BY <3>3, <3>4, <3>5
    <3>8. QED BY <3>1, <3>2, <3>4, <3>6, <3>7 DEF FrameFits
  <2>3. \A i \in DOMAIN gs : FrameFits(gs[i], i, gs, V)
    <3>1. \A i \in DOMAIN gs : i \in 1 .. L \/ i = L + 1 BY <1>2, <1>9
    <3>2. gs[L + 1] = f BY <1>9
    <3> HIDE DEF V, gs
    <3>3. QED BY <2>1, <2>2, <3>1, <3>2
  <2>4. n.frames[c] # <<>> /\ n.values = m.values BY <1>2, <1>5, <1>7, <1>8
  <2>5. ASSUME NEW d \in Coroutines
        PROVE  /\ n.frames[d] = <<>> => n.values[d] = <<>>
               /\ \A i \in DOMAIN n.frames[d] :
                     FrameFits(n.frames[d][i], i, n.frames[d], Len(n.values[d]))
    <3>1. CASE d = c BY <2>3, <2>4, <3>1
    <3>2. CASE d # c
      <4>1. n.frames[d] = m.frames[d] /\ n.values[d] = m.values[d] BY <1>8, <3>2
      <4>2. QED BY <1>1, <4>1, StackedIs
    <3>3. QED BY <3>1, <3>2
  <2>6. QED BY <2>5, StackedIs
<1>12. SameBelow(m, n, c, S)
  <2>1. \A i \in 1 .. MaxFrames : i \notin S => (i \in 1 .. L <=> i \in 1 .. L + 1) BY <1>2
  <2>2. QED BY <1>2, <1>9, <2>1 DEF SameBelow
<1>13. ASSUME NEW o \in Objects
       PROVE  k[o] + Cardinality(SlotsOf(n, c, S, o)) = h[o] + Cardinality(SlotsOf(m, c, S, o))
  <2>1. SlotsOf(m, c, S, o) = {}
    <3>1. L + 1 \notin DOMAIN m.frames[c] BY <1>2
    <3>2. QED BY <3>1 DEF SlotsOf, HeldByFrames
  <2>2. SlotsOf(n, c, S, o) = IF closure = o THEN {<<c, L + 1, 0>>} ELSE {}
    <3> DEFINE q0 == <<c, L + 1, 0>>
    <3>1. /\ q0 \in Coroutines \X (1 .. MaxFrames) \X (0 .. MaxValues)
          /\ q0[1] = c /\ q0[2] = L + 1 /\ q0[3] = 0
      BY <1>2, LimitsAssumption
    <3>2. Holds(f) = {0} /\ HeldAt(f, 0) = closure BY <1>3 DEF Holds, HeldAt
    <3>3. ASSUME NEW q \in SlotsOf(n, c, S, o) PROVE q = q0 /\ closure = o
      <4>1. q \in Coroutines \X (1 .. MaxFrames) \X (0 .. MaxValues)
            /\ q[3] \in Holds(n.frames[q[1]][q[2]]) /\ HeldAt(n.frames[q[1]][q[2]], q[3]) = o
            /\ q[1] = c /\ q[2] = L + 1
        BY <3>3 DEF SlotsOf, HeldByFrames
      <4>2. q[3] = 0 /\ closure = o BY <1>9, <3>2, <4>1
      <4>3. QED BY <4>1, <4>2
    <3>4. closure = o => q0 \in SlotsOf(n, c, S, o)
      <4>1. SUFFICES ASSUME closure = o PROVE q0 \in SlotsOf(n, c, S, o) OBVIOUS
      <4>2. /\ L + 1 \in DOMAIN n.frames[c] /\ 0 \in Holds(n.frames[c][L + 1])
            /\ HeldAt(n.frames[c][L + 1], 0) = o
        BY <1>2, <1>9, <3>2, <4>1
      <4> HIDE DEF q0
      <4>3. q0 \in HeldByFrames(n, o) BY <3>1, <4>2 DEF HeldByFrames
      <4>4. QED BY <3>1, <4>3 DEF SlotsOf
    <3> HIDE DEF q0
    <3>5. QED BY <3>3, <3>4 DEF q0
  <2>3. Cardinality(SlotsOf(m, c, S, o)) = 0 BY <2>1, FS_EmptySet
  <2>4. Cardinality(SlotsOf(n, c, S, o)) = IF closure = o THEN 1 ELSE 0
    BY <2>2, FS_EmptySet, FS_Singleton
  <2>5. Occurrences(<<closure>>, o) = IF o = closure THEN 1 ELSE 0 BY OccurrencesOne
  <2>6. k[o] = h[o] - Occurrences(<<closure>>, o) /\ h[o] \in Int BY DEF Hands
  <2>7. QED BY <2>3, <2>4, <2>5, <2>6
<1>14. OnlyFramesOf(m, n, c) BY <1>7
<1>15. n \in MachineType BY <1>7
<1> HIDE DEF S
<1>16. Counted(n, k)
  <2>1. Typed(m) BY <1>1
  <2>2. Counted(m, h) BY <1>1
  <2>3. QED BY <1>12, <1>13, <1>14, <1>15, <2>1, <2>2, FramesCount
<1>17. ASSUME NEW p \in DOMAIN m.values[c], NEW u, Tracks(m, c, p, u) PROVE Tracks(n, c, p, u)
  <2>1. PICK i \in DOMAIN m.frames[c] :
           Owns(m, c, i, p) /\ p \in DOMAIN m.frames[c][i].tracked /\ m.frames[c][i].tracked[p] = u
    BY <1>17 DEF Tracks
  <2>2. p \in 1 .. Len(m.values[c]) BY <1>1, ValsAre
  <2>3. n.frames[c][L + 1].offset >= p BY <1>2, <1>3, <1>9, <2>2
  <2>7. i \in 1 .. L BY <1>2
  <2>8. \A j \in 1 .. L + 1 : j \in 1 .. L \/ j = L + 1 BY <1>2
  <2>4. i \in 1 .. L /\ i \in 1 .. L + 1 /\ \A j \in 1 .. L + 1 : j \in 1 .. L \/ j = L + 1
    BY <1>2, <2>7, <2>8
  <2>5. Owns(n, c, i, p) BY <1>2, <1>9, <2>1, <2>3, <2>4 DEF Owns
  <2>6. QED BY <1>9, <2>1, <2>4, <2>5 DEF Tracks
<1>18. Tracking(n) /\ Valued(n) BY <1>1, <1>14, <1>15, <1>17, FramesTrack
<1>19. n.frames[c] # <<>> BY <1>2, <1>5, <1>7
<1>20. QED BY <1>7, <1>10, <1>11, <1>16, <1>18, <1>19 DEF Sound

\* A frame is set up.
SetUp(m, n, c, h) ==
    /\ Sound(n, h) /\ n.values = m.values /\ n.status = m.status /\ n.freed = m.freed
    /\ n.frames[c] # <<>> /\ \A d \in Coroutines \ {c} : n.frames[d] = m.frames[d]

\* lstf_vm_stack_setup_frame(), where there is room for a frame.
LEMMA SetupFrameIs ==
  ASSUME NEW m, NEW h \in Hands, Sound(m, h), m.status = "continue", NEW c \in Coroutines,
         NEW returns \in BOOLEAN, NEW closure \in Closures \cup {None}, NEW due \in Nat,
         closure \in Closures => m.closures[closure] # None,
         m.frames[c] = <<>> => ~returns,
         m.frames[c] # <<>> => returns /\ Frame(m, c).offset + due <= Len(m.values[c]),
         Len(m.frames[c]) + 1 < MaxFrames,
         NEW n, n = SetupFrame(m, c, returns, closure, due)
  PROVE  SetUp(m, n, c, h)
<1> DEFINE k == PushFrame(m, c, NewFrame(Len(m.values[c]), returns, closure, due))
           xs == <<closure>>
           j == [o \in Objects |-> h[o] - Occurrences(xs, o)]
<1>1. Len(m.frames[c]) \in Nat /\ MaxFrames \in Nat BY FramesAre, LimitsAssumption DEF Sound, Typed
<1>2. n = RefAll(k, xs) BY <1>1 DEF SetupFrame, Ok, Ref, NewFrame, PushFrame
<1>3. \A o : Occurrences(xs, o) \in Nat BY OccurrencesOne
<1>4. xs \in Seq(Things) /\ ToSet(xs) = {closure}
  <2>1. closure \in Things BY DEF Things, Value
  <2>2. QED BY <2>1, SingleElems
<1>5. xs \in Seq(Things) BY <1>4
<1>6. k = PushFrame(m, c, NewFrame(Len(m.values[c]), returns, closure, due)) OBVIOUS
<1>7. xs = <<closure>> OBVIOUS
<1> HIDE DEF xs, k
<1>8. j \in Hands
  <2>1. \A o \in Objects : h[o] - Occurrences(xs, o) \in Int BY <1>3 DEF Hands
  <2>2. QED BY <2>1 DEF Hands
<1>9. \A o \in Objects : j[o] = h[o] - Occurrences(<<closure>>, o) BY <1>7
<1>10. \A o \in Objects : h[o] = j[o] + Occurrences(xs, o) BY <1>3 DEF Hands
<1> HIDE DEF j
<1>11. Sound(k, j) /\ OnlyFramesOf(m, k, c) /\ k.frames[c] # <<>> BY <1>6, <1>8, <1>9, AddFrame
<1>12. Typed(k) /\ Stacked(k) /\ Counted(k, j) /\ Tracking(k) /\ Valued(k) /\ k \in MachineType
  BY <1>11 DEF Sound, Typed
<1>13. \A o \in Objects : o \in ToSet(xs) => Heap(k, o)[o] # None
  <2>1. ASSUME NEW o \in Objects, o \in ToSet(xs) PROVE Heap(k, o)[o] # None
    <3>1. o = closure BY <1>4, <2>1
    <3>2. o \in Closures BY <3>1, ObjectsAssumption DEF Objects
    <3>3. k.closures = m.closures BY <1>11 DEF OnlyFramesOf
    <3>4. QED BY <3>1, <3>2, <3>3 DEF Heap
  <2>2. QED BY <2>1
<1>14. Typed(k) BY <1>12
<1>15. Counted(k, j) BY <1>12
<1>16. Typed(n) /\ Counted(n, h) BY <1>2, <1>5, <1>8, <1>10, <1>13, <1>14, <1>15, RefAllCounts
<1>17. k \in MachineType BY <1>12
<1>18. /\ n \in MachineType /\ SameHeap(k, n)
       /\ n.values = k.values /\ n.frames = k.frames /\ n.status = k.status
       /\ n.variable = k.variable /\ n.kept = k.kept /\ n.freed = k.freed
  BY <1>2, <1>5, <1>17, RefAllIs
<1>19. Stacked(n) /\ Tracking(n) /\ Valued(n) BY <1>12, <1>18, SameHeapKeeps
<1>20. Sound(n, h) BY <1>16, <1>19 DEF Sound
<1>21. QED BY <1>11, <1>18, <1>20 DEF OnlyFramesOf, SetUp

----------------------------------------------------------------------------
(* What the instructions do to the machine.                                *)

NothingIs == \A o \in Objects : Nothing[o] = 0

\* Between instructions nothing is in hand.
LEMMA NothingInHand == Nothing \in Hands /\ NothingIs
BY DEF Nothing, Hands, NothingIs

\* An instruction of c leaves the rest of the invariant as it is.
Steps(m, n, c) ==
    /\ Outcome(n)
    /\ n.status \notin Aborted => n.freed = m.freed /\ \A d \in Coroutines \ {c} : n.frames[d] = m.frames[d]

\* A sound machine is a good result,
LEMMA SoundSteps ==
  ASSUME NEW m, NEW n, NEW c, Sound(n, Nothing), n.freed = m.freed,
         \A d \in Coroutines \ {c} : n.frames[d] = m.frames[d]
  PROVE  Steps(m, n, c)
BY DEF Steps, Outcome, Sound

\* ... and so is one that a failed assertion ended.
LEMMA AbortedSteps ==
  ASSUME NEW m, NEW n, NEW c, n.status \in Aborted
  PROVE  Steps(m, n, c)
BY DEF Steps, Outcome

\* An error status leaves stacks, frames and counts as they are.
LEMMA FailKeeps ==
  ASSUME NEW m, NEW h, Typed(m), Stacked(m), Counted(m, h), m.status \notin Aborted,
         NEW why \in Statuses, NEW n, n = Fail(m, why)
  PROVE  /\ Typed(n) /\ Stacked(n) /\ Counted(n, h)
         /\ n.status = why /\ n.freed = m.freed /\ n.frames = m.frames
<1>1. m \in MachineType /\ Bounded(m) BY DEF Typed
<1>2. n = [m EXCEPT !.status = why] BY DEF Fail
<1>3. /\ n \in MachineType /\ n.status = why
      /\ n.values = m.values /\ n.frames = m.frames /\ n.upvalues = m.upvalues /\ n.closures = m.closures
      /\ n.variable = m.variable /\ n.kept = m.kept /\ n.freed = m.freed
  BY <1>1, <1>2 DEF MachineType
<1>4. Typed(n) BY <1>1, <1>3 DEF Typed, Bounded
<1>5. Stacked(n) BY <1>3 DEF Stacked
<1>6. Counted(n, h)
  <2>1. \A o \in Objects : Refs(n, o) = Refs(m, o) /\ Keeps(n, o) = Keeps(m, o) /\ Heap(n, o)[o] = Heap(m, o)[o]
    BY <1>3 DEF Refs, Keeps, Heap
  <2>2. \A o \in Objects : Holders(n, o) = Holders(m, o)
    BY <1>3 DEF Holders, HeldByPlaces, HeldByBoxes, HeldByFrames, HeldByClosures
  <2>3. QED BY <2>1, <2>2 DEF Counted
<1>7. QED BY <1>3, <1>4, <1>5, <1>6

\* An error ends the program; nothing is lost by it.
LEMMA FailSteps ==
  ASSUME NEW m, Sound(m, Nothing), m.status \notin Aborted,
         NEW why \in Statuses \ {"continue"}, NEW c, NEW n, n = Fail(m, why)
  PROVE  Steps(m, n, c)
<1>1. Typed(m) /\ Stacked(m) /\ Counted(m, Nothing) BY DEF Sound
<1>2. /\ Typed(n) /\ Stacked(n) /\ Counted(n, Nothing)
      /\ n.status = why /\ n.freed = m.freed /\ n.frames = m.frames
  BY <1>1, FailKeeps
<1>3. QED BY <1>2 DEF Steps, Outcome

\* References that are counted.
LEMMA RefAllSound ==
  ASSUME NEW m, NEW h \in Hands, Sound(m, h), NEW xs \in Seq(Things),
         \A o \in Objects : o \in ToSet(xs) => Heap(m, o)[o] # None,
         NEW k \in Hands, \A o \in Objects : k[o] = h[o] + Occurrences(xs, o),
         NEW n, n = RefAll(m, xs)
  PROVE  /\ Sound(n, k) /\ SameHeap(m, n) /\ n.values = m.values /\ n.frames = m.frames
         /\ n.status = m.status /\ n.freed = m.freed
<1>1. Typed(m) /\ Stacked(m) /\ Counted(m, h) /\ Tracking(m) /\ Valued(m) /\ m \in MachineType
  BY DEF Sound, Typed
<1>2. Typed(m) BY <1>1
<1>3. Counted(m, h) BY <1>1
<1>4. Typed(n) /\ Counted(n, k) BY <1>2, <1>3, RefAllCounts
<1>5. m \in MachineType BY <1>1
<1>6. /\ n \in MachineType /\ SameHeap(m, n)
      /\ n.values = m.values /\ n.frames = m.frames /\ n.status = m.status
      /\ n.variable = m.variable /\ n.kept = m.kept /\ n.freed = m.freed
  BY <1>5, RefAllIs
<1>7. Stacked(n) /\ Tracking(n) /\ Valued(n) BY <1>1, <1>6, SameHeapKeeps
<1>8. QED BY <1>4, <1>6, <1>7 DEF Sound

\* A reference goes out of scope.
LEMMA LoseIs ==
  ASSUME NEW m, NEW h \in Hands, Typed(m), Stacked(m), Counted(m, h), m.status \notin Aborted,
         NEW x \in Things \ Upvalues,
         NEW k \in Hands, \A o \in Objects : k[o] = h[o] - Occurrences(<<x>>, o),
         NEW n, n = Lose(m, x)
  PROVE  /\ Typed(n) /\ Stacked(n) /\ Counted(n, k)
         /\ Tracking(m) => Tracking(n)
         /\ Valued(m) => Valued(n)
         /\ n.status = m.status /\ n.freed = m.freed /\ n.frames = m.frames
<1>1. m \in MachineType /\ Bounded(m) BY DEF Typed
<1>2. \A o \in Objects : Occurrences(<<x>>, o) = IF o = x THEN 1 ELSE 0 BY OccurrencesOne
<1>3. /\ n \in MachineType /\ n.status = m.status
      /\ n.values = m.values /\ n.frames = m.frames /\ n.upvalues = m.upvalues /\ n.closures = m.closures
      /\ n.variable = m.variable /\ n.freed = m.freed
      /\ \A y \in Closures : n.kept[y] = IF y = x THEN m.kept[y] + 1 ELSE m.kept[y]
  <2>1. CASE x \in Closures
    <3> DEFINE new == [m.kept EXCEPT ![x] = @ + 1]
    <3>1. m.kept \in [Closures -> Nat] BY <1>1, MachineIs
    <3>2. new \in [Closures -> Nat] /\ \A y \in Closures : new[y] = IF y = x THEN m.kept[y] + 1 ELSE m.kept[y]
      BY <2>1, <3>1
    <3>3. n = [m EXCEPT !.kept = new] BY <2>1 DEF Lose
    <3> HIDE DEF new
    <3>4. QED BY <1>1, <3>2, <3>3 DEF MachineType
  <2>2. CASE x \notin Closures BY <1>1, <2>2 DEF Lose
  <2>3. QED BY <2>1, <2>2
<1>4. Typed(n) BY <1>1, <1>3 DEF Typed, Bounded
<1>5. Stacked(n) BY <1>3 DEF Stacked
<1>6. ASSUME NEW o \in Objects
      PROVE  Refs(n, o) = Holders(n, o) + Keeps(n, o) + k[o] /\ (Heap(n, o)[o] # None => Refs(n, o) >= 1)
  <2>1. Refs(n, o) = Refs(m, o) /\ Heap(n, o)[o] = Heap(m, o)[o] BY <1>3 DEF Refs, Heap
  <2>2. Holders(n, o) = Holders(m, o)
    BY <1>3 DEF Holders, HeldByPlaces, HeldByBoxes, HeldByFrames, HeldByClosures
  <2>3. Keeps(m, o) \in Nat /\ Holders(m, o) \in Nat BY <1>1, RefsAre
  <2>4. Keeps(n, o) = Keeps(m, o) + Occurrences(<<x>>, o)
    <3>1. CASE o \in Closures BY <1>2, <1>3, <2>3, <3>1 DEF Keeps
    <3>2. CASE o \notin Closures
      <4>1. o # x BY <3>2 DEF Objects
      <4>2. QED BY <1>2, <2>3, <3>2, <4>1 DEF Keeps
    <3>3. QED BY <3>1, <3>2
  <2>5. k[o] = h[o] - Occurrences(<<x>>, o) /\ h[o] \in Int BY DEF Hands
  <2>6. Refs(m, o) = Holders(m, o) + Keeps(m, o) + h[o] /\ (Heap(m, o)[o] # None => Refs(m, o) >= 1)
    BY DEF Counted
  <2>7. Occurrences(<<x>>, o) \in Nat BY <1>2
  <2>8. QED BY <2>1, <2>2, <2>3, <2>4, <2>5, <2>6, <2>7
<1>7. Counted(n, k) BY <1>6 DEF Counted
<1>8. SameHeap(m, n) BY <1>3 DEF SameHeap, SameUpvalue, SameClosure, UpsOf
<1>9. n \in MachineType /\ n.values = m.values /\ n.frames = m.frames /\ n.variable = m.variable
  BY <1>3
<1>10. QED BY <1>3, <1>4, <1>5, <1>7, <1>8, <1>9, SameHeapKeeps

\* A value that the stack of c gets a reference to.
LEMMA PushRefSteps ==
  ASSUME NEW m, Sound(m, Nothing), m.status = "continue", NEW c \in Coroutines, m.frames[c] # <<>>,
         NEW v \in Value, v \in Closures => m.closures[v] # None,
         NEW p, p = Push(m, c, v), NEW n, n = IF Ok(p) THEN Ref(p, v) ELSE p
  PROVE  Steps(m, n, c)
<1> DEFINE vs == <<v>>
           k == [o \in Objects |-> 0 - Occurrences(vs, o)]
<1>0. m.status \notin Aborted /\ "stack_overflow" \in Statuses \ {"continue"} /\ m \in MachineType
  BY DEF Aborted, Statuses, Sound, Typed
<1>1. vs \in Seq(Value) /\ Len(vs) = 1 /\ vs \in Seq(Things) /\ ToSet(vs) = {v}
  <2>1. v \in Things BY DEF Things
  <2>2. QED BY <2>1, SingleElems
<1>2. CASE Room(m, c) < 1
  <2>1. p = Fail(m, "stack_overflow") BY <1>2 DEF Push, Ok
  <2>2. Steps(m, p, c) BY <1>0, <2>1, FailSteps
  <2>3. ~Ok(p) BY <1>0, <2>1 DEF Fail, Ok, MachineType
  <2>4. QED BY <2>2, <2>3
<1>3. CASE ~(Room(m, c) < 1)
  <2>1. p = Lay(m, c, vs) BY <1>3 DEF Push, Ok
  <2>2. Len(m.values[c]) + Len(vs) < MaxValues
    <3>1. Len(m.values[c]) \in Nat /\ MaxValues \in Nat BY <1>0, ValsAre, LimitsAssumption
    <3>2. Len(vs) = 1 BY <1>1
    <3> DEFINE K == Len(m.values[c])
               L == Len(vs)
    <3>3. K \in Nat /\ MaxValues \in Nat /\ L = 1 /\ ~(MaxValues - 1 - K < 1)
      BY <1>3, <3>1, <3>2 DEF Room
    <3> HIDE DEF K, L
    <3>4. K + L < MaxValues BY <3>3
    <3>5. QED BY <3>4 DEF K, L
  <2>3. vs \in Seq(Value) BY <1>1
  <2>4. vs \in Seq(Things) BY <1>1
  <2>5. \A o : Occurrences(vs, o) \in Nat BY <2>3, OccurrencesIs
  <2>13. n = IF Ok(p) THEN RefAll(p, vs) ELSE p BY DEF Ref
  <2> HIDE DEF vs
  <2>6. k \in Hands
    <3>1. \A o \in Objects : 0 - Occurrences(vs, o) \in Int BY <2>5
    <3>2. QED BY <3>1 DEF Hands
  <2>7. \A o \in Objects : Nothing[o] = k[o] + Occurrences(vs, o) BY <2>5 DEF Nothing
  <2> HIDE DEF k
  <2>8. Nothing \in Hands BY NothingInHand
  <2>9. Sound(p, k) BY <2>1, <2>2, <2>3, <2>6, <2>7, <2>8, LaySound
  <2>10. OnlyPlacesOf(m, p, c) BY <1>0, <2>1, <2>3, LayIs
  <2>11. p.frames = m.frames /\ p.status = m.status /\ p.freed = m.freed /\ p.closures = m.closures
    BY <2>10 DEF OnlyPlacesOf
  <2>12. n = RefAll(p, vs) BY <2>11, <2>13 DEF Ok
  <2>14. \A o \in Objects : o \in ToSet(vs) => Heap(p, o)[o] # None
    <3>1. ASSUME NEW o \in Objects, o \in ToSet(vs) PROVE Heap(p, o)[o] # None
      <4>1. o = v BY <1>1, <3>1 DEF vs
      <4>2. o \in Closures BY <4>1, ObjectsAssumption DEF Objects, Value
      <4>3. QED BY <2>11, <4>1, <4>2 DEF Heap
    <3>2. QED BY <3>1
  <2>15. /\ Sound(n, Nothing) /\ n.frames = p.frames /\ n.freed = p.freed
    BY <2>4, <2>6, <2>7, <2>8, <2>9, <2>12, <2>14, RefAllSound
  <2>16. QED BY <2>11, <2>15, SoundSteps
<1>4. QED BY <1>2, <1>3

\* A constant is pushed.
LEMMA LoadImmediateSteps ==
  ASSUME NEW m, Sound(m, Nothing), m.status = "continue", NEW c \in Coroutines, m.frames[c] # <<>>,
         NEW v \in Data, NEW n, n = Push(m, c, v)
  PROVE  Steps(m, n, c)
<1> DEFINE vs == <<v>>
<1>1. m.status \notin Aborted /\ "stack_overflow" \in Statuses \ {"continue"} /\ m \in MachineType
  BY DEF Aborted, Statuses, Sound, Typed
<1>2. vs \in Seq(Value) /\ Len(vs) = 1 BY DEF Value
<1>3. \A o \in Objects : Occurrences(vs, o) = 0
  <2>1. \A o \in Objects : o # v BY ObjectsAssumption DEF Objects
  <2>2. QED BY <2>1, OccurrencesOne
<1>4. n = IF Room(m, c) < 1 THEN Fail(m, "stack_overflow") ELSE Lay(m, c, vs) BY DEF Push, Ok
<1> HIDE DEF vs
<1>5. CASE Room(m, c) < 1 BY <1>1, <1>4, <1>5, FailSteps
<1>6. CASE ~(Room(m, c) < 1)
  <2>1. Len(m.values[c]) + Len(vs) < MaxValues
    <3>1. Len(m.values[c]) \in Nat /\ MaxValues \in Nat BY <1>1, ValsAre, LimitsAssumption
    <3> DEFINE K == Len(m.values[c])
               L == Len(vs)
    <3>2. K \in Nat /\ MaxValues \in Nat /\ L = 1 /\ ~(MaxValues - 1 - K < 1)
      BY <1>2, <1>6, <3>1 DEF Room
    <3> HIDE DEF K, L
    <3>3. K + L < MaxValues BY <3>2
    <3>4. QED BY <3>3 DEF K, L
  <2>2. n = Lay(m, c, vs) BY <1>4, <1>6
  <2>3. vs \in Seq(Value) BY <1>2
  <2>4. Nothing \in Hands /\ \A o \in Objects : Nothing[o] = Nothing[o] + Occurrences(vs, o)
    BY <1>3, NothingInHand DEF NothingIs
  <2>5. Nothing \in Hands BY <2>4
  <2>6. Sound(n, Nothing) BY <2>1, <2>2, <2>3, <2>4, <2>5, LaySound
  <2>7. OnlyPlacesOf(m, n, c) BY <1>1, <2>2, <2>3, LayIs
  <2>8. n.freed = m.freed /\ \A d \in Coroutines \ {c} : n.frames[d] = m.frames[d]
    BY <2>7 DEF OnlyPlacesOf
  <2>9. QED BY <2>6, <2>8, SoundSteps
<1>7. QED BY <1>5, <1>6

\* A copy of a place is pushed, with a reference of its own.
LEMMA LoadFrameOffsetSteps ==
  ASSUME NEW m, Sound(m, Nothing), m.status = "continue", NEW c \in Coroutines, m.frames[c] # <<>>,
         NEW i \in DOMAIN m.values[c], NEW v, v = m.values[c][i].v,
         NEW p, p = Push(m, c, v), NEW n, n = IF Ok(p) THEN Ref(p, v) ELSE p
  PROVE  Steps(m, n, c)
<1>1. Typed(m) /\ Counted(m, Nothing) /\ m \in MachineType BY DEF Sound, Typed
<1>2. v \in Value BY <1>1, ValsAre
<1>3. Nothing \in Hands /\ \A o \in Objects : Nothing[o] >= 0 BY NothingInHand DEF NothingIs
<1>4. v \in Closures => m.closures[v] # None BY <1>1, <1>3, HeldIsLive
<1>5. QED BY <1>2, <1>4, PushRefSteps

\* A copy of what an up-value has is pushed.
LEMMA UpGetSteps ==
  ASSUME NEW m, Sound(m, Nothing), m.status = "continue", NEW c \in Coroutines, m.frames[c] # <<>>,
         NEW x \in Closures, NEW i \in DOMAIN UpsOf(m, x), NEW v, v = ValueOf(m, UpsOf(m, x)[i]),
         NEW p, p = Push(m, c, v), NEW n, n = IF Ok(p) THEN Ref(p, v) ELSE p
  PROVE  Steps(m, n, c)
<1> DEFINE u == UpsOf(m, x)[i]
<1>1. Typed(m) /\ Counted(m, Nothing) /\ m \in MachineType /\ Tracking(m) BY DEF Sound, Typed
<1>2. Nothing \in Hands /\ \A o \in Objects : Nothing[o] >= 0 BY NothingInHand DEF NothingIs
<1>3. u \in Upvalues /\ m.upvalues[u] # None
  <2>1. UpsOf(m, x) \in Seq(Upvalues) BY <1>1, UpsAre
  <2>2. u \in Upvalues BY <2>1
  <2>3. m.upvalues[u] # None BY <1>1, <1>2, HeldIsLive
  <2>4. QED BY <2>2, <2>3
<1>4. v = ValueOf(m, u) OBVIOUS
<1> HIDE DEF u
<1>5. v \in Value /\ (v \in Closures => m.closures[v] # None)
  <2>1. CASE m.upvalues[u].open
    <3> DEFINE d == m.upvalues[u].cr
               q == m.upvalues[u].at
    <3>1. d \in Coroutines /\ q \in Nat /\ Aliases(m, u, d, q)
      BY <1>1, <1>3, <2>1, UpvalueIs DEF Aliases
    <3>2. v = m.values[d][q].v BY <1>4, <2>1 DEF ValueOf
    <3> HIDE DEF d, q
    <3>3. q \in DOMAIN m.values[d] BY <1>1, <1>3, <3>1 DEF Tracking
    <3>4. v \in Value BY <1>1, <3>1, <3>2, <3>3, ValsAre
    <3>5. QED BY <1>1, <1>2, <3>1, <3>2, <3>3, <3>4, HeldIsLive
  <2>2. CASE ~m.upvalues[u].open
    <3>1. v = m.upvalues[u].v /\ v \in Value BY <1>1, <1>3, <1>4, <2>2, UpvalueIs DEF ValueOf
    <3>2. QED BY <1>1, <1>2, <1>3, <2>2, <3>1, HeldIsLive
  <2>3. QED BY <2>1, <2>2
<1>6. v \in Value BY <1>5
<1>7. QED BY <1>5, <1>6, PushRefSteps

\* The value on top is popped and cleared.
LEMMA PopTopSteps ==
  ASSUME NEW m, Sound(m, Nothing), m.status = "continue", NEW c \in Coroutines, m.frames[c] # <<>>,
         Len(m.values[c]) > Frame(m, c).offset,
         NEW n, n = Discard(m, c)
  PROVE  Steps(m, n, c)
<1>1. Nothing \in Hands /\ \A o \in Objects : Nothing[o] >= 0 BY NothingInHand DEF NothingIs
<1>2. n.status \in Aborted \/ (Sound(n, Nothing) /\ Fewer(m, n, c, 1)) BY <1>1, DiscardIs
<1>3. CASE n.status \in Aborted BY <1>3, AbortedSteps
<1>4. CASE Sound(n, Nothing) /\ Fewer(m, n, c, 1)
  <2>1. n.freed = m.freed /\ \A d \in Coroutines \ {c} : n.frames[d] = m.frames[d] BY <1>4 DEF Fewer
  <2>2. QED BY <1>4, <2>1, SoundSteps
<1>5. QED BY <1>2, <1>3, <1>4

\* Another value at a place that is not captured; the instruction had it, and has the old one.
PutValue(m, c, p, v) == [m EXCEPT !.values[c][p].v = v]

\* Another value at a place: the old one is in hand.
LEMMA PutValueSound ==
  ASSUME NEW m, NEW h \in Hands, Sound(m, h), NEW c \in Coroutines, NEW p \in 1 .. Len(m.values[c]),
         ~m.values[c][p].captured, NEW v \in Value, NEW n, n = PutValue(m, c, p, v),
         NEW k \in Hands,
         \A o \in Objects : k[o] + Occurrences(<<v>>, o) = h[o] + Occurrences(<<m.values[c][p].v>>, o)
  PROVE  Sound(n, k) /\ OnlyPlacesOf(m, n, c)
<1> DEFINE r == [m.values[c][p] EXCEPT !.v = v]
           s == [m.values[c] EXCEPT ![p] = r]
           L == Len(m.values[c])
<1>1. Typed(m) /\ m \in MachineType /\ Counted(m, h) /\ Stacked(m) /\ Tracking(m) /\ Valued(m)
  BY DEF Sound, Typed
<1>2. m.values[c] \in Seq(Slot) /\ L \in Nat /\ m.values[c][p] \in Slot BY <1>1, ValsAre
<1>3. r \in Slot /\ r.v = v /\ ~r.captured BY <1>2 DEF Slot
<1> HIDE DEF r
<1>4. s \in [1 .. L -> Slot] BY <1>2, <1>3
<1>5. s \in Seq(Slot) BY <1>2, <1>4
<1>6. Len(s) = L /\ s[p] = r /\ \A q \in 1 .. L : q # p => s[q] = m.values[c][q] BY <1>2, <1>4
<1>7. n = [m EXCEPT !.values[c] = s] BY DEF r, PutValue
<1> HIDE DEF s
<1>8. n \in MachineType /\ n.values[c] = s /\ OnlyPlacesOf(m, n, c) BY <1>1, <1>5, <1>7, WithPlaces
<1>9. /\ \A d \in Coroutines \ {c} : n.values[d] = m.values[d]
      /\ n.frames = m.frames /\ n.upvalues = m.upvalues /\ n.closures = m.closures
      /\ n.status = m.status /\ n.variable = m.variable /\ n.kept = m.kept /\ n.freed = m.freed
  BY <1>8 DEF OnlyPlacesOf
<1>10. \A d \in Coroutines : Len(n.values[d]) = Len(m.values[d]) BY <1>6, <1>8, <1>9
<1>11. Typed(n) BY <1>1, <1>8, <1>9, <1>10 DEF Typed, Bounded
<1>12. Stacked(n)
  <2>1. \A d \in Coroutines : m.values[d] = <<>> => n.values[d] = <<>>
    <3>1. \A d \in Coroutines : m.values[d] \in Seq(Slot) /\ n.values[d] \in Seq(Slot)
      BY <1>1, <1>8, ValsAre
    <3>2. QED BY <1>10, <3>1
  <2>2. QED BY <1>1, <1>9, <1>10, <2>1 DEF Stacked
<1>13. \A d \in Coroutines \ {c} : Vals(n, d) = Vals(m, d) BY <1>8, OtherVals
<1>14. ASSUME NEW o \in Objects
       PROVE  k[o] + Occurrences(Vals(n, c), o) = h[o] + Occurrences(Vals(m, c), o)
  <2> DEFINE a == Vals(m, c)
             b == Vals(n, c)
  <2>1. a \in Seq(Value) /\ Len(a) = L /\ \A i \in 1 .. L : a[i] = m.values[c][i].v BY <1>1, ValsAre
  <2>2. b \in Seq(Value) /\ Len(b) = L /\ \A i \in 1 .. L : b[i] = n.values[c][i].v
    BY <1>8, <1>10, ValsAre
  <2>3. p \in 1 .. Len(a) /\ Len(b) = Len(a) /\ \A i \in 1 .. Len(a) : i # p => b[i] = a[i]
    BY <1>6, <1>8, <2>1, <2>2
  <2>4. a[p] = m.values[c][p].v /\ b[p] = v BY <1>3, <1>6, <1>8, <2>1, <2>2
  <2>5. a \in Seq(Value) BY <2>1
  <2>6. b \in Seq(Value) BY <2>2
  <2> HIDE DEF a, b
  <2>7. Occurrences(b, o) + Occurrences(<<a[p]>>, o) = Occurrences(a, o) + Occurrences(<<b[p]>>, o)
    BY <2>3, <2>5, <2>6, OccurrencesPut
  <2>8. Occurrences(a, o) \in Nat /\ Occurrences(b, o) \in Nat BY <2>5, <2>6, OccurrencesIs
  <2> DEFINE x == Occurrences(<<a[p]>>, o)
             y == Occurrences(<<b[p]>>, o)
  <2>9. x \in Nat /\ y \in Nat BY OccurrencesOne
  <2>10. k[o] + y = h[o] + x /\ k[o] \in Int /\ h[o] \in Int BY <2>4 DEF Hands
  <2>11. Occurrences(b, o) + x = Occurrences(a, o) + y BY <2>7
  <2> DEFINE i == Occurrences(a, o)
             j == Occurrences(b, o)
             e == k[o]
             f == h[o]
  <2>12. /\ x \in Nat /\ y \in Nat /\ i \in Nat /\ j \in Nat /\ e \in Int /\ f \in Int
         /\ e + y = f + x /\ j + x = i + y
    BY <2>8, <2>9, <2>10, <2>11
  <2> HIDE DEF x, y, i, j, e, f
  <2>13. e + j = f + i BY <2>12
  <2>14. QED BY <2>13 DEF a, b, i, j, e, f
<1>15. Counted(n, k) BY <1>1, <1>9, <1>11, <1>13, <1>14, PlacesCount
<1>16. ASSUME NEW d \in Coroutines, NEW q \in DOMAIN m.values[d], m.values[d][q].captured
       PROVE  q \in DOMAIN n.values[d] /\ n.values[d][q] = m.values[d][q]
  <2>1. q \in 1 .. Len(m.values[d]) /\ DOMAIN n.values[d] = 1 .. Len(n.values[d])
    BY <1>1, <1>8, ValsAre
  <2>2. CASE d = c BY <1>6, <1>8, <1>10, <1>16, <2>1, <2>2
  <2>3. CASE d # c BY <1>9, <1>16, <2>3
  <2>4. QED BY <2>2, <2>3
<1>17. ASSUME NEW d \in Coroutines, NEW q \in DOMAIN n.values[d], n.values[d][q].captured
       PROVE  q \in DOMAIN m.values[d] /\ m.values[d][q].captured
  <2>1. q \in 1 .. Len(n.values[d]) /\ DOMAIN m.values[d] = 1 .. Len(m.values[d])
    BY <1>1, <1>8, ValsAre
  <2>2. CASE d = c BY <1>3, <1>6, <1>8, <1>10, <1>17, <2>1, <2>2
  <2>3. CASE d # c BY <1>9, <1>17, <2>3
  <2>4. QED BY <2>2, <2>3
<1>18. Tracking(n) /\ Valued(n) BY <1>1, <1>8, <1>9, <1>16, <1>17, PlacesTrack
<1>19. QED BY <1>8, <1>11, <1>12, <1>15, <1>18 DEF Sound

\* All that is in hand is dropped.
LEMMA DropSteps ==
  ASSUME NEW m, NEW xs \in Seq(Things), NEW h \in Hands, \A o \in Objects : h[o] = Occurrences(xs, o),
         Sound(m, h), m.status \notin Aborted, NEW n, n = UnrefAll(m, xs), NEW c
  PROVE  Steps(m, n, c)
<1>1. \A o \in Objects : Nothing[o] >= 0 /\ h[o] = Nothing[o] + Occurrences(xs, o)
  <2>1. \A o : Occurrences(xs, o) \in Nat BY OccurrencesIs
  <2>2. QED BY <2>1, NothingInHand DEF NothingIs
<1>2. Nothing \in Hands BY NothingInHand
<1>3. \/ n.status \in Aborted
      \/ /\ Sound(n, Nothing)
         /\ n.frames = m.frames /\ n.status = m.status /\ n.freed = m.freed
         /\ \A d \in Coroutines : Len(n.values[d]) = Len(m.values[d])
  BY <1>1, <1>2, UnrefAllSound
<1>4. QED BY <1>3, AbortedSteps, SoundSteps

\* A step from a machine with the same frames.
LEMMA StepsAfter ==
  ASSUME NEW m, NEW p, NEW n, NEW c, Steps(p, n, c), p.frames = m.frames, p.freed = m.freed
  PROVE  Steps(m, n, c)
BY DEF Steps

\* The value on top is taken.
LEMMA PopInHand ==
  ASSUME NEW m, Sound(m, Nothing), m.status = "continue", NEW c \in Coroutines, m.frames[c] # <<>>,
         Len(m.values[c]) > Frame(m, c).offset, NEW n, n = Pop(m, c),
         NEW v, v = Top(m, c), NEW k, k = With(Nothing, <<v>>)
  PROVE  /\ v \in Value /\ k \in Hands /\ \A o \in Objects : k[o] = Occurrences(<<v>>, o) /\ k[o] >= 0
         /\ Sound(n, k) /\ Popped(m, n, c)
         /\ n.frames = m.frames /\ n.freed = m.freed /\ n.status = "continue"
         /\ Len(n.values[c]) = Len(m.values[c]) - 1
<1>1. m \in MachineType BY DEF Sound, Typed
<1>2. v \in Value
  <2>1. Len(m.values[c]) \in 1 .. Len(m.values[c]) /\ v = m.values[c][Len(m.values[c])].v
    <3>1. Len(m.values[c]) \in Nat /\ Frame(m, c).offset \in Nat BY <1>1, ValsAre, TopFrame
    <3>2. QED BY <3>1 DEF Top, Last
  <2>2. QED BY <1>1, <2>1, ValsAre
<1> DEFINE xs == <<v>>
<1>3. xs \in Seq(Things) BY <1>2, SingleElems DEF Things
<1>4. Nothing \in Hands /\ NothingIs BY NothingInHand
<1>5. k \in Hands /\ \A o \in Objects : k[o] = Nothing[o] + Occurrences(xs, o) BY <1>3, <1>4, WithIs
<1>6. \A o \in Objects : k[o] = Occurrences(<<v>>, o) /\ k[o] >= 0
  <2>1. \A o : Occurrences(xs, o) \in Nat BY OccurrencesOne
  <2>2. QED BY <1>4, <1>5, <2>1 DEF NothingIs
<1>7. \A o \in Objects : k[o] = Nothing[o] + Occurrences(<<Top(m, c)>>, o) BY <1>5
<1>8. k \in Hands BY <1>5
<1>9. \A o \in Objects : Nothing[o] >= 0 BY <1>4 DEF NothingIs
<1>10. Nothing \in Hands BY <1>4
<1> HIDE DEF xs
<1>11. Sound(n, k) /\ Popped(m, n, c) BY <1>7, <1>8, <1>9, <1>10, PopSound
<1>12. QED BY <1>2, <1>6, <1>8, <1>11 DEF Popped, SameOutside

\* A value that the instruction has is stored.
LEMMA SetSteps ==
  ASSUME NEW p, NEW h \in Hands, Sound(p, h), p.status = "continue", NEW d \in Coroutines,
         NEW v \in Value, \A o \in Objects : h[o] = Occurrences(<<v>>, o),
         NEW place \in 1 .. Len(p.values[d]), NEW n, n = Set(p, d, place, v), NEW c
  PROVE  Steps(p, n, c)
<1>1. CASE p.values[d][place].captured
  <2>1. n = Fail(p, "captured_value_cleared") BY <1>1 DEF Set, Ok
  <2>2. "captured_value_cleared" \in Statuses /\ "captured_value_cleared" \in Aborted /\ p \in MachineType
    BY DEF Statuses, Aborted, Sound, Typed
  <2>3. n.status \in Aborted BY <2>1, <2>2, FailIs
  <2>4. QED BY <2>3, AbortedSteps
<1>2. CASE ~p.values[d][place].captured
  <2> DEFINE old == p.values[d][place].v
             xs == <<old>>
             q == PutValue(p, d, place, v)
             k == With(Nothing, xs)
  <2>1. n = UnrefAll(q, xs) BY <1>2 DEF Set, Ok, PutValue
  <2>2. old \in Value BY ValsAre DEF Sound, Typed
  <2>3. xs \in Seq(Things) /\ \A o : Occurrences(xs, o) \in Nat
    BY <2>2, SingleElems, OccurrencesOne DEF Things
  <2>4. q = PutValue(p, d, place, v) OBVIOUS
  <2>5. \A o : Occurrences(xs, o) = Occurrences(<<p.values[d][place].v>>, o) OBVIOUS
  <2> HIDE DEF q, xs
  <2>6. k \in Hands /\ \A o \in Objects : k[o] = Nothing[o] + Occurrences(xs, o)
    BY <2>3, NothingInHand, WithIs
  <2>7. \A o \in Objects : k[o] = Occurrences(xs, o) BY <2>3, <2>6, NothingInHand DEF NothingIs
  <2>8. k \in Hands BY <2>6
  <2> HIDE DEF k
  <2>9. \A o \in Objects : k[o] + Occurrences(<<v>>, o) = h[o] + Occurrences(<<p.values[d][place].v>>, o)
    <3>1. ASSUME NEW o \in Objects
          PROVE  k[o] + Occurrences(<<v>>, o) = h[o] + Occurrences(<<p.values[d][place].v>>, o)
      <4>1. k[o] = Occurrences(<<p.values[d][place].v>>, o) /\ k[o] \in Nat BY <2>3, <2>5, <2>7
      <4>2. h[o] = Occurrences(<<v>>, o) /\ h[o] \in Nat BY OccurrencesOne
      <4>3. QED BY <4>1, <4>2
    <3>2. QED BY <3>1
  <2>10. Sound(q, k) /\ OnlyPlacesOf(p, q, d) BY <1>2, <2>4, <2>8, <2>9, PutValueSound
  <2>11. q.frames = p.frames /\ q.freed = p.freed /\ q.status = p.status BY <2>10 DEF OnlyPlacesOf
  <2>12. q.status \notin Aborted BY <2>11 DEF Aborted
  <2>13. Sound(q, k) BY <2>10
  <2>14. xs \in Seq(Things) BY <2>3
  <2>15. Steps(q, n, c) BY <2>1, <2>7, <2>8, <2>12, <2>13, <2>14, DropSteps
  <2>16. QED BY <2>11, <2>15, StepsAfter
<1>3. QED BY <1>1, <1>2

\* The value on top is moved to a place below it.
LEMMA StoreSteps ==
  ASSUME NEW m, Sound(m, Nothing), m.status = "continue", NEW c \in Coroutines, m.frames[c] # <<>>,
         Len(m.values[c]) > Frame(m, c).offset, NEW place \in 1 .. Len(m.values[c]) - 1,
         NEW n, n = Set(Pop(m, c), c, place, Top(m, c))
  PROVE  Steps(m, n, c)
<1> DEFINE p == Pop(m, c)
           v == Top(m, c)
           k == With(Nothing, <<v>>)
<1>1. p = Pop(m, c) OBVIOUS
<1>2. k = With(Nothing, <<v>>) OBVIOUS
<1> HIDE DEF p, k
<1>3. /\ v \in Value /\ k \in Hands /\ \A o \in Objects : k[o] = Occurrences(<<v>>, o) /\ k[o] >= 0
      /\ Sound(p, k) /\ Popped(m, p, c)
      /\ p.frames = m.frames /\ p.freed = m.freed /\ p.status = "continue"
      /\ Len(p.values[c]) = Len(m.values[c]) - 1
  BY <1>1, <1>2, PopInHand
<1>4. v \in Value BY <1>3
<1>5. n = Set(p, c, place, v) BY <1>1
<1> HIDE DEF v
<1>6. place \in 1 .. Len(p.values[c]) BY <1>3
<1>7. k \in Hands BY <1>3
<1>8. Sound(p, k) BY <1>3
<1>9. \A o \in Objects : k[o] = Occurrences(<<v>>, o) BY <1>3
<1>10. p.status = "continue" BY <1>3
<1>11. Steps(p, n, c) BY <1>4, <1>5, <1>6, <1>7, <1>8, <1>9, <1>10, SetSteps
<1>12. QED BY <1>3, <1>11, StepsAfter

\* Another value in a closed up-value.
NewVariable(m, u, v) == [m EXCEPT !.variable[u] = v]
PutBox(m, u, v) == [m EXCEPT !.upvalues[u].v = v]

\* A closed up-value with another value.
LEMMA BoxWith ==
  ASSUME NEW r \in BoxedValue, NEW v \in Value, NEW s, s = [r EXCEPT !.v = v]
  PROVE  s \in BoxedValue /\ s.refs = r.refs /\ s.v = v /\ ~s.open
BY DEF BoxedValue

\* Storing into a closed up-value changes it and its variable,
LEMMA PutBoxIs ==
  ASSUME NEW m \in MachineType, NEW u \in Upvalues, m.upvalues[u] # None, ~m.upvalues[u].open,
         NEW v \in Value, NEW p, p = NewVariable(m, u, v), NEW n, n = PutBox(p, u, v)
  PROVE  /\ n \in MachineType
         /\ \A w \in Upvalues \ {u} : n.upvalues[w] = m.upvalues[w] /\ n.variable[w] = m.variable[w]
         /\ n.upvalues[u] \in BoxedValue /\ n.upvalues[u].refs = m.upvalues[u].refs
         /\ n.upvalues[u].v = v /\ ~n.upvalues[u].open /\ n.variable[u] = v
         /\ n.values = m.values /\ n.frames = m.frames /\ n.closures = m.closures
         /\ n.status = m.status /\ n.kept = m.kept /\ n.freed = m.freed
<1> DEFINE new == [m.variable EXCEPT ![u] = v]
<1>1. m.variable \in Variables BY MachineIs
<1>2. new \in Variables /\ new[u] = v /\ \A w \in Upvalues \ {u} : new[w] = m.variable[w]
  BY <1>1 DEF Variables
<1>3. p = [m EXCEPT !.variable = new] BY DEF NewVariable
<1> HIDE DEF new
<1>4. /\ p \in MachineType /\ p.variable = new
      /\ p.values = m.values /\ p.frames = m.frames /\ p.upvalues = m.upvalues /\ p.closures = m.closures
      /\ p.status = m.status /\ p.kept = m.kept /\ p.freed = m.freed
  BY <1>2, <1>3, WithVariable
<1> DEFINE r == [p.upvalues[u] EXCEPT !.v = v]
<1>5. p.upvalues[u] \in BoxedValue BY <1>4, UpvalueIs
<1>6. r \in BoxedValue /\ r.refs = m.upvalues[u].refs /\ r.v = v /\ ~r.open BY <1>4, <1>5, BoxWith
<1>7. n = SetUpvalue(p, u, r) BY DEF PutBox, SetUpvalue
<1> HIDE DEF r
<1>8. r \in AnyUpvalue BY <1>6 DEF AnyUpvalue
<1>9. p \in MachineType BY <1>4
<1>10. n \in MachineType /\ n.upvalues[u] = r /\ OnlyUpvalueOf(p, n, u)
  BY <1>7, <1>8, <1>9, WithUpvalue
<1>11. QED BY <1>2, <1>4, <1>6, <1>10 DEF OnlyUpvalueOf

\* ... and the old value is in hand.
LEMMA PutBoxSound ==
  ASSUME NEW m, NEW h \in Hands, Sound(m, h), NEW u \in Upvalues, m.upvalues[u] # None, ~m.upvalues[u].open,
         NEW v \in Value, NEW p, p = NewVariable(m, u, v), NEW n, n = PutBox(p, u, v),
         NEW k \in Hands,
         \A o \in Objects : k[o] + Occurrences(<<v>>, o) = h[o] + Occurrences(<<m.upvalues[u].v>>, o)
  PROVE  Sound(n, k) /\ n.frames = m.frames /\ n.status = m.status /\ n.freed = m.freed
<1>1. Typed(m) /\ m \in MachineType /\ Counted(m, h) /\ Stacked(m) /\ Tracking(m) /\ Valued(m)
  BY DEF Sound, Typed
<1>2. /\ n \in MachineType
      /\ \A w \in Upvalues \ {u} : n.upvalues[w] = m.upvalues[w] /\ n.variable[w] = m.variable[w]
      /\ n.upvalues[u] \in BoxedValue /\ n.upvalues[u].refs = m.upvalues[u].refs
      /\ n.upvalues[u].v = v /\ ~n.upvalues[u].open /\ n.variable[u] = v
      /\ n.values = m.values /\ n.frames = m.frames /\ n.closures = m.closures
      /\ n.status = m.status /\ n.kept = m.kept /\ n.freed = m.freed
  BY <1>1, PutBoxIs
<1>3. Typed(n) BY <1>1, <1>2 DEF Typed, Bounded
<1>4. Stacked(n) BY <1>1, <1>2 DEF Stacked
<1>5. n.upvalues[u] # None BY <1>2, NoneAssumption
<1>6. ASSUME NEW o \in Objects
      PROVE  Refs(n, o) = Holders(n, o) + Keeps(n, o) + k[o] /\ (Heap(n, o)[o] # None => Refs(n, o) >= 1)
  <2>1. \A w \in Upvalues \ {u} : Boxed(n, w, o) <=> Boxed(m, w, o) BY <1>2 DEF Boxed
  <2>2. Cardinality(HeldByBoxes(n, o)) + (IF Boxed(m, u, o) THEN 1 ELSE 0)
          = Cardinality(HeldByBoxes(m, o)) + (IF Boxed(n, u, o) THEN 1 ELSE 0)
    BY <1>1, <1>2, <2>1, OneBox
  <2> DEFINE x == Occurrences(<<m.upvalues[u].v>>, o)
             y == Occurrences(<<v>>, o)
             a == Cardinality(HeldByBoxes(m, o))
             b == Cardinality(HeldByBoxes(n, o))
             f == Cardinality(HeldByPlaces(m, o))
             g == Cardinality(HeldByFrames(m, o))
             j == Cardinality(HeldByClosures(m, o))
             s == Refs(m, o)
             t == Keeps(m, o)
             d == h[o]
             e == k[o]
  <2>3. (IF Boxed(m, u, o) THEN 1 ELSE 0) = x BY OccurrencesOne DEF Boxed
  <2>4. (IF Boxed(n, u, o) THEN 1 ELSE 0) = y BY <1>2, <1>5, OccurrencesOne DEF Boxed
  <2>5. b + x = a + y BY <2>2, <2>3, <2>4
  <2>6. x \in Nat /\ y \in Nat BY <2>3, <2>4
  <2>7. a \in Nat /\ b \in Nat /\ f \in Nat /\ g \in Nat /\ j \in Nat BY <1>1, <1>2, HoldersAre
  <2>8. s \in Nat /\ t \in Nat BY <1>1, RefsAre
  <2>9. e + y = d + x /\ e \in Int /\ d \in Int BY DEF Hands
  <2>10. s = (f + a + g + j) + t + d /\ (Heap(m, o)[o] # None => s >= 1)
    BY <1>1 DEF Counted, Holders
  <2>11. /\ HeldByPlaces(n, o) = HeldByPlaces(m, o) /\ HeldByFrames(n, o) = HeldByFrames(m, o)
         /\ HeldByClosures(n, o) = HeldByClosures(m, o)
    BY <1>2 DEF HeldByPlaces, HeldByFrames, HeldByClosures
  <2>12. Holders(n, o) = f + b + g + j BY <2>11 DEF Holders
  <2>13. Refs(n, o) = s /\ Keeps(n, o) = t /\ (Heap(n, o)[o] # None => Heap(m, o)[o] # None)
    <3>1. CASE o \in Closures BY <1>2, <3>1 DEF Refs, Keeps, Heap
    <3>2. CASE o \notin Closures
      <4>1. o \in Upvalues BY <3>2 DEF Objects
      <4>2. CASE o = u BY <1>2, <1>5, <3>2, <4>2 DEF Refs, Keeps, Heap
      <4>3. CASE o # u BY <1>2, <3>2, <4>1, <4>3 DEF Refs, Keeps, Heap
      <4>4. QED BY <4>2, <4>3
    <3>3. QED BY <3>1, <3>2
  <2> HIDE DEF x, y, a, b, f, g, j, s, t, d, e
  <2>14. s = (f + b + g + j) + t + e BY <2>5, <2>6, <2>7, <2>8, <2>9, <2>10
  <2>15. Refs(n, o) = Holders(n, o) + Keeps(n, o) + e BY <2>12, <2>13, <2>14
  <2>16. QED BY <2>10, <2>13, <2>15 DEF e
<1>7. Counted(n, k) BY <1>6 DEF Counted
<1>8. Tracking(n)
  <2>1. \A w, d, q : w \in Upvalues => (Aliases(n, w, d, q) <=> Aliases(m, w, d, q))
    BY <1>2 DEF Aliases
  <2>2. \A d, q, w : Tracks(n, d, q, w) <=> Tracks(m, d, q, w) BY <1>2 DEF Tracks, Owns
  <2>3. QED BY <1>1, <1>2, <2>1, <2>2 DEF Tracking
<1>9. Valued(n)
  <2>1. ASSUME NEW w \in Upvalues, n.upvalues[w] # None PROVE ValueOf(n, w) = n.variable[w]
    <3>1. CASE w = u BY <1>2, <3>1 DEF ValueOf
    <3>2. CASE w # u
      <4>1. n.upvalues[w] = m.upvalues[w] /\ n.variable[w] = m.variable[w] BY <1>2, <3>2
      <4>2. ValueOf(m, w) = m.variable[w] BY <1>1, <2>1, <4>1, LiveAre DEF Valued
      <4>3. QED BY <1>2, <4>1, <4>2 DEF ValueOf
    <3>3. QED BY <3>1, <3>2
  <2>2. QED BY <1>2, <2>1, LiveAre DEF Valued
<1>10. QED BY <1>2, <1>3, <1>4, <1>7, <1>8, <1>9 DEF Sound

\* The value on top is moved into an up-value, open or closed.
LEMMA UpSetSteps ==
  ASSUME NEW m, Sound(m, Nothing), m.status = "continue", NEW c \in Coroutines, m.frames[c] # <<>>,
         Len(m.values[c]) > Frame(m, c).offset,
         NEW x \in Closures, NEW i \in DOMAIN UpsOf(m, x), NEW u, u = UpsOf(m, x)[i],
         NEW v, v = Top(m, c), NEW p, p = Pop(m, c), NEW q, q = NewVariable(p, u, v),
         NEW n, n = IF q.upvalues[u].open THEN Set(q, q.upvalues[u].cr, q.upvalues[u].at, v)
                    ELSE UnrefAll(PutBox(q, u, v), <<q.upvalues[u].v>>)
  PROVE  Steps(m, n, c)
<1> DEFINE k == With(Nothing, <<v>>)
<1>1. k = With(Nothing, <<v>>) OBVIOUS
<1> HIDE DEF k
<1>2. /\ v \in Value /\ k \in Hands /\ \A o \in Objects : k[o] = Occurrences(<<v>>, o) /\ k[o] >= 0
      /\ Sound(p, k) /\ Popped(m, p, c)
      /\ p.frames = m.frames /\ p.freed = m.freed /\ p.status = "continue"
      /\ Len(p.values[c]) = Len(m.values[c]) - 1
  BY <1>1, PopInHand
<1>3. Typed(p) /\ p \in MachineType /\ Counted(p, k) /\ Tracking(p) /\ m \in MachineType
  BY <1>2 DEF Sound, Typed
<1>4. UpsOf(p, x) = UpsOf(m, x) BY <1>2 DEF Popped, SameOutside, SameClosure
<1>5. u \in Upvalues /\ p.upvalues[u] # None
  <2>1. UpsOf(m, x) \in Seq(Upvalues) BY <1>3, UpsAre
  <2>2. u \in Upvalues BY <2>1
  <2>3. k \in Hands /\ \A o \in Objects : k[o] >= 0 BY <1>2
  <2>4. k \in Hands BY <2>3
  <2>5. \A y \in Closures : \A j \in DOMAIN UpsOf(p, y) : p.upvalues[UpsOf(p, y)[j]] # None
    BY <1>3, <2>3, <2>4, HeldIsLive
  <2>6. QED BY <1>4, <2>2, <2>5
<1>6. v \in Value BY <1>2
<1>7. /\ q \in MachineType /\ q.upvalues = p.upvalues /\ q.values = p.values /\ q.status = p.status
  <2> DEFINE new == [p.variable EXCEPT ![u] = v]
  <2>1. new \in Variables BY <1>3, <1>5, <1>6, MachineIs DEF Variables
  <2>2. q = [p EXCEPT !.variable = new] BY DEF NewVariable
  <2> HIDE DEF new
  <2>3. p \in MachineType BY <1>3
  <2>4. QED BY <2>1, <2>2, <2>3, WithVariable
<1>8. CASE p.upvalues[u].open
  <2> DEFINE d == p.upvalues[u].cr
             at == p.upvalues[u].at
  <2>1. d \in Coroutines /\ at \in Nat /\ Aliases(p, u, d, at)
    BY <1>3, <1>5, <1>8, UpvalueIs DEF Aliases
  <2>2. n = Set(q, d, at, v) BY <1>7, <1>8
  <2> HIDE DEF d, at
  <2>3. at \in DOMAIN p.values[d] /\ p.values[d][at].captured BY <1>3, <1>5, <2>1 DEF Tracking
  <2>4. n = Fail(q, "captured_value_cleared") BY <1>2, <1>7, <2>2, <2>3 DEF Set, Ok
  <2>5. "captured_value_cleared" \in Statuses /\ "captured_value_cleared" \in Aborted
    BY DEF Statuses, Aborted
  <2>6. n.status \in Aborted BY <1>7, <2>4, <2>5, FailIs
  <2>7. QED BY <2>6, AbortedSteps
<1>9. CASE ~p.upvalues[u].open
  <2> DEFINE old == p.upvalues[u].v
             xs == <<old>>
             b == PutBox(q, u, v)
             h == With(Nothing, xs)
  <2>1. n = UnrefAll(b, xs) BY <1>7, <1>9
  <2>2. old \in Value BY <1>3, <1>5, <1>9, UpvalueIs
  <2>3. xs \in Seq(Things) /\ \A o : Occurrences(xs, o) \in Nat
    BY <2>2, SingleElems, OccurrencesOne DEF Things
  <2>4. b = PutBox(q, u, v) OBVIOUS
  <2>5. \A o : Occurrences(xs, o) = Occurrences(<<p.upvalues[u].v>>, o) OBVIOUS
  <2> HIDE DEF b, xs
  <2>6. h \in Hands /\ \A o \in Objects : h[o] = Nothing[o] + Occurrences(xs, o)
    BY <2>3, NothingInHand, WithIs
  <2>7. \A o \in Objects : h[o] = Occurrences(xs, o) BY <2>3, <2>6, NothingInHand DEF NothingIs
  <2>8. h \in Hands BY <2>6
  <2> HIDE DEF h
  <2>9. \A o \in Objects : h[o] + Occurrences(<<v>>, o) = k[o] + Occurrences(<<p.upvalues[u].v>>, o)
    <3>1. ASSUME NEW o \in Objects
          PROVE  h[o] + Occurrences(<<v>>, o) = k[o] + Occurrences(<<p.upvalues[u].v>>, o)
      <4>1. h[o] = Occurrences(<<p.upvalues[u].v>>, o) /\ h[o] \in Nat BY <2>3, <2>5, <2>7
      <4>2. k[o] = Occurrences(<<v>>, o) /\ k[o] \in Nat BY <1>2, OccurrencesOne
      <4>3. QED BY <4>1, <4>2
    <3>2. QED BY <3>1
  <2>10. k \in Hands BY <1>2
  <2>11. Sound(p, k) BY <1>2
  <2>12. u \in Upvalues BY <1>5
  <2>13. Sound(b, h) /\ b.frames = p.frames /\ b.status = p.status /\ b.freed = p.freed
    BY <1>5, <1>6, <1>9, <2>4, <2>8, <2>9, <2>10, <2>11, <2>12, PutBoxSound
  <2>14. b.status \notin Aborted BY <1>2, <2>13 DEF Aborted
  <2>15. Sound(b, h) BY <2>13
  <2>16. xs \in Seq(Things) BY <2>3
  <2>17. Steps(b, n, c) BY <2>1, <2>7, <2>8, <2>14, <2>15, <2>16, DropSteps
  <2>18. b.frames = m.frames /\ b.freed = m.freed BY <1>2, <2>13
  <2>19. QED BY <2>17, <2>18, StepsAfter
<1>10. QED BY <1>8, <1>9

\* A step that begins with another on the same coroutine.
LEMMA StepsOver ==
  ASSUME NEW m, NEW p, NEW n, NEW c, Steps(p, n, c), p.freed = m.freed,
         \A d \in Coroutines \ {c} : p.frames[d] = m.frames[d]
  PROVE  Steps(m, n, c)
BY DEF Steps

CallIs(m, n, c, due) == n = SetupFrame(m, c, TRUE, None, due)

\* A function is called.
LEMMA CallSteps ==
  ASSUME NEW m, Sound(m, Nothing), m.status = "continue", NEW c \in Coroutines, m.frames[c] # <<>>,
         NEW due \in Nat, Frame(m, c).offset + due <= Len(m.values[c]),
         NEW n, CallIs(m, n, c, due)
  PROVE  Steps(m, n, c)
<1>1. m.status \notin Aborted /\ "stack_overflow" \in Statuses \ {"continue"} /\ m \in MachineType
  BY DEF Aborted, Statuses, Sound, Typed
<1>2. CASE Len(m.frames[c]) + 1 >= MaxFrames
  <2>1. n = Fail(m, "stack_overflow") BY <1>2 DEF CallIs, SetupFrame, Ok
  <2>2. QED BY <1>1, <2>1, FailSteps
<1>3. CASE ~(Len(m.frames[c]) + 1 >= MaxFrames)
  <2>1. Len(m.frames[c]) + 1 < MaxFrames
    <3>1. Len(m.frames[c]) \in Nat /\ MaxFrames \in Nat BY <1>1, FramesAre, LimitsAssumption
    <3> DEFINE L == Len(m.frames[c])
    <3>2. L \in Nat /\ MaxFrames \in Nat /\ ~(L + 1 >= MaxFrames) BY <1>3, <3>1
    <3> HIDE DEF L
    <3>3. L + 1 < MaxFrames BY <3>2
    <3>4. QED BY <3>3 DEF L
  <2>2. None \in Closures \cup {None} /\ None \notin Closures BY ObjectsAssumption
  <2>3. Nothing \in Hands BY NothingInHand
  <2> DEFINE returns == TRUE
  <2>5. m.frames[c] = <<>> => ~returns OBVIOUS
  <2>11. m.frames[c] # <<>> => returns /\ Frame(m, c).offset + due <= Len(m.values[c]) OBVIOUS
  <2>6. returns \in BOOLEAN OBVIOUS
  <2> DEFINE none == None
  <2>9. n = SetupFrame(m, c, returns, none, due) BY DEF CallIs
  <2>4. none \in Closures \cup {None} BY <2>2
  <2>10. none \in Closures => m.closures[none] # None BY <2>2
  <2> HIDE DEF returns, none
  <2>7. SetUp(m, n, c, Nothing) BY <2>1, <2>3, <2>4, <2>5, <2>6, <2>9, <2>10, <2>11, SetupFrameIs
  <2>8. QED BY <2>7, SoundSteps DEF SetUp
<1>4. QED BY <1>2, <1>3

\* A closure that was the value on top, or an address.
Callee(v) == IF v \in Closures THEN v ELSE None

\* What calli and schedulei call: a closure, or nothing that is counted.
LEMMA CalleeIs ==
  ASSUME NEW v \in Value, NEW x, x = Callee(v)
  PROVE  /\ x \in Things \ Upvalues /\ x \in Things /\ x \in Closures \cup {None}
         /\ \A o \in Objects : Occurrences(<<x>>, o) = Occurrences(<<v>>, o)
<1>1. x \in Things \ Upvalues /\ x \in Closures \cup {None}
  BY ObjectsAssumption DEF Callee, Things, Value
<1>2. ASSUME NEW o \in Objects PROVE o = x <=> o = v
  BY <1>2, ObjectsAssumption DEF Callee, Value, Objects
<1>3. \A o \in Objects : Occurrences(<<x>>, o) = Occurrences(<<v>>, o) BY <1>2, OccurrencesOne
<1>4. QED BY <1>1, <1>3

CallOf(m, c, x, due) == SetupFrame(Pop(m, c), c, TRUE, x, due)
Dropped(m, x) == IF Ok(m) THEN UnrefAll(m, <<x>>) ELSE Lose(m, x)

\* The function on top is called; the reference to it is dropped.
LEMMA CallIndirectSteps ==
  ASSUME NEW m, Sound(m, Nothing), m.status = "continue", NEW c \in Coroutines, m.frames[c] # <<>>,
         Len(m.values[c]) > Frame(m, c).offset,
         NEW due \in Nat, Frame(m, c).offset + due <= Len(m.values[c]) - 1,
         NEW x, x = Callee(Top(m, c)), NEW s, s = CallOf(m, c, x, due),
         NEW n, n = Dropped(s, x)
  PROVE  Steps(m, n, c)
<1> DEFINE p == Pop(m, c)
           v == Top(m, c)
           k == With(Nothing, <<v>>)
           xs == <<x>>
<1>1. p = Pop(m, c) /\ k = With(Nothing, <<v>>) /\ v = Top(m, c) OBVIOUS
<1>2. s = SetupFrame(p, c, TRUE, x, due) BY DEF CallOf
<1>3. n = IF Ok(s) THEN UnrefAll(s, xs) ELSE Lose(s, x) BY DEF Dropped
<1> HIDE DEF p, k, v
<1>4. /\ v \in Value /\ k \in Hands /\ \A o \in Objects : k[o] = Occurrences(<<v>>, o) /\ k[o] >= 0
      /\ Sound(p, k) /\ Popped(m, p, c)
      /\ p.frames = m.frames /\ p.freed = m.freed /\ p.status = "continue"
      /\ Len(p.values[c]) = Len(m.values[c]) - 1
  BY <1>1, PopInHand
<1>5. v \in Value BY <1>4
<1>6. /\ x \in Things \ Upvalues /\ x \in Things /\ x \in Closures \cup {None}
      /\ \A o \in Objects : Occurrences(<<x>>, o) = Occurrences(<<v>>, o)
  BY <1>1, <1>5, CalleeIs
<1>7. xs \in Seq(Things) /\ \A o : Occurrences(xs, o) \in Nat BY <1>6, SingleElems, OccurrencesOne
<1>8. \A o \in Objects : k[o] = Occurrences(xs, o) BY <1>4, <1>6
<1>9. x \in Closures => k[x] = 1 BY <1>4, <1>6, OccurrencesOne DEF Objects
<1>10. xs = <<x>> OBVIOUS
<1> HIDE DEF xs
<1>11. Typed(p) /\ Stacked(p) /\ Counted(p, k) /\ p \in MachineType /\ k \in Hands /\ Sound(p, k)
  BY <1>4 DEF Sound, Typed
<1>12. k \in Hands BY <1>11
<1>13. Sound(p, k) BY <1>11
<1>14. p.status \notin Aborted /\ "stack_overflow" \in Statuses /\ "stack_overflow" \notin Aborted
  BY <1>4 DEF Aborted, Statuses
<1>15. CASE Len(p.frames[c]) + 1 >= MaxFrames
  <2>1. s = Fail(p, "stack_overflow") BY <1>2, <1>4, <1>15 DEF SetupFrame, Ok
  <2>2. /\ Typed(s) /\ Stacked(s) /\ Counted(s, k)
        /\ s.status = "stack_overflow" /\ s.freed = p.freed /\ s.frames = p.frames
    <3>1. Typed(p) BY <1>11
    <3>2. Stacked(p) BY <1>11
    <3>3. Counted(p, k) BY <1>11
    <3>4. "stack_overflow" \in Statuses BY <1>14
    <3>5. p.status \notin Aborted BY <1>14
    <3>6. QED BY <2>1, <3>1, <3>2, <3>3, <3>4, <3>5, FailKeeps
  <2>3. n = Lose(s, x) BY <1>3, <2>2 DEF Ok
  <2>4. \A o \in Objects : Nothing[o] = k[o] - Occurrences(<<x>>, o)
    <3>1. ASSUME NEW o \in Objects PROVE Nothing[o] = k[o] - Occurrences(<<x>>, o)
      <4>1. k[o] = Occurrences(<<x>>, o) /\ Nothing[o] = 0 /\ k[o] \in Nat
        BY <1>7, <1>8, <1>10, NothingInHand DEF NothingIs
      <4>2. QED BY <4>1
    <3>2. QED BY <3>1
  <2>5. Nothing \in Hands BY NothingInHand
  <2>6. x \in Things \ Upvalues BY <1>6
  <2>7. Typed(s) BY <2>2
  <2>8. Stacked(s) BY <2>2
  <2>9. Counted(s, k) BY <2>2
  <2>12. s.status \notin Aborted BY <1>14, <2>2
  <2>10. /\ Typed(n) /\ Stacked(n) /\ Counted(n, Nothing)
         /\ n.status = s.status /\ n.freed = s.freed /\ n.frames = s.frames
    BY <1>12, <2>3, <2>4, <2>5, <2>6, <2>7, <2>8, <2>9, <2>12, LoseIs
  <2>11. QED BY <1>4, <2>2, <2>10 DEF Steps, Outcome
<1>16. CASE ~(Len(p.frames[c]) + 1 >= MaxFrames)
  <2>1. Len(p.frames[c]) + 1 < MaxFrames
    <3>1. Len(p.frames[c]) \in Nat /\ MaxFrames \in Nat BY <1>11, FramesAre, LimitsAssumption
    <3> DEFINE L == Len(p.frames[c])
    <3>2. L \in Nat /\ MaxFrames \in Nat /\ ~(L + 1 >= MaxFrames) BY <1>16, <3>1
    <3> HIDE DEF L
    <3>3. L + 1 < MaxFrames BY <3>2
    <3>4. QED BY <3>3 DEF L
  <2>2. ASSUME x \in Closures PROVE p.closures[x] # None
    <3>1. p \in MachineType BY <1>11
    <3>2. Counted(p, k) BY <1>11
    <3>3. x \in Objects BY <2>2 DEF Objects
    <3>4. Holders(p, x) + k[x] >= 1
      <4>1. Holders(p, x) \in Nat BY <3>1, <3>3, RefsAre
      <4>2. QED BY <1>9, <2>2, <4>1
    <3>5. QED BY <1>12, <2>2, <3>1, <3>2, <3>3, <3>4, CountedIsLive
  <2>3. Frame(p, c) = Frame(m, c) /\ p.frames[c] # <<>> BY <1>4 DEF Frame
  <2>4. Frame(p, c).offset + due <= Len(p.values[c]) BY <1>4, <2>3
  <2>5. x \in Closures \cup {None} BY <1>6
  <2> DEFINE returns == TRUE
  <2>6. (p.frames[c] = <<>> => ~returns) /\ (p.frames[c] # <<>> => returns /\ Frame(p, c).offset + due <= Len(p.values[c]))
    BY <2>3, <2>4
  <2>16. returns \in BOOLEAN OBVIOUS
  <2>17. s = SetupFrame(p, c, returns, x, due) BY <1>2
  <2> HIDE DEF returns
  <2>7. p.status = "continue" BY <1>4
  <2>18. SetUp(p, s, c, k) BY <1>12, <1>13, <2>1, <2>2, <2>5, <2>6, <2>7, <2>16, <2>17, SetupFrameIs
  <2>8. /\ Sound(s, k) /\ s.values = p.values /\ s.status = p.status /\ s.freed = p.freed
        /\ s.frames[c] # <<>> /\ \A d \in Coroutines \ {c} : s.frames[d] = p.frames[d]
    BY <2>18 DEF SetUp
  <2>9. n = UnrefAll(s, xs) BY <1>3, <1>4, <2>8 DEF Ok
  <2>10. Sound(s, k) BY <2>8
  <2>11. s.status \notin Aborted BY <1>14, <2>8
  <2>12. xs \in Seq(Things) BY <1>7
  <2>13. Steps(s, n, c) BY <1>8, <1>12, <2>9, <2>10, <2>11, <2>12, DropSteps
  <2>14. s.freed = m.freed /\ \A d \in Coroutines \ {c} : s.frames[d] = m.frames[d] BY <1>4, <2>8
  <2>15. QED BY <2>13, <2>14, StepsOver
<1>17. QED BY <1>15, <1>16

\* A coroutine that gets its parameters from the stack of c.
SpawnOf(m, s, c, k, closure, due) == s = Spawn(m, c, k, closure, due)
Spawned(m, s, c, k, h) ==
    /\ Sound(s, h) /\ s.status = m.status /\ s.freed = m.freed
    /\ s.frames[k] # <<>> /\ \A d \in Coroutines \ {k} : s.frames[d] = m.frames[d]

\* A coroutine is started, with parameters from the top of a stack,
LEMMA SpawnIs ==
  ASSUME NEW m, NEW h \in Hands, Sound(m, h), m.status = "continue",
         NEW c \in Coroutines, m.frames[c] # <<>>, NEW k \in Coroutines, m.frames[k] = <<>>,
         NEW closure \in Closures \cup {None}, closure \in Closures => m.closures[closure] # None,
         NEW due \in Nat, Frame(m, c).offset + due <= Len(m.values[c]),
         \A i \in 0 .. due - 1 : ~m.values[c][Len(m.values[c]) - i].captured,
         NEW s, SpawnOf(m, s, c, k, closure, due)
  PROVE  Spawned(m, s, c, k, h)
<1> DEFINE returns == FALSE
           new == SetupFrame(m, k, returns, closure, due)
           rest == Len(m.values[c]) - due
           vs == [i \in 1 .. due |-> m.values[c][rest + i].v]
           cut == Cut(new, c, rest)
           j == [o \in Objects |-> h[o] + Occurrences(vs, o)]
<1>1. Typed(m) /\ m \in MachineType /\ Stacked(m) /\ c # k BY DEF Sound, Typed
<1>2. /\ m.values[c] \in Seq(Slot) /\ Len(m.values[c]) \in Nat /\ DOMAIN m.values[c] = 1 .. Len(m.values[c])
      /\ \A i \in 1 .. Len(m.values[c]) : m.values[c][i].v \in Value
  BY <1>1, ValsAre
<1>3. /\ Frame(m, c).offset \in Nat
      /\ \A i \in DOMAIN m.frames[c] : m.frames[c][i].offset \in Nat /\ m.frames[c][i].offset <= Frame(m, c).offset
  <2>1. \A i \in DOMAIN m.frames[c] : m.frames[c][i].offset \in Nat BY <1>1, FramesAre DEF FrameType
  <2>2. QED BY <1>1, <2>1, TopFrame
<1>4. rest \in 0 .. Len(m.values[c]) /\ rest + due = Len(m.values[c]) /\ Frame(m, c).offset <= rest
  BY <1>2, <1>3
<1>5. m.values[k] = <<>> /\ Len(m.values[k]) = 0 /\ Len(m.frames[k]) = 0 BY <1>1 DEF Stacked
<1>6. Len(m.values[c]) < MaxValues /\ MaxValues \in Nat /\ Len(m.frames[k]) + 1 < MaxFrames
  BY <1>1, <1>5, LimitsAssumption DEF Typed, Bounded
<1>7. SetUp(m, new, k, h)
  <2>1. m.frames[k] = <<>> => ~returns OBVIOUS
  <2>2. m.frames[k] # <<>> => returns /\ Frame(m, k).offset + due <= Len(m.values[k]) OBVIOUS
  <2>3. returns \in BOOLEAN OBVIOUS
  <2>4. Len(m.frames[k]) + 1 < MaxFrames BY <1>6
  <2> DEFINE made == SetupFrame(m, k, returns, closure, due)
  <2>5. made = SetupFrame(m, k, returns, closure, due) OBVIOUS
  <2> HIDE DEF returns, made
  <2>6. SetUp(m, made, k, h) BY <2>1, <2>2, <2>3, <2>4, <2>5, SetupFrameIs
  <2>7. QED BY <2>6 DEF made
<1>8. s = Lay(cut, k, vs)
  <2>1. new.values[c] = m.values[c] BY <1>7 DEF SetUp
  <2>2. QED BY DEF SpawnOf, Spawn, Ok, Cut
<1> HIDE DEF new, returns
<1>9. /\ Sound(new, h) /\ new.values = m.values /\ new.status = m.status /\ new.freed = m.freed
      /\ new.frames[k] # <<>> /\ \A d \in Coroutines \ {k} : new.frames[d] = m.frames[d]
  BY <1>7 DEF SetUp
<1>10. new \in MachineType BY <1>9 DEF Sound, Typed
<1>11. vs \in [1 .. due -> Value] BY <1>2, <1>4
<1>12. vs \in Seq(Value) /\ Len(vs) = due /\ vs \in Seq(Things)
  <2>1. vs \in [1 .. due -> Things] BY <1>11 DEF Things
  <2> HIDE DEF vs
  <2>2. vs \in Seq(Value) /\ Len(vs) = due BY <1>11
  <2>3. vs \in Seq(Things) BY <2>1
  <2>4. QED BY <2>2, <2>3
<1>13. \A i \in 1 .. Len(vs) : new.values[c][rest + i].v = vs[i] /\ ~new.values[c][rest + i].captured
  <2>1. ASSUME NEW i \in 1 .. due PROVE ~m.values[c][rest + i].captured
    <3>1. due - i \in 0 .. due - 1 /\ Len(m.values[c]) - (due - i) = rest + i BY <1>2
    <3>2. ~m.values[c][Len(m.values[c]) - (due - i)].captured BY <3>1
    <3>3. QED BY <3>1, <3>2
  <2>2. QED BY <1>9, <1>12, <2>1
<1>14. rest \in 0 .. Len(new.values[c]) /\ Len(new.values[c]) = rest + Len(vs) BY <1>4, <1>9, <1>12
<1>15. cut = Cut(new, c, rest) OBVIOUS
<1>16. vs \in Seq(Value) BY <1>12
<1> HIDE DEF cut, rest, vs
<1>17. rest \in 0 .. Len(new.values[c]) BY <1>14
<1>18. Len(new.values[c]) = rest + Len(vs) BY <1>14
<1>19. cut \in MachineType /\ OnlyPlacesOf(new, cut, c) /\ Laid(cut, new, c, vs) /\ Len(cut.values[c]) = rest
  BY <1>10, <1>13, <1>15, <1>16, <1>17, <1>18, CutIs
<1>20. \A o : Occurrences(vs, o) \in Nat BY <1>16, OccurrencesIs
<1>21. j \in Hands /\ \A o \in Objects : j[o] = h[o] + Occurrences(vs, o) BY <1>20 DEF Hands
<1> HIDE DEF j
<1>22. j \in Hands BY <1>21
<1>23. cut \in MachineType BY <1>19
<1>24. \A i \in DOMAIN new.frames[c] : new.frames[c][i].offset <= Len(cut.values[c])
  <2>1. new.frames[c] = m.frames[c] BY <1>1, <1>9
  <2>2. QED BY <1>3, <1>4, <1>19, <2>1
<1>25. Sound(new, h) BY <1>9
<1>26. Sound(cut, j) BY <1>16, <1>19, <1>21, <1>22, <1>23, <1>24, <1>25, CutSound
<1>27. /\ cut.frames = new.frames /\ cut.status = new.status /\ cut.freed = new.freed
       /\ cut.values[k] = new.values[k]
  BY <1>1, <1>19 DEF OnlyPlacesOf
<1>28. Len(cut.values[k]) + Len(vs) < MaxValues
  <2>1. Len(cut.values[k]) = 0 BY <1>5, <1>9, <1>27
  <2>2. QED BY <1>2, <1>3, <1>4, <1>6, <1>12, <2>1
<1>29. cut.frames[k] # <<>> BY <1>9, <1>27
<1>30. \A o \in Objects : j[o] = h[o] + Occurrences(vs, o) BY <1>21
<1>31. Sound(s, h) BY <1>8, <1>16, <1>22, <1>26, <1>28, <1>29, <1>30, LaySound
<1>32. OnlyPlacesOf(cut, s, k) BY <1>8, <1>16, <1>23, LayIs
<1>33. QED BY <1>9, <1>27, <1>31, <1>32 DEF Spawned, OnlyPlacesOf

\* ... from below a closure that c has pushed, whose reference is lost.
SpawnBelow(m, n, c, k, x, due) == n = Lose(Spawn(Pop(m, c), c, k, x, due), x)

\* ... or from below the function that it runs.
LEMMA SpawnBelowIs ==
  ASSUME NEW m, Sound(m, Nothing), m.status = "continue",
         NEW c \in Coroutines, m.frames[c] # <<>>, NEW k \in Coroutines, m.frames[k] = <<>>,
         NEW due \in Nat, Frame(m, c).offset + due <= Len(m.values[c]) - 1,
         \A i \in 1 .. due : ~m.values[c][Len(m.values[c]) - i].captured,
         NEW x, x = Callee(Top(m, c)), NEW n, SpawnBelow(m, n, c, k, x, due)
  PROVE  Spawned(m, n, c, k, Nothing)
<1> DEFINE p == Pop(m, c)
           v == Top(m, c)
           j == With(Nothing, <<v>>)
           s == Spawn(p, c, k, x, due)
<1>1. p = Pop(m, c) /\ j = With(Nothing, <<v>>) /\ v = Top(m, c) OBVIOUS
<1>2. SpawnOf(p, s, c, k, x, due) /\ n = Lose(s, x) BY DEF SpawnOf, SpawnBelow
<1> HIDE DEF p, j, v, s
<1>3. m \in MachineType BY DEF Sound, Typed
<1>4. Len(m.values[c]) \in Nat /\ Frame(m, c).offset \in Nat BY <1>3, ValsAre, TopFrame
<1>5. Len(m.values[c]) > Frame(m, c).offset BY <1>4
<1>6. /\ v \in Value /\ j \in Hands /\ \A o \in Objects : j[o] = Occurrences(<<v>>, o) /\ j[o] >= 0
      /\ Sound(p, j) /\ Popped(m, p, c)
      /\ p.frames = m.frames /\ p.freed = m.freed /\ p.status = "continue"
      /\ Len(p.values[c]) = Len(m.values[c]) - 1
  BY <1>1, <1>5, PopInHand
<1>7. v \in Value BY <1>6
<1>8. /\ x \in Things \ Upvalues /\ x \in Closures \cup {None}
      /\ \A o \in Objects : Occurrences(<<x>>, o) = Occurrences(<<v>>, o)
  BY <1>1, <1>7, CalleeIs
<1>9. j \in Hands BY <1>6
<1>10. Sound(p, j) BY <1>6
<1>11. p \in MachineType /\ Counted(p, j) BY <1>10 DEF Sound, Typed
<1>12. ASSUME x \in Closures PROVE p.closures[x] # None
  <2>1. p \in MachineType BY <1>11
  <2>2. Counted(p, j) BY <1>11
  <2>3. x \in Objects BY <1>12 DEF Objects
  <2>4. j[x] = 1 BY <1>6, <1>8, <2>3, OccurrencesOne
  <2>5. Holders(p, x) + j[x] >= 1
    <3>1. Holders(p, x) \in Nat BY <2>1, <2>3, RefsAre
    <3>2. QED BY <2>4, <3>1
  <2>6. QED BY <1>9, <1>12, <2>1, <2>2, <2>3, <2>5, CountedIsLive
<1>13. Frame(p, c) = Frame(m, c) /\ p.frames[c] # <<>> /\ p.frames[k] = <<>> BY <1>6 DEF Frame
<1>14. Frame(p, c).offset + due <= Len(p.values[c]) BY <1>6, <1>13
<1>15. ASSUME NEW i \in 0 .. due - 1 PROVE ~p.values[c][Len(p.values[c]) - i].captured
  <2>1. i + 1 \in 1 .. due /\ Len(p.values[c]) - i = Len(m.values[c]) - (i + 1) BY <1>4, <1>6
  <2>2. Len(p.values[c]) - i \in 1 .. Len(p.values[c]) BY <1>4, <1>6, <1>13, <1>14
  <2>3. p.values[c][Len(p.values[c]) - i] = m.values[c][Len(p.values[c]) - i]
    BY <1>6, <2>2 DEF Popped
  <2>4. ~m.values[c][Len(m.values[c]) - (i + 1)].captured BY <2>1
  <2>5. QED BY <2>1, <2>3, <2>4
<1>16. x \in Closures \cup {None} BY <1>8
<1>17. p.status = "continue" BY <1>6
<1>18. p.frames[c] # <<>> BY <1>13
<1>19. p.frames[k] = <<>> BY <1>13
<1>20. SpawnOf(p, s, c, k, x, due) BY <1>2
<1>21. Spawned(p, s, c, k, j)
  BY <1>9, <1>10, <1>12, <1>14, <1>15, <1>16, <1>17, <1>18, <1>19, <1>20, SpawnIs
<1>22. /\ Sound(s, j) /\ s.status = p.status /\ s.freed = p.freed
       /\ s.frames[k] # <<>> /\ \A d \in Coroutines \ {k} : s.frames[d] = p.frames[d]
  BY <1>21 DEF Spawned
<1>23. Typed(s) /\ Stacked(s) /\ Counted(s, j) /\ Tracking(s) /\ Valued(s) BY <1>22 DEF Sound
<1>24. \A o \in Objects : Nothing[o] = j[o] - Occurrences(<<x>>, o)
  <2>1. ASSUME NEW o \in Objects PROVE Nothing[o] = j[o] - Occurrences(<<x>>, o)
    <3>1. j[o] = Occurrences(<<x>>, o) /\ Nothing[o] = 0 /\ j[o] \in Nat
      BY <1>6, <1>8, OccurrencesOne, NothingInHand DEF NothingIs
    <3>2. QED BY <3>1
  <2>2. QED BY <2>1
<1>25. Nothing \in Hands BY NothingInHand
<1>26. x \in Things \ Upvalues BY <1>8
<1>27. Typed(s) BY <1>23
<1>28. Stacked(s) BY <1>23
<1>29. Counted(s, j) BY <1>23
<1>30. n = Lose(s, x) BY <1>2
<1>33. s.status \notin Aborted BY <1>6, <1>22 DEF Aborted
<1>31. /\ Typed(n) /\ Stacked(n) /\ Counted(n, Nothing)
       /\ Tracking(s) => Tracking(n)
       /\ Valued(s) => Valued(n)
       /\ n.status = s.status /\ n.freed = s.freed /\ n.frames = s.frames
  BY <1>9, <1>24, <1>25, <1>26, <1>27, <1>28, <1>29, <1>30, <1>33, LoseIs
<1>32. QED BY <1>6, <1>22, <1>23, <1>31 DEF Spawned, Sound

\* The frame on top is left: its locals are cleared, and what it held is dropped.
Unwound(m, n, c, h) ==
    /\ Sound(n, h) /\ n.status = "continue" /\ n.freed = m.freed
    /\ \A d \in Coroutines \ {c} : n.frames[d] = m.frames[d]
    /\ Len(n.frames[c]) = Len(m.frames[c]) - 1
    /\ \A i \in 1 .. Len(m.frames[c]) - 1 : n.frames[c][i] = m.frames[c][i]
    /\ Len(n.values[c]) = Frame(m, c).offset
LeaveFrame(p, c) ==
    IF Ok(p) THEN UnrefAll(WithoutFrame(p, c), OfFrames(p, c, {Len(p.frames[c])})) ELSE p

\* The locals and then the frame are taken off.
LEMMA UnwindIs ==
  ASSUME NEW m, NEW h \in Hands, Sound(m, h), \A o \in Objects : h[o] >= 0, m.status = "continue",
         NEW c \in Coroutines, m.frames[c] # <<>>, NEW j \in Nat, Len(m.values[c]) = Frame(m, c).offset + j,
         NEW p, p = DiscardMany(m, c, j), NEW n, n = LeaveFrame(p, c)
  PROVE  n.status \in Aborted \/ Unwound(m, n, c, h)
<1>1. m \in MachineType BY DEF Sound, Typed
<1>2. Frame(m, c).offset + j <= Len(m.values[c])
  <2>1. Len(m.values[c]) \in Nat BY <1>1, ValsAre
  <2>2. QED BY <2>1
<1>3. p.status \in Aborted \/ (Sound(p, h) /\ Fewer(m, p, c, j)) BY <1>2, DiscardManySound
<1>4. CASE p.status \in Aborted
  <2>1. n = p BY <1>4 DEF LeaveFrame, Ok, Aborted
  <2>2. QED BY <1>4, <2>1
<1>5. CASE Sound(p, h) /\ Fewer(m, p, c, j)
  <2> DEFINE xs == OfFrames(p, c, {Len(p.frames[c])})
             q == WithoutFrame(p, c)
             k == With(h, xs)
  <2>1. /\ p.frames = m.frames /\ p.status = "continue" /\ p.freed = m.freed
        /\ Len(p.values[c]) = Len(m.values[c]) - j
    BY <1>5 DEF Fewer
  <2>2. Typed(p) /\ p \in MachineType /\ Sound(p, h) BY <1>5 DEF Sound, Typed
  <2>3. Frame(p, c) = Frame(m, c) /\ Frame(m, c).offset \in Nat /\ p.frames[c] # <<>>
    BY <1>1, <2>1, TopFrame DEF Frame
  <2>4. Len(p.values[c]) = Frame(p, c).offset BY <2>1, <2>3
  <2>5. {Len(p.frames[c])} \subseteq DOMAIN p.frames[c] BY <2>2, <2>3, TopFrame
  <2>6. Typed(p) BY <2>2
  <2>7. xs \in Seq(Things)
    <3> DEFINE S == {Len(p.frames[c])}
    <3>1. S \subseteq DOMAIN p.frames[c] /\ xs = OfFrames(p, c, S) BY <2>5
    <3> HIDE DEF xs, S
    <3>2. xs \in Seq(Closures \cup Upvalues \cup {None}) BY <2>6, <3>1, OfFramesAre
    <3>3. Closures \cup Upvalues \cup {None} \subseteq Things BY DEF Things, Value
    <3>4. QED BY <3>2, <3>3
  <2>8. n = UnrefAll(q, xs) BY <2>1 DEF LeaveFrame, Ok
  <2>9. q = WithoutFrame(p, c) OBVIOUS
  <2>10. \A o : Occurrences(xs, o) = Occurrences(OfFrames(p, c, {Len(p.frames[c])}), o) OBVIOUS
  <2> HIDE DEF xs, q
  <2>11. k \in Hands /\ \A o \in Objects : k[o] = h[o] + Occurrences(xs, o) BY <2>7, WithIs
  <2>12. k \in Hands BY <2>11
  <2> HIDE DEF k
  <2>13. \A o \in Objects : k[o] = h[o] + Occurrences(OfFrames(p, c, {Len(p.frames[c])}), o)
    BY <2>10, <2>11
  <2>14. Sound(p, h) BY <2>2
  <2>15. p.frames[c] # <<>> BY <2>3
  <2>23. FrameDropped(p, q, c, k) BY <2>4, <2>9, <2>12, <2>13, <2>14, <2>15, DropFrame
  <2>16. /\ Sound(q, k) /\ OnlyFramesOf(p, q, c)
         /\ Len(q.frames[c]) = Len(p.frames[c]) - 1
         /\ \A i \in 1 .. Len(p.frames[c]) - 1 : q.frames[c][i] = p.frames[c][i]
    BY <2>23 DEF FrameDropped
  <2>17. Sound(q, k) BY <2>16
  <2>18. /\ q.status = "continue" /\ q.freed = m.freed /\ q.values = p.values
         /\ \A d \in Coroutines \ {c} : q.frames[d] = m.frames[d]
    BY <2>1, <2>16 DEF OnlyFramesOf
  <2>19. q.status \notin Aborted BY <2>18 DEF Aborted
  <2>20. \A o \in Objects : h[o] >= 0 /\ k[o] = h[o] + Occurrences(xs, o) BY <2>11
  <2>21. \/ n.status \in Aborted
         \/ /\ Sound(n, h)
            /\ n.frames = q.frames /\ n.status = q.status /\ n.freed = q.freed
            /\ \A d \in Coroutines : Len(n.values[d]) = Len(q.values[d])
    BY <2>7, <2>8, <2>12, <2>17, <2>19, <2>20, UnrefAllSound
  <2>22. QED BY <2>1, <2>3, <2>4, <2>16, <2>18, <2>21 DEF Unwound
<1>6. QED BY <1>3, <1>4, <1>5

\* The parameters of a function are cleared from the stack of its caller.
Cleared(m, n, c, h, f) ==
    /\ Sound(n, h) /\ n.status = "continue" /\ n.freed = m.freed
    /\ \A d \in Coroutines \ {c} : n.frames[d] = m.frames[d]
    /\ n.frames[c] # <<>> /\ Len(n.values[c]) <= f.offset

\* The parameters are taken off the frame below.
LEMMA ClearParameters ==
  ASSUME NEW m, Typed(m), Stacked(m), NEW c \in Coroutines, m.frames[c] # <<>>, NEW f, f = Frame(m, c),
         f.returns,
         NEW q, q.frames = m.frames, q.freed = m.freed,
         NEW h \in Hands, \A o \in Objects : h[o] >= 0,
         NEW p, Unwound(q, p, c, h),
         NEW n, n = DiscardMany(p, c, f.parameters)
  PROVE  n.status \in Aborted \/ Cleared(m, n, c, h, f)
<1> DEFINE L == Len(m.frames[c])
           g == m.frames[c][L - 1]
<1>1. m \in MachineType BY DEF Typed
<1>2. /\ L \in Nat \ {0} /\ L \in DOMAIN m.frames[c] /\ f = m.frames[c][L] /\ f \in FrameType
      /\ DOMAIN m.frames[c] = 1 .. L /\ f.offset \in Nat /\ f.parameters \in Nat /\ f.due \in Nat
  BY <1>1, TopFrame, FramesAre
<1>3. L > 1
  <2>1. FrameFits(m.frames[c][L], L, m.frames[c], Len(m.values[c])) BY <1>2, StackedIs
  <2>2. L = 1 => ~m.frames[c][L].returns BY <2>1 DEF FrameFits
  <2>3. m.frames[c][L].returns BY <1>2
  <2>4. L # 1 /\ L \in Nat /\ L # 0 BY <1>2, <2>2, <2>3
  <2> HIDE DEF L
  <2>5. QED BY <2>4
<1>4. L - 1 \in 1 .. L /\ L - 1 < L BY <1>2, <1>3
<1>5. g.offset + f.due <= f.offset /\ f.parameters <= f.due BY <1>2, <1>4 DEF Stacked
<1>6. g.offset \in Nat
  <2>1. g \in FrameType BY <1>1, <1>4, FramesAre
  <2>2. QED BY <2>1 DEF FrameType
<1>7. Frame(q, c) = f BY DEF Frame
<1>8. /\ Sound(p, h) /\ p.status = "continue" /\ p.freed = m.freed
      /\ \A d \in Coroutines \ {c} : p.frames[d] = m.frames[d]
      /\ Len(p.frames[c]) = L - 1
      /\ \A i \in 1 .. L - 1 : p.frames[c][i] = m.frames[c][i]
      /\ Len(p.values[c]) = f.offset
  BY <1>7 DEF Unwound
<1>9. p \in MachineType BY <1>8 DEF Sound, Typed
<1>10. p.frames[c] # <<>> /\ Frame(p, c) = g
  <2>1. p.frames[c] \in Seq(FrameType) BY <1>9, FramesAre
  <2>2. L - 1 \in 1 .. L - 1 BY <1>2, <1>3
  <2>3. p.frames[c] # <<>> BY <1>2, <1>3, <1>8, <2>1
  <2>4. Frame(p, c) = p.frames[c][L - 1] BY <1>8 DEF Frame, Last
  <2>5. QED BY <1>8, <2>2, <2>3, <2>4
<1>11. Frame(p, c).offset + f.parameters <= Len(p.values[c])
  <2> DEFINE a == g.offset
             b == f.parameters
             d == f.due
             e == f.offset
  <2>1. /\ a \in Nat /\ b \in Nat /\ d \in Nat /\ e \in Nat /\ a + d <= e /\ b <= d
        /\ Frame(p, c).offset = a /\ Len(p.values[c]) = e
    BY <1>2, <1>5, <1>6, <1>8, <1>10
  <2> HIDE DEF a, b, d, e
  <2>2. a + b <= e BY <2>1
  <2>3. QED BY <2>1, <2>2 DEF b
<1> DEFINE j == f.parameters
<1>12. j \in Nat /\ n = DiscardMany(p, c, j) /\ Frame(p, c).offset + j <= Len(p.values[c])
  BY <1>2, <1>11
<1> HIDE DEF j
<1>13. j \in Nat BY <1>12
<1>14. Sound(p, h) BY <1>8
<1>15. n.status \in Aborted \/ (Sound(n, h) /\ Fewer(p, n, c, j))
  BY <1>8, <1>10, <1>12, <1>13, <1>14, DiscardManySound
<1>16. ASSUME Fewer(p, n, c, j)
       PROVE  /\ n.frames = p.frames /\ n.status = p.status /\ n.freed = p.freed
              /\ Len(n.values[c]) <= f.offset
  <2>1. Len(n.values[c]) = Len(p.values[c]) - j BY <1>16 DEF Fewer
  <2>2. QED BY <1>2, <1>8, <1>13, <1>16, <2>1 DEF Fewer
<1>17. QED BY <1>8, <1>10, <1>15, <1>16 DEF Cleared

\* The result of a function is left on the stack of its caller: there is room for it.
LEMMA GiveResult ==
  ASSUME NEW m, Typed(m), NEW c \in Coroutines, NEW f, f.offset \in Nat, f.offset + 1 <= Len(m.values[c]),
         NEW h \in Hands, NEW v \in Value, \A o \in Objects : h[o] = Occurrences(<<v>>, o),
         NEW p, Cleared(m, p, c, h, f), NEW n, n = Push(p, c, v)
  PROVE  Steps(m, n, c)
<1> DEFINE vs == <<v>>
<1>1. /\ Sound(p, h) /\ p.status = "continue" /\ p.freed = m.freed
      /\ \A d \in Coroutines \ {c} : p.frames[d] = m.frames[d]
      /\ p.frames[c] # <<>> /\ Len(p.values[c]) <= f.offset
  BY DEF Cleared
<1>2. p \in MachineType /\ m \in MachineType BY <1>1 DEF Sound, Typed
<1>3. vs \in Seq(Value) /\ Len(vs) = 1 /\ \A o : Occurrences(vs, o) \in Nat BY OccurrencesOne
<1>4. Len(p.values[c]) + 1 < MaxValues /\ ~(Room(p, c) < 1)
  <2> DEFINE a == Len(p.values[c])
             b == Len(m.values[c])
             e == f.offset
  <2>1. /\ a \in Nat /\ b \in Nat /\ e \in Nat /\ MaxValues \in Nat
        /\ a <= e /\ e + 1 <= b /\ b < MaxValues
    BY <1>1, <1>2, ValsAre, LimitsAssumption DEF Typed, Bounded
  <2>2. Room(p, c) = MaxValues - 1 - a BY DEF Room
  <2> HIDE DEF a, b, e
  <2>3. a + 1 < MaxValues /\ ~(MaxValues - 1 - a < 1) BY <2>1
  <2>4. QED BY <2>2, <2>3 DEF a
<1>5. n = Lay(p, c, vs) BY <1>1, <1>4 DEF Push, Ok
<1>6. \A o \in Objects : h[o] = Nothing[o] + Occurrences(vs, o) BY <1>3, NothingInHand DEF NothingIs
<1>7. Len(p.values[c]) + Len(vs) < MaxValues
  <2>1. Len(vs) = 1 BY <1>3
  <2> HIDE DEF vs
  <2>2. QED BY <1>4, <2>1
<1> HIDE DEF vs
<1>8. vs \in Seq(Value) BY <1>3
<1>9. Nothing \in Hands BY NothingInHand
<1>10. Sound(p, h) BY <1>1
<1>11. p.frames[c] # <<>> BY <1>1
<1>12. Sound(n, Nothing) BY <1>5, <1>6, <1>7, <1>8, <1>9, <1>10, <1>11, LaySound
<1>13. p \in MachineType BY <1>2
<1>14. OnlyPlacesOf(p, n, c) BY <1>5, <1>8, <1>13, LayIs
<1>15. n.freed = m.freed /\ \A d \in Coroutines \ {c} : n.frames[d] = m.frames[d]
  BY <1>1, <1>14 DEF OnlyPlacesOf
<1>16. QED BY <1>12, <1>15, SoundSteps

\* The result of a coroutine is forgotten.
LEMMA ForgetResult ==
  ASSUME NEW m, NEW q, q.frames = m.frames, q.freed = m.freed, NEW c \in Coroutines,
         NEW h \in Hands, NEW v \in Value, \A o \in Objects : h[o] = Occurrences(<<v>>, o),
         NEW p, Unwound(q, p, c, h), NEW n, n = Lose(p, v)
  PROVE  Steps(m, n, c)
<1>1. /\ Sound(p, h) /\ p.status = "continue" /\ p.freed = m.freed
      /\ \A d \in Coroutines \ {c} : p.frames[d] = m.frames[d]
  BY DEF Unwound
<1>2. Typed(p) /\ Stacked(p) /\ Counted(p, h) /\ Tracking(p) /\ Valued(p) BY <1>1 DEF Sound
<1>3. Typed(p) BY <1>2
<1>4. Stacked(p) BY <1>2
<1>5. Counted(p, h) BY <1>2
<1>6. p.status \notin Aborted BY <1>1 DEF Aborted
<1>7. v \in Things \ Upvalues BY ObjectsAssumption DEF Things, Value
<1>8. \A o \in Objects : Nothing[o] = h[o] - Occurrences(<<v>>, o)
  <2>1. ASSUME NEW o \in Objects PROVE Nothing[o] = h[o] - Occurrences(<<v>>, o)
    <3>1. h[o] = Occurrences(<<v>>, o) /\ h[o] \in Nat /\ Nothing[o] = 0
      BY OccurrencesOne, NothingInHand DEF NothingIs
    <3>2. QED BY <3>1
  <2>2. QED BY <2>1
<1>9. Nothing \in Hands BY NothingInHand
<1>10. /\ Typed(n) /\ Stacked(n) /\ Counted(n, Nothing)
       /\ Tracking(p) => Tracking(n)
       /\ Valued(p) => Valued(n)
       /\ n.status = p.status /\ n.freed = p.freed /\ n.frames = p.frames
  BY <1>3, <1>4, <1>5, <1>6, <1>7, <1>8, <1>9, LoseIs
<1>11. QED BY <1>1, <1>2, <1>10 DEF Steps, Outcome

\* The frame on top is left with a result in hand, or without one.
LeftOf(m, q, n, c, h, v, result) ==
    /\ q.frames = m.frames /\ q.freed = m.freed /\ Unwound(q, n, c, h)
    /\ \A o \in Objects : h[o] >= 0
    /\ result => \A o \in Objects : h[o] = Occurrences(<<v>>, o)
    /\ ~result => h = Nothing
Left(m, n, c, v, result) == \E q : \E h \in Hands : LeftOf(m, q, n, c, h, v, result)

\* What return leaves, with the result in hand if there is one.
LEMMA LeaveIs ==
  ASSUME NEW m, Sound(m, Nothing), m.status = "continue", NEW c \in Coroutines, m.frames[c] # <<>>,
         NEW f, f = Frame(m, c), NEW locals, locals = Height(m, c),
         NEW result \in BOOLEAN, result <=> locals > f.parameters,
         NEW popped, popped = IF result THEN DiscardMany(Pop(m, c), c, locals - 1) ELSE DiscardMany(m, c, locals),
         NEW n, n = LeaveFrame(popped, c), NEW v, v = Top(m, c)
  PROVE  /\ f.offset \in Nat /\ f.parameters \in Nat /\ locals \in Nat
         /\ result => f.offset + 1 <= Len(m.values[c]) /\ v \in Value
         /\ \/ n.status \in Aborted
            \/ Left(m, n, c, v, result)
<1>1. m \in MachineType BY DEF Sound, Typed
<1>2. /\ f.offset \in Nat /\ f.parameters \in Nat /\ f.offset <= Len(m.values[c]) /\ Len(m.values[c]) \in Nat
  BY <1>1, TopFrame, ValsAre DEF Sound
<1>3. locals \in Nat /\ Len(m.values[c]) = f.offset + locals BY <1>2 DEF Height
<1>4. CASE result
  <2> DEFINE q == Pop(m, c)
             h == With(Nothing, <<v>>)
             j == locals - 1
  <2>1. j \in Nat /\ Len(m.values[c]) > f.offset /\ f.offset + 1 <= Len(m.values[c])
    BY <1>2, <1>3, <1>4
  <2>2. popped = DiscardMany(q, c, j) BY <1>4
  <2>3. q = Pop(m, c) /\ h = With(Nothing, <<v>>) /\ j = locals - 1 OBVIOUS
  <2> HIDE DEF q, h, j
  <2>4. /\ v \in Value /\ h \in Hands /\ \A o \in Objects : h[o] = Occurrences(<<v>>, o) /\ h[o] >= 0
        /\ Sound(q, h) /\ Popped(m, q, c)
        /\ q.frames = m.frames /\ q.freed = m.freed /\ q.status = "continue"
        /\ Len(q.values[c]) = Len(m.values[c]) - 1
    BY <2>1, <2>3, PopInHand
  <2>5. Frame(q, c) = f /\ q.frames[c] # <<>> BY <2>4 DEF Frame
  <2>6. Len(q.values[c]) = Frame(q, c).offset + j BY <1>2, <1>3, <2>3, <2>4, <2>5
  <2>7. h \in Hands BY <2>4
  <2>8. Sound(q, h) BY <2>4
  <2>9. j \in Nat BY <2>1
  <2>10. \A o \in Objects : h[o] >= 0 BY <2>4
  <2>11. q.frames[c] # <<>> BY <2>5
  <2>12. q.status = "continue" BY <2>4
  <2>13. n.status \in Aborted \/ Unwound(q, n, c, h)
    BY <2>2, <2>6, <2>7, <2>8, <2>9, <2>10, <2>11, <2>12, UnwindIs
  <2>14. Unwound(q, n, c, h) => LeftOf(m, q, n, c, h, v, result) BY <1>4, <2>4 DEF LeftOf
  <2>15. Unwound(q, n, c, h) => Left(m, n, c, v, result) BY <2>7, <2>14 DEF Left
  <2>16. QED BY <1>2, <1>3, <2>1, <2>4, <2>13, <2>15
<1>5. CASE ~result
  <2>1. popped = DiscardMany(m, c, locals) BY <1>5
  <2>2. Nothing \in Hands /\ \A o \in Objects : Nothing[o] >= 0 BY NothingInHand DEF NothingIs
  <2>3. Nothing \in Hands BY <2>2
  <2>4. locals \in Nat /\ Len(m.values[c]) = Frame(m, c).offset + locals BY <1>3
  <2>5. n.status \in Aborted \/ Unwound(m, n, c, Nothing) BY <2>1, <2>2, <2>3, <2>4, UnwindIs
  <2>6. Unwound(m, n, c, Nothing) => LeftOf(m, m, n, c, Nothing, v, result) BY <1>5, <2>2 DEF LeftOf
  <2>7. Unwound(m, n, c, Nothing) => Left(m, n, c, v, result) BY <2>3, <2>6 DEF Left
  <2>8. QED BY <1>2, <1>3, <1>5, <2>5, <2>7
<1>6. QED BY <1>4, <1>5

\* lstf_vm_stack_teardown_frame().
LEMMA ReturnSteps ==
  ASSUME NEW m, Sound(m, Nothing), m.status = "continue", NEW c \in Coroutines, m.frames[c] # <<>>,
         NEW n, n = TeardownFrame(m, c)
  PROVE  Steps(m, n, c)
<1> DEFINE f == Frame(m, c)
           locals == Height(m, c)
           result == locals > f.parameters
           popped == IF result THEN DiscardMany(Pop(m, c), c, locals - 1) ELSE DiscardMany(m, c, locals)
           left == LeaveFrame(popped, c)
           v == Top(m, c)
           cleared == DiscardMany(left, c, f.parameters)
<1>1. n = IF f.returns THEN IF result THEN Push(cleared, c, v) ELSE cleared
          ELSE IF result THEN Lose(left, v) ELSE left
  BY DEF TeardownFrame, LeaveFrame, WithoutFrame
<1>2. /\ f = Frame(m, c) /\ locals = Height(m, c) /\ result \in BOOLEAN /\ (result <=> locals > f.parameters)
      /\ popped = IF result THEN DiscardMany(Pop(m, c), c, locals - 1) ELSE DiscardMany(m, c, locals)
      /\ left = LeaveFrame(popped, c) /\ v = Top(m, c) /\ cleared = DiscardMany(left, c, f.parameters)
  OBVIOUS
<1> HIDE DEF f, locals, result, popped, left, v, cleared
<1>3. /\ f.offset \in Nat /\ f.parameters \in Nat /\ locals \in Nat
      /\ result => f.offset + 1 <= Len(m.values[c]) /\ v \in Value
      /\ \/ left.status \in Aborted
         \/ Left(m, left, c, v, result)
  BY <1>2, LeaveIs
<1>4. CASE left.status \in Aborted
  <2>1. f.parameters \in Nat BY <1>3
  <2>2. cleared.status \in Aborted BY <1>2, <1>4, <2>1, DiscardManyAborted
  <2>3. Push(cleared, c, v) = cleared BY <2>2 DEF Push, Ok, Aborted
  <2>4. Lose(left, v) = left BY <1>4 DEF Lose
  <2>5. n.status \in Aborted BY <1>1, <1>4, <2>2, <2>3, <2>4
  <2>6. QED BY <2>5, AbortedSteps
<1>5. CASE Left(m, left, c, v, result)
  <2>0. PICK q : \E h \in Hands : LeftOf(m, q, left, c, h, v, result) BY <1>5 DEF Left
  <2>10. PICK h \in Hands : LeftOf(m, q, left, c, h, v, result) BY <2>0
  <2>1. /\ q.frames = m.frames /\ q.freed = m.freed /\ Unwound(q, left, c, h)
        /\ \A o \in Objects : h[o] >= 0
        /\ result => \A o \in Objects : h[o] = Occurrences(<<v>>, o)
        /\ ~result => h = Nothing
    BY <2>10 DEF LeftOf
  <2>2. Typed(m) /\ Stacked(m) BY DEF Sound
  <2>3. Unwound(q, left, c, h) /\ q.frames = m.frames /\ q.freed = m.freed /\ \A o \in Objects : h[o] >= 0
    BY <2>1
  <2>4. CASE f.returns
    <3>1. cleared.status \in Aborted \/ Cleared(m, cleared, c, h, f)
      BY <1>2, <2>2, <2>3, <2>4, ClearParameters
    <3>2. CASE cleared.status \in Aborted
      <4>1. Push(cleared, c, v) = cleared BY <3>2 DEF Push, Ok, Aborted
      <4>2. n.status \in Aborted BY <1>1, <2>4, <3>2, <4>1
      <4>3. QED BY <4>2, AbortedSteps
    <3>3. CASE Cleared(m, cleared, c, h, f) /\ result
      <4>1. n = Push(cleared, c, v) /\ v \in Value /\ f.offset \in Nat /\ f.offset + 1 <= Len(m.values[c])
        BY <1>1, <1>3, <2>4, <3>3
      <4>2. \A o \in Objects : h[o] = Occurrences(<<v>>, o) BY <2>1, <3>3
      <4>3. v \in Value BY <4>1
      <4>4. QED BY <2>2, <3>3, <4>1, <4>2, <4>3, GiveResult
    <3>4. CASE Cleared(m, cleared, c, h, f) /\ ~result
      <4>1. n = cleared /\ h = Nothing BY <1>1, <2>1, <2>4, <3>4
      <4>2. Sound(n, Nothing) /\ n.freed = m.freed /\ \A d \in Coroutines \ {c} : n.frames[d] = m.frames[d]
        BY <3>4, <4>1 DEF Cleared
      <4>3. QED BY <4>2, SoundSteps
    <3>5. QED BY <3>1, <3>2, <3>3, <3>4
  <2>5. CASE ~f.returns /\ result
    <3>1. n = Lose(left, v) /\ v \in Value BY <1>1, <1>3, <2>5
    <3>2. \A o \in Objects : h[o] = Occurrences(<<v>>, o) BY <2>1, <2>5
    <3>3. v \in Value BY <3>1
    <3>4. QED BY <2>3, <3>1, <3>2, <3>3, ForgetResult
  <2>6. CASE ~f.returns /\ ~result
    <3>1. n = left /\ h = Nothing BY <1>1, <2>1, <2>6
    <3>2. Sound(n, Nothing) /\ n.freed = m.freed /\ \A d \in Coroutines \ {c} : n.frames[d] = m.frames[d]
      BY <2>3, <3>1 DEF Unwound
    <3>3. QED BY <3>2, SoundSteps
  <2>7. QED BY <2>4, <2>5, <2>6
<1>6. QED BY <1>3, <1>4, <1>5

\* The frame on top becomes another one, of the same function.
PutTop(m, c, g) == [m EXCEPT !.frames[c][Len(m.frames[c])] = g]
TopIs(m, n, c, g) ==
    /\ Len(n.frames[c]) = Len(m.frames[c]) /\ n.frames[c][Len(m.frames[c])] = g
    /\ \A i \in 1 .. Len(m.frames[c]) : i # Len(m.frames[c]) => n.frames[c][i] = m.frames[c][i]

Recounted(m, n, c, S, h) ==
    \A k \in Hands :
       (\A o \in Objects : k[o] + Cardinality(SlotsOf(n, c, S, o)) = h[o] + Cardinality(SlotsOf(m, c, S, o)))
          => Counted(n, k)

\* A frame that holds other things shifts the counts by those.
LEMMA Recounts ==
  ASSUME NEW m, Typed(m), NEW n \in MachineType, NEW c \in Coroutines, OnlyFramesOf(m, n, c),
         NEW S, SameBelow(m, n, c, S), NEW h \in Hands, Counted(m, h)
  PROVE  Recounted(m, n, c, S, h)
BY FramesCount DEF Recounted

\* Another frame on top that differs in its parameters and what it tracks.
LEMMA PutTopIs ==
  ASSUME NEW m, Typed(m), Stacked(m), NEW h \in Hands, Counted(m, h), NEW c \in Coroutines, m.frames[c] # <<>>,
         NEW f, f = Frame(m, c), NEW g \in FrameType, g.offset = f.offset, g.due = f.due, g.returns = f.returns,
         g.parameters <= g.due, NEW n, n = PutTop(m, c, g), NEW S, S = {Len(m.frames[c])}
  PROVE  Typed(n) /\ Stacked(n) /\ OnlyFramesOf(m, n, c) /\ TopIs(m, n, c, g) /\ Recounted(m, n, c, S, h)
<1> DEFINE L == Len(m.frames[c])
           fs == [m.frames[c] EXCEPT ![L] = g]
<1>1. m \in MachineType /\ Bounded(m) BY DEF Typed
<1>2. /\ m.frames[c] \in Seq(FrameType) /\ L \in Nat \ {0} /\ DOMAIN m.frames[c] = 1 .. L
      /\ f = m.frames[c][L] /\ m.frames \in CallStacks
  BY <1>1, FramesAre, TopFrame, MachineIs
<1>3. n = [m EXCEPT !.frames[c] = fs] BY <1>1, <1>2 DEF PutTop, MachineType, CallStacks
<1>4. fs \in Seq(FrameType) /\ Len(fs) = L /\ fs[L] = g /\ \A i \in 1 .. L : i # L => fs[i] = m.frames[c][i]
  BY <1>2
<1>5. fs \in Seq(FrameType) BY <1>4
<1> HIDE DEF fs
<1>6. n \in MachineType /\ n.frames[c] = fs /\ OnlyFramesOf(m, n, c)
  BY <1>1, <1>3, <1>5, WithFramesOf
<1>7. /\ \A d \in Coroutines \ {c} : n.frames[d] = m.frames[d]
      /\ n.values = m.values /\ n.upvalues = m.upvalues /\ n.closures = m.closures
  BY <1>6 DEF OnlyFramesOf
<1>8. TopIs(m, n, c, g) BY <1>4, <1>6 DEF TopIs
<1>9. Typed(n)
  <2>1. \A d \in Coroutines : Len(n.frames[d]) < MaxFrames BY <1>1, <1>4, <1>6, <1>7 DEF Bounded
  <2>2. QED BY <1>1, <1>6, <1>7, <2>1 DEF Typed, Bounded
<1>10. Stacked(n)
  <2> DEFINE V == Len(m.values[c])
             gs == n.frames[c]
             ms == m.frames[c]
  <2>1. /\ ms \in Seq(FrameType) /\ DOMAIN gs = 1 .. L /\ DOMAIN ms = 1 .. L /\ ms[L] = f /\ gs[L] = g
        /\ \A i \in 1 .. L : i # L => gs[i] = ms[i]
    BY <1>2, <1>4, <1>5, <1>6
  <2>2. \A i \in 1 .. L : FrameFits(ms[i], i, ms, V) BY <1>2, StackedIs
  <2> HIDE DEF gs, ms, V
  <2>3. \A i \in 1 .. L : gs[i].offset = ms[i].offset /\ gs[i].due = ms[i].due /\ gs[i].returns = ms[i].returns
    <3>1. ASSUME NEW i \in 1 .. L
          PROVE  gs[i].offset = ms[i].offset /\ gs[i].due = ms[i].due /\ gs[i].returns = ms[i].returns
      <4>1. CASE i = L BY <2>1, <4>1
      <4>2. CASE i # L BY <2>1, <4>2
      <4>3. QED BY <4>1, <4>2
    <3>2. QED BY <3>1
  <2>4. \A i \in 1 .. L : gs[i].parameters <= gs[i].due
    <3>1. ASSUME NEW i \in 1 .. L PROVE gs[i].parameters <= gs[i].due
      <4>1. CASE i = L BY <2>1, <4>1
      <4>2. CASE i # L BY <2>1, <2>2, <4>2 DEF FrameFits
      <4>3. QED BY <4>1, <4>2
    <3>2. QED BY <3>1
  <2>5. ASSUME NEW i \in 1 .. L PROVE FrameFits(gs[i], i, gs, V)
    <3>1. FrameFits(ms[i], i, ms, V) BY <2>2
    <3>2. gs[i].offset = ms[i].offset /\ gs[i].due = ms[i].due /\ gs[i].returns = ms[i].returns
          /\ gs[i].parameters <= gs[i].due
      BY <2>3, <2>4
    <3>3. \A j \in DOMAIN gs : j \in DOMAIN ms /\ gs[j].offset = ms[j].offset BY <2>1, <2>3
    <3>4. QED BY <3>1, <3>2, <3>3 DEF FrameFits
  <2>6. ASSUME NEW d \in Coroutines
        PROVE  /\ n.frames[d] = <<>> => n.values[d] = <<>>
               /\ \A i \in DOMAIN n.frames[d] : FrameFits(n.frames[d][i], i, n.frames[d], Len(n.values[d]))
    <3>1. CASE d = c
      <4>1. n.frames[c] # <<>> BY <1>2, <1>4, <1>6
      <4>2. \A i \in DOMAIN n.frames[c] : FrameFits(n.frames[c][i], i, n.frames[c], Len(n.values[c]))
        BY <1>7, <2>1, <2>5 DEF gs, V
      <4>3. QED BY <3>1, <4>1, <4>2
    <3>2. CASE d # c BY <1>7, <3>2, StackedIs
    <3>3. QED BY <3>1, <3>2
  <2>7. QED BY <2>6, StackedIs
<1>11. SameBelow(m, n, c, S)
  <2>1. \A i : i \in DOMAIN n.frames[c] <=> i \in DOMAIN m.frames[c] BY <1>2, <1>4, <1>5, <1>6
  <2>2. \A i \in DOMAIN m.frames[c] : i \notin S => n.frames[c][i] = m.frames[c][i]
    BY <1>2, <1>4, <1>6
  <2>3. QED BY <2>1, <2>2 DEF SameBelow
<1>12. OnlyFramesOf(m, n, c) BY <1>6
<1>13. n \in MachineType BY <1>6
<1>15. Recounted(m, n, c, S, h) BY <1>11, <1>12, <1>13, Recounts
<1>16. QED BY <1>8, <1>9, <1>10, <1>12, <1>15

\* The parameters are in place.
WithParameters(m, c, due) == [m EXCEPT !.frames[c][Len(m.frames[c])].parameters = due]
\* The number of parameters is no reference.
LEMMA ParametersSound ==
  ASSUME NEW m, NEW h \in Hands, Sound(m, h), NEW c \in Coroutines, m.frames[c] # <<>>,
         NEW due, due = Frame(m, c).due, NEW n, n = WithParameters(m, c, due)
  PROVE  Sound(n, h) /\ OnlyFramesOf(m, n, c)
<1> DEFINE f == Frame(m, c)
           g == [f EXCEPT !.parameters = due]
           L == Len(m.frames[c])
           S == {L}
<1>1. m \in MachineType /\ Typed(m) /\ Stacked(m) /\ Counted(m, h) /\ Tracking(m) /\ Valued(m)
  BY DEF Sound, Typed
<1>2. /\ f \in FrameType /\ f = m.frames[c][L] /\ due \in Nat /\ L \in DOMAIN m.frames[c]
      /\ m.frames \in CallStacks
  BY <1>1, TopFrame, MachineIs
<1>3. /\ g \in FrameType /\ g.offset = f.offset /\ g.due = f.due /\ g.returns = f.returns /\ g.closure = f.closure
      /\ g.tracked = f.tracked /\ g.parameters = due
  BY <1>2 DEF FrameType
<1>4. n = PutTop(m, c, g) BY <1>1, <1>2 DEF PutTop, WithParameters, MachineType, CallStacks
<1>5. g \in FrameType /\ g.parameters <= g.due BY <1>2, <1>3
<1>6. f = Frame(m, c) /\ S = {Len(m.frames[c])} OBVIOUS
<1> HIDE DEF f, g, S
<1>7. g \in FrameType BY <1>5
<1>8. Typed(m) BY <1>1
<1>9. Stacked(m) BY <1>1
<1>17. Counted(m, h) BY <1>1
<1>18. g.offset = f.offset BY <1>3
<1>19. g.due = f.due BY <1>3
<1>20. g.returns = f.returns BY <1>3
<1>21. g.parameters <= g.due BY <1>5
<1>22. f = Frame(m, c) BY <1>6
<1>23. S = {Len(m.frames[c])} BY <1>6
<1>10. Typed(n) /\ Stacked(n) /\ OnlyFramesOf(m, n, c) /\ TopIs(m, n, c, g) /\ Recounted(m, n, c, S, h)
  BY <1>4, <1>7, <1>8, <1>9, <1>17, <1>18, <1>19, <1>20, <1>21, <1>22, <1>23, PutTopIs
<1>11. n \in MachineType BY <1>10 DEF Typed
<1>12. /\ DOMAIN n.frames[c] = DOMAIN m.frames[c]
       /\ \A i \in DOMAIN m.frames[c] : /\ n.frames[c][i].offset = m.frames[c][i].offset
                                        /\ n.frames[c][i].closure = m.frames[c][i].closure
                                        /\ n.frames[c][i].tracked = m.frames[c][i].tracked
  <2>1. DOMAIN m.frames[c] = 1 .. L /\ DOMAIN n.frames[c] = 1 .. Len(n.frames[c])
    BY <1>1, <1>11, FramesAre
  <2>2. DOMAIN n.frames[c] = DOMAIN m.frames[c] BY <1>10, <2>1 DEF TopIs
  <2>3. ASSUME NEW i \in DOMAIN m.frames[c]
        PROVE  /\ n.frames[c][i].offset = m.frames[c][i].offset
               /\ n.frames[c][i].closure = m.frames[c][i].closure
               /\ n.frames[c][i].tracked = m.frames[c][i].tracked
    <3>1. CASE i = L BY <1>2, <1>3, <1>10, <3>1 DEF TopIs
    <3>2. CASE i # L BY <1>10, <2>1, <3>2 DEF TopIs
    <3>3. QED BY <3>1, <3>2
  <2>4. QED BY <2>2, <2>3
<1>13. ASSUME NEW o PROVE SlotsOf(n, c, S, o) = SlotsOf(m, c, S, o)
  <2>1. ASSUME NEW q \in Coroutines \X (1 .. MaxFrames) \X (0 .. MaxValues), q[1] = c
        PROVE  q \in HeldByFrames(n, o) <=> q \in HeldByFrames(m, o)
    <3>1. \A i \in DOMAIN m.frames[c] : Holds(n.frames[c][i]) = Holds(m.frames[c][i])
      BY <1>12 DEF Holds
    <3>2. \A i \in DOMAIN m.frames[c] : \A p : HeldAt(n.frames[c][i], p) = HeldAt(m.frames[c][i], p)
      BY <1>12 DEF HeldAt
    <3>3. \A r \in {m, n} : q \in HeldByFrames(r, o) <=>
             /\ q[2] \in DOMAIN r.frames[c]
             /\ q[3] \in Holds(r.frames[c][q[2]]) /\ HeldAt(r.frames[c][q[2]], q[3]) = o
      BY <2>1 DEF HeldByFrames
    <3>4. CASE q[2] \in DOMAIN m.frames[c] BY <1>12, <3>1, <3>2, <3>3, <3>4
    <3>5. CASE q[2] \notin DOMAIN m.frames[c] BY <1>12, <3>3, <3>5
    <3>6. QED BY <3>4, <3>5
  <2>2. QED BY <2>1 DEF SlotsOf, HeldByFrames
<1>14. Counted(n, h)
  <2>1. \A o \in Objects : h[o] + Cardinality(SlotsOf(n, c, S, o)) = h[o] + Cardinality(SlotsOf(m, c, S, o))
    BY <1>13
  <2>2. QED BY <1>10, <2>1 DEF Recounted
<1>15. Tracking(n) /\ Valued(n)
  <2>1. \A i, p : Owns(m, c, i, p) => Owns(n, c, i, p) BY <1>12 DEF Owns
  <2>2. \A p, u : Tracks(m, c, p, u) => Tracks(n, c, p, u)
    <3>1. ASSUME NEW p, NEW u, Tracks(m, c, p, u) PROVE Tracks(n, c, p, u)
      <4>1. PICK i \in DOMAIN m.frames[c] :
               Owns(m, c, i, p) /\ p \in DOMAIN m.frames[c][i].tracked /\ m.frames[c][i].tracked[p] = u
        BY <3>1 DEF Tracks
      <4>2. i \in DOMAIN n.frames[c] /\ Owns(n, c, i, p) /\ p \in DOMAIN n.frames[c][i].tracked
            /\ n.frames[c][i].tracked[p] = u
        BY <1>12, <2>1, <4>1
      <4>3. QED BY <4>2 DEF Tracks
    <3>2. QED BY <3>1
  <2>3. OnlyFramesOf(m, n, c) /\ Tracking(m) /\ Valued(m) BY <1>1, <1>10
  <2>4. QED BY <1>1, <1>11, <2>2, <2>3, FramesTrack
<1>16. QED BY <1>10, <1>14, <1>15 DEF Sound
\* The parameters of a function are copied from the stack of its caller, as far as there is room.
ArgsOf(m, c, f) == IF f.returns THEN [i \in 1 .. f.due |-> m.values[c][f.offset - f.due + i].v] ELSE <<>>
FitOf(args, room) == IF room < Len(args) THEN SubSeq(args, 1, room) ELSE args
FromPlaces(m, c, fit) == \A i \in 1 .. Len(fit) : \E p \in DOMAIN m.values[c] : fit[i] = m.values[c][p].v
CopyOf(m, c, fit) == Lay(RefAll(m, fit), c, fit)

\* The arguments that fit on the stack are values of places on it.
LEMMA ArgsAre ==
  ASSUME NEW m, Sound(m, Nothing), NEW c \in Coroutines, m.frames[c] # <<>>,
         NEW f, f = Frame(m, c), NEW args, args = ArgsOf(m, c, f), NEW room \in Nat,
         NEW fit, fit = FitOf(args, room)
  PROVE  fit \in Seq(Value) /\ Len(fit) <= room /\ Len(fit) \in Nat /\ FromPlaces(m, c, fit)
<1>1. m \in MachineType /\ Stacked(m) BY DEF Sound, Typed
<1>2. /\ Len(m.frames[c]) \in Nat \ {0} /\ Len(m.frames[c]) \in DOMAIN m.frames[c] /\ 1 \in DOMAIN m.frames[c]
      /\ f = m.frames[c][Len(m.frames[c])] /\ f \in FrameType /\ f.offset \in Nat /\ f.due \in Nat
      /\ f.offset <= Len(m.values[c]) /\ m.frames[c][1].offset \in Nat
  <2>1. /\ Len(m.frames[c]) \in Nat \ {0} /\ DOMAIN m.frames[c] = 1 .. Len(m.frames[c])
        /\ f = m.frames[c][Len(m.frames[c])] /\ f \in FrameType /\ f.offset \in Nat /\ f.due \in Nat
        /\ f.offset <= Len(m.values[c])
    BY <1>1, TopFrame, FramesAre
  <2>2. 1 \in DOMAIN m.frames[c] /\ Len(m.frames[c]) \in DOMAIN m.frames[c] BY <2>1
  <2>3. m.frames[c][1].offset \in Nat BY <1>1, <2>2, FramesAre DEF FrameType
  <2>4. QED BY <2>1, <2>2, <2>3
<1>3. f.returns => f.due <= f.offset
  <2> DEFINE L == Len(m.frames[c])
  <2>1. FrameFits(m.frames[c][L], L, m.frames[c], Len(m.values[c])) BY <1>1, <1>2, StackedIs
  <2>2. L = 1 => ~f.returns BY <1>2, <2>1 DEF FrameFits
  <2>3. L # 1 => m.frames[c][1].offset + f.due <= f.offset
    <3>0. L \in Nat \ {0} /\ 1 \in DOMAIN m.frames[c] BY <1>2
    <3>2. L > 1 => \A j \in DOMAIN m.frames[c] : j < L => m.frames[c][j].offset + m.frames[c][L].due <= m.frames[c][L].offset
      BY <2>1 DEF FrameFits
    <3> HIDE DEF L
    <3>1. L # 1 => 1 < L /\ L > 1 BY <3>0
    <3>3. L # 1 => m.frames[c][1].offset + m.frames[c][L].due <= m.frames[c][L].offset
      BY <3>0, <3>1, <3>2
    <3>4. f = m.frames[c][L] BY <1>2 DEF L
    <3>5. QED BY <3>3, <3>4
  <2> DEFINE a == m.frames[c][1].offset
             b == f.offset
             d == f.due
  <2>4. L # 1 => a + d <= b /\ a \in Nat /\ b \in Nat /\ d \in Nat BY <1>2, <2>3
  <2> HIDE DEF a, b, d, L
  <2>5. L # 1 => d <= b BY <2>4
  <2>6. QED BY <2>2, <2>5 DEF b, d
<1>4. /\ DOMAIN m.values[c] = 1 .. Len(m.values[c]) /\ Len(m.values[c]) \in Nat
      /\ \A i \in 1 .. Len(m.values[c]) : m.values[c][i].v \in Value
  BY <1>1, ValsAre
<1>5. args \in Seq(Value) /\ Len(args) \in Nat
      /\ \A i \in 1 .. Len(args) : \E p \in DOMAIN m.values[c] : args[i] = m.values[c][p].v
  <2>1. CASE f.returns
    <3> DEFINE a == f.offset
               d == f.due
               V == Len(m.values[c])
               g == [i \in 1 .. d |-> m.values[c][a - d + i].v]
    <3>1. args = g BY <2>1 DEF ArgsOf
    <3>2. a \in Nat /\ d \in Nat /\ V \in Nat /\ d <= a /\ a <= V BY <1>2, <1>3, <1>4, <2>1
    <3>3. ASSUME NEW i \in 1 .. d PROVE a - d + i \in 1 .. V /\ g[i] = m.values[c][a - d + i].v
      <4>1. g[i] = m.values[c][a - d + i].v OBVIOUS
      <4> HIDE DEF a, d, V
      <4>2. a - d + i \in 1 .. V BY <3>2
      <4>3. QED BY <4>1, <4>2
    <3>4. \A i \in 1 .. d : g[i] \in Value /\ \E p \in DOMAIN m.values[c] : g[i] = m.values[c][p].v
      <4>1. ASSUME NEW i \in 1 .. d PROVE g[i] \in Value /\ \E p \in DOMAIN m.values[c] : g[i] = m.values[c][p].v
        <5> DEFINE p == a - d + i
        <5>1. p \in DOMAIN m.values[c] /\ g[i] = m.values[c][p].v /\ m.values[c][p].v \in Value
          BY <1>4, <3>3
        <5> HIDE DEF p, g
        <5>2. QED BY <5>1
      <4> HIDE DEF g
      <4>2. QED BY <4>1
    <3>5. DOMAIN g = 1 .. d OBVIOUS
    <3>6. g = [i \in 1 .. d |-> g[i]] OBVIOUS
    <3> HIDE DEF g, a, d
    <3>7. g \in [1 .. d -> Value] /\ d \in Nat BY <3>2, <3>4, <3>6
    <3>8. g \in Seq(Value) /\ Len(g) = d BY <3>7, <3>5
    <3>9. QED BY <3>1, <3>4, <3>8, <3>2
  <2>2. CASE ~f.returns
    <3>1. args = <<>> BY <2>2 DEF ArgsOf
    <3>2. QED BY <3>1
  <2>3. QED BY <2>1, <2>2
<1>6. CASE room < Len(args)
  <2>1. fit = SubSeq(args, 1, room) BY <1>6 DEF FitOf
  <2>2. fit \in Seq(Value) /\ Len(fit) = room /\ \A i \in 1 .. room : fit[i] = args[i] /\ i \in 1 .. Len(args)
    BY <1>5, <1>6, <2>1
  <2>3. FromPlaces(m, c, fit) BY <1>5, <2>2 DEF FromPlaces
  <2>4. QED BY <2>2, <2>3
<1>7. CASE ~(room < Len(args))
  <2>1. fit = args BY <1>7 DEF FitOf
  <2>2. FromPlaces(m, c, fit) BY <1>5, <2>1 DEF FromPlaces
  <2>3. QED BY <1>5, <1>7, <2>1, <2>2
<1>8. QED BY <1>6, <1>7

\* Copies of values that are on a stack, with references of their own.
LEMMA CopySound ==
  ASSUME NEW m, Sound(m, Nothing), NEW c \in Coroutines, m.frames[c] # <<>>,
         NEW fit \in Seq(Value), Len(m.values[c]) + Len(fit) < MaxValues,
         FromPlaces(m, c, fit),
         NEW n, n = CopyOf(m, c, fit)
  PROVE  Sound(n, Nothing) /\ n.frames = m.frames /\ n.status = m.status /\ n.freed = m.freed
<1> DEFINE k == With(Nothing, fit)
           r == RefAll(m, fit)
<1>1. m \in MachineType /\ Typed(m) /\ Counted(m, Nothing) BY DEF Sound, Typed
<1>2. fit \in Seq(Things)
  <2>1. Value \subseteq Things BY DEF Things
  <2>2. QED BY <2>1
<1>3. Nothing \in Hands /\ \A o \in Objects : Nothing[o] = 0 BY NothingInHand DEF NothingIs
<1>4. Nothing \in Hands BY <1>3
<1>5. k \in Hands /\ \A o \in Objects : k[o] = Nothing[o] + Occurrences(fit, o)
  BY <1>2, <1>4, WithIs
<1>6. r = RefAll(m, fit) /\ n = Lay(r, c, fit) BY DEF CopyOf
<1> HIDE DEF k, r
<1>7. k \in Hands BY <1>5
<1>8. \A o \in Objects : o \in ToSet(fit) => Heap(m, o)[o] # None
  <2>1. ASSUME NEW o \in Objects, o \in ToSet(fit) PROVE Heap(m, o)[o] # None
    <3>1. PICK i \in 1 .. Len(fit) : fit[i] = o BY <2>1 DEF ToSet
    <3>2. PICK p \in DOMAIN m.values[c] : o = m.values[c][p].v BY <3>1 DEF FromPlaces
    <3>3. o \in Value BY <1>1, <3>2, ValsAre
    <3>4. o \in Closures BY <3>3, ObjectsAssumption DEF Objects, Value
    <3>5. \A x \in Objects : Nothing[x] >= 0 BY <1>3
    <3>6. Counted(m, Nothing) BY <1>1
    <3>7. Typed(m) BY <1>1
    <3>8. m.closures[o] # None BY <1>4, <3>2, <3>4, <3>5, <3>6, <3>7, HeldIsLive
    <3>9. QED BY <3>4, <3>8 DEF Heap
  <2>2. QED BY <2>1
<1>9. \A o \in Objects : k[o] = Nothing[o] + Occurrences(fit, o) BY <1>5
<1>10. r = RefAll(m, fit) BY <1>6
<1>11. /\ Sound(r, k) /\ r.values = m.values /\ r.frames = m.frames
       /\ r.status = m.status /\ r.freed = m.freed
  BY <1>2, <1>4, <1>7, <1>8, <1>9, <1>10, RefAllSound
<1>12. Sound(r, k) BY <1>11
<1>13. r.frames[c] # <<>> BY <1>11
<1>14. Len(r.values[c]) + Len(fit) < MaxValues BY <1>11
<1>15. n = Lay(r, c, fit) BY <1>6
<1>16. Sound(n, Nothing) BY <1>4, <1>7, <1>9, <1>12, <1>13, <1>14, <1>15, LaySound
<1>17. r \in MachineType BY <1>12 DEF Sound, Typed
<1>18. OnlyPlacesOf(r, n, c) BY <1>15, <1>17, LayIs
<1>19. QED BY <1>11, <1>16, <1>18 DEF OnlyPlacesOf

Entered(p, c, due, args, room) == IF room < Len(args) THEN Fail(p, "stack_overflow") ELSE WithParameters(p, c, due)
\* The copies are laid on the stack; then the status, or the frame, is set.
LEMMA EnteredSteps ==
  ASSUME NEW m, Sound(m, Nothing), m.status = "continue", NEW c \in Coroutines, m.frames[c] # <<>>,
         NEW fit \in Seq(Value), Len(m.values[c]) + Len(fit) < MaxValues, FromPlaces(m, c, fit),
         NEW p, p = CopyOf(m, c, fit)
  PROVE  \A args, room : Steps(m, Entered(p, c, Frame(m, c).due, args, room), c)
<1>1. Sound(p, Nothing) /\ p.frames = m.frames /\ p.status = m.status /\ p.freed = m.freed
  BY CopySound
<1> DEFINE due == Frame(m, c).due
<1>2. Steps(m, Fail(p, "stack_overflow"), c)
  <2> DEFINE n == Fail(p, "stack_overflow")
             why == "stack_overflow"
  <2>1. n = Fail(p, why) /\ p.status \notin Aborted /\ why \in Statuses \ {"continue"}
    BY <1>1 DEF Statuses, Aborted
  <2> HIDE DEF n, why
  <2>2. Steps(p, n, c) BY <1>1, <2>1, FailSteps
  <2>3. Steps(m, n, c) BY <1>1, <2>2, StepsAfter
  <2>4. QED BY <2>3 DEF n
<1>3. Steps(m, WithParameters(p, c, due), c)
  <2> DEFINE n == WithParameters(p, c, due)
  <2>1. n = WithParameters(p, c, due) OBVIOUS
  <2>2. due = Frame(p, c).due /\ p.frames[c] # <<>> BY <1>1 DEF Frame
  <2> HIDE DEF n, due
  <2>3. Sound(p, Nothing) /\ Nothing \in Hands BY <1>1, NothingInHand
  <2>4. Sound(n, Nothing) /\ OnlyFramesOf(p, n, c) BY <2>1, <2>2, <2>3, ParametersSound
  <2>5. n.freed = m.freed /\ \A d \in Coroutines \ {c} : n.frames[d] = m.frames[d]
    BY <1>1, <2>4 DEF OnlyFramesOf
  <2>6. Steps(m, n, c) BY <2>4, <2>5, SoundSteps
  <2>7. QED BY <2>6 DEF n
<1>4. QED BY <1>2, <1>3 DEF Entered

\* A function takes its parameters.
LEMMA ParamsSteps ==
  ASSUME NEW m, Sound(m, Nothing), m.status = "continue", NEW c \in Coroutines, m.frames[c] # <<>>,
         NEW f, f = Frame(m, c), NEW args, args = ArgsOf(m, c, f), NEW room, room = Room(m, c),
         NEW fit, fit = FitOf(args, room), NEW p, p = CopyOf(m, c, fit)
  PROVE  Steps(m, Entered(p, c, f.due, args, room), c)
<1>1. m \in MachineType /\ Bounded(m) BY DEF Sound, Typed
<1> DEFINE V == Len(m.values[c])
<1>2. V \in Nat /\ V < MaxValues /\ room = MaxValues - 1 - V /\ MaxValues \in Nat
  BY <1>1, ValsAre, LimitsAssumption DEF Bounded, Room
<1> HIDE DEF V
<1>3. room \in Nat BY <1>2
<1>4. fit \in Seq(Value) /\ Len(fit) <= room /\ Len(fit) \in Nat /\ FromPlaces(m, c, fit)
  BY <1>3, ArgsAre
<1>5. fit \in Seq(Value) BY <1>4
<1>6. V + Len(fit) < MaxValues BY <1>2, <1>4
<1>7. Len(m.values[c]) + Len(fit) < MaxValues BY <1>6 DEF V
<1>8. FromPlaces(m, c, fit) BY <1>4
<1>9. \A a, r : Steps(m, Entered(p, c, Frame(m, c).due, a, r), c) BY <1>5, <1>7, <1>8, EnteredSteps
<1>10. QED BY <1>9
----------------------------------------------------------------------------
(* The instruction that makes a closure.                                   *)

\* There is an up-value for each of the places, and a closure.
BoxOf(m, fresh) == CHOOSE b \in [fresh -> Free(m.upvalues)] : IsInjective(b)

\* There are enough free up-values for the new variables.
LEMMA BoxIs ==
  ASSUME NEW m \in MachineType, NEW fresh \in SUBSET Nat, IsFiniteSet(fresh),
         Cardinality(fresh) <= Cardinality(Free(m.upvalues)), NEW box, box = BoxOf(m, fresh)
  PROVE  /\ box \in [fresh -> Upvalues] /\ \A p, q \in fresh : box[p] = box[q] => p = q
         /\ \A p \in fresh : m.upvalues[box[p]] = None
<1>1. DOMAIN m.upvalues = Upvalues BY MachineIs DEF UpvalueHeap
<1>2. Free(m.upvalues) \subseteq Upvalues BY <1>1 DEF Free
<1>3. IsFiniteSet(Free(m.upvalues)) BY <1>2, ObjectsAssumption, FS_Subset
<1>4. \E b \in [fresh -> Free(m.upvalues)] : IsInjective(b) BY <1>3, FitsInto
<1>5. box \in [fresh -> Free(m.upvalues)] /\ IsInjective(box) BY <1>4 DEF BoxOf
<1>6. \A u \in Free(m.upvalues) : m.upvalues[u] = None BY DEF Free
<1>7. QED BY <1>2, <1>5, <1>6 DEF IsInjective

\* A closure that is not allocated.
LEMMA NewIs ==
  ASSUME NEW m \in MachineType, Free(m.closures) # {}, NEW x, x = New(m.closures)
  PROVE  x \in Closures /\ m.closures[x] = None
<1>1. DOMAIN m.closures = Closures BY MachineIs DEF ClosureHeap
<1>2. Free(m.closures) \subseteq Closures /\ Free(m.closures) \subseteq Nat
  BY <1>1, ObjectsAssumption DEF Free
<1>3. \E y \in Free(m.closures) : \A z \in Free(m.closures) : y <= z BY <1>2, LeastNumber
<1>4. x \in Free(m.closures) BY <1>3 DEF New
<1>5. QED BY <1>1, <1>4 DEF Free

\* The new up-values are in the hands of the instruction.
Boxing(box) == [o \in Objects |-> IF o \in Range(box) THEN 1 ELSE 0]
Boxes(m, c, box) ==
    /\ box \in [DOMAIN box -> Upvalues]
    /\ \A p, q \in DOMAIN box : box[p] = box[q] => p = q
    /\ \A p \in DOMAIN box : p \in DOMAIN m.values[c] /\ m.upvalues[box[p]] = None
\* ... and alias the places.
Aliased(m, n, c, box) ==
    /\ \A p \in DOMAIN box :
          /\ n.upvalues[box[p]] # None /\ n.upvalues[box[p]].open /\ n.upvalues[box[p]].refs = 1
          /\ n.upvalues[box[p]].cr = c /\ n.upvalues[box[p]].at = p
          /\ n.variable[box[p]] = m.values[c][p].v
    /\ \A u \in Upvalues \ Range(box) : n.upvalues[u] = m.upvalues[u] /\ n.variable[u] = m.variable[u]
    /\ n.values = m.values /\ n.frames = m.frames /\ n.closures = m.closures
    /\ n.status = m.status /\ n.kept = m.kept /\ n.freed = m.freed

\* The new up-values alias their places,
LEMMA CaptureIs ==
  ASSUME NEW m \in MachineType, NEW c \in Coroutines, NEW box, Boxes(m, c, box), NEW n, n = Capture(m, c, box)
  PROVE  n \in MachineType /\ Aliased(m, n, c, box)
<1> DEFINE At(u) == CHOOSE p \in DOMAIN box : box[p] = u
           ups == [u \in Upvalues |-> IF u \in Range(box)
                      THEN [open |-> TRUE, refs |-> 1, cr |-> c, at |-> At(u)] ELSE m.upvalues[u]]
           vars1 == [u \in Upvalues |-> IF u \in Range(box) THEN m.values[c][At(u)].v ELSE m.variable[u]]
<1>1. n = [m EXCEPT !.upvalues = ups, !.variable = vars1] BY DEF Capture
<1>2. \A u : u \in Range(box) <=> \E p \in DOMAIN box : box[p] = u BY DEF Range
<1>3. \A p \in DOMAIN box : At(box[p]) = p /\ box[p] \in Upvalues /\ box[p] \in Range(box)
  BY <1>2 DEF Boxes
<1>4. /\ DOMAIN m.values[c] = 1 .. Len(m.values[c]) /\ Len(m.values[c]) \in Nat
      /\ \A i \in 1 .. Len(m.values[c]) : m.values[c][i].v \in Value
  BY ValsAre
<1>5. \A u \in Range(box) : At(u) \in DOMAIN box /\ box[At(u)] = u /\ At(u) \in Nat /\ m.values[c][At(u)].v \in Value
  BY <1>2, <1>4 DEF Boxes
<1> HIDE DEF At
<1>6. ASSUME NEW u \in Range(box)
      PROVE  /\ ups[u] \in OpenUpvalue /\ ups[u] # None /\ ups[u].open /\ ups[u].refs = 1
             /\ ups[u].cr = c /\ ups[u].at = At(u) /\ vars1[u] = m.values[c][At(u)].v
  <2> DEFINE r == [open |-> TRUE, refs |-> 1, cr |-> c, at |-> At(u)]
  <2>1. u \in Upvalues BY <1>2, <1>3
  <2>2. ups[u] = r /\ vars1[u] = m.values[c][At(u)].v BY <2>1
  <2>3. r \in OpenUpvalue /\ r.open /\ r.refs = 1 /\ r.cr = c /\ r.at = At(u)
    BY <1>5 DEF OpenUpvalue
  <2>4. r # None BY <2>3, NoneAssumption
  <2> HIDE DEF r
  <2>5. QED BY <2>2, <2>3, <2>4
<1>7. \A u \in Upvalues \ Range(box) : ups[u] = m.upvalues[u] /\ vars1[u] = m.variable[u] OBVIOUS
<1>8. ups \in UpvalueHeap /\ vars1 \in Variables
  <2>1. m.upvalues \in UpvalueHeap /\ m.variable \in Variables BY MachineIs
  <2>2. \A u \in Upvalues : ups[u] \in OpenUpvalue \cup BoxedValue \cup {None}
    BY <1>6, <1>7, <2>1 DEF UpvalueHeap
  <2>3. \A u \in Upvalues : vars1[u] \in Value \cup {None} BY <1>5, <1>6, <1>7, <2>1 DEF Variables
  <2>4. ups = [u \in Upvalues |-> ups[u]] /\ vars1 = [u \in Upvalues |-> vars1[u]] OBVIOUS
  <2> HIDE DEF ups, vars1
  <2>5. QED BY <2>2, <2>3, <2>4 DEF UpvalueHeap, Variables
<1> HIDE DEF ups, vars1
<1>9. n \in MachineType /\ n.upvalues = ups /\ n.variable = vars1
      /\ n.values = m.values /\ n.frames = m.frames /\ n.closures = m.closures
      /\ n.status = m.status /\ n.kept = m.kept /\ n.freed = m.freed
  <2> DEFINE a == [m EXCEPT !.upvalues = ups]
  <2>1. /\ a \in MachineType /\ a.upvalues = ups
        /\ a.values = m.values /\ a.frames = m.frames /\ a.closures = m.closures
        /\ a.status = m.status /\ a.variable = m.variable /\ a.kept = m.kept /\ a.freed = m.freed
    BY <1>8, WithUpvalues
  <2>2. n = [a EXCEPT !.variable = vars1] BY <1>1 DEF MachineType
  <2> HIDE DEF a
  <2>3. a \in MachineType BY <2>1
  <2>4. vars1 \in Variables BY <1>8
  <2>5. n \in MachineType /\ n.variable = vars1
        /\ n.values = a.values /\ n.frames = a.frames /\ n.upvalues = a.upvalues /\ n.closures = a.closures
        /\ n.status = a.status /\ n.kept = a.kept /\ n.freed = a.freed
    BY <2>2, <2>3, <2>4, WithVariable
  <2>6. QED BY <2>1, <2>5
<1>10. QED BY <1>3, <1>6, <1>7, <1>9 DEF Aliased
BoxHands(box) == Boxing(box) \in Hands /\ \A o \in Objects : Boxing(box)[o] = IF o \in Range(box) THEN 1 ELSE 0
\* ... and are held by the instruction,
LEMMA BoxingIs ==
  ASSUME NEW box
  PROVE  BoxHands(box)
BY DEF BoxHands, Boxing, Hands

\* ... which counts that once each.
LEMMA CaptureCounts ==
  ASSUME NEW m, Sound(m, Nothing), NEW c \in Coroutines, NEW box, Boxes(m, c, box), NEW n, n = Capture(m, c, box)
  PROVE  /\ Typed(n) /\ Stacked(n) /\ Counted(n, Boxing(box)) /\ Aliased(m, n, c, box)
<1>1. m \in MachineType /\ Typed(m) /\ Stacked(m) /\ Counted(m, Nothing) /\ Bounded(m)
  BY DEF Sound, Typed
<1>2. n \in MachineType /\ Aliased(m, n, c, box) BY <1>1, CaptureIs
<1>3. /\ n.values = m.values /\ n.frames = m.frames /\ n.closures = m.closures /\ n.kept = m.kept
      /\ \A u \in Upvalues \ Range(box) : n.upvalues[u] = m.upvalues[u]
  BY <1>2 DEF Aliased
<1>4. \A u \in Range(box) : /\ u \in Upvalues /\ m.upvalues[u] = None
                            /\ n.upvalues[u] # None /\ n.upvalues[u].open /\ n.upvalues[u].refs = 1
  BY <1>2 DEF Aliased, Boxes, Range
<1>5. Typed(n) /\ Stacked(n) BY <1>1, <1>2, <1>3 DEF Typed, Bounded, Stacked
<1>6. BoxHands(box) BY BoxingIs
<1>7. ASSUME NEW o \in Objects
      PROVE  /\ Refs(n, o) = Holders(n, o) + Keeps(n, o) + Boxing(box)[o]
             /\ Heap(n, o)[o] # None => Refs(n, o) >= 1
  <2>1. \A w \in Upvalues : Boxed(n, w, o) <=> Boxed(m, w, o)
    <3>1. ASSUME NEW w \in Upvalues PROVE Boxed(n, w, o) <=> Boxed(m, w, o)
      <4>1. CASE w \in Range(box) BY <1>4, <4>1 DEF Boxed
      <4>2. CASE w \notin Range(box) BY <1>3, <4>2 DEF Boxed
      <4>3. QED BY <4>1, <4>2
    <3>2. QED BY <3>1
  <2>2. HeldByBoxes(n, o) = HeldByBoxes(m, o) BY <1>1, <1>2, <2>1, SameBoxes
  <2>3. Holders(n, o) = Holders(m, o)
    BY <1>3, <2>2 DEF Holders, HeldByPlaces, HeldByFrames, HeldByClosures
  <2>4. Keeps(n, o) = Keeps(m, o) BY <1>3 DEF Keeps
  <2>5. /\ Refs(m, o) = Holders(m, o) + Keeps(m, o) + Nothing[o]
        /\ Heap(m, o)[o] # None => Refs(m, o) >= 1
    BY <1>1 DEF Counted
  <2>6. Nothing[o] = 0 /\ Holders(m, o) \in Nat /\ Keeps(m, o) \in Nat /\ Refs(m, o) \in Nat
    BY <1>1, NothingInHand, RefsAre DEF NothingIs
  <2>7. CASE o \in Range(box)
    <3>1. o \in Upvalues /\ o \notin Closures BY <1>4, <2>7, ObjectsAssumption
    <3>2. Refs(m, o) = 0 /\ Refs(n, o) = 1 BY <1>4, <2>7, <3>1 DEF Refs, Heap
    <3>3. Boxing(box)[o] = 1 BY <1>6, <2>7 DEF BoxHands
    <3>4. QED BY <2>3, <2>4, <2>5, <2>6, <3>2, <3>3
  <2>8. CASE o \notin Range(box)
    <3>1. Heap(n, o)[o] = Heap(m, o)[o] BY <1>3, <2>8 DEF Heap, Objects
    <3>2. Refs(n, o) = Refs(m, o) BY <3>1 DEF Refs
    <3>3. Boxing(box)[o] = 0 BY <1>6, <2>8 DEF BoxHands
    <3>4. QED BY <2>3, <2>4, <2>5, <2>6, <3>1, <3>2, <3>3
  <2>9. QED BY <2>7, <2>8
<1>8. QED BY <1>2, <1>5, <1>7 DEF Counted

\* A closure that has the references to its up-values; the instruction has the one to it.
NewClosure(ups) == [refs |-> 1, upvalues |-> ups]
\* A new closure is in hand and holds its up-values.
LEMMA ClosureCounts ==
  ASSUME NEW m, Typed(m), NEW h \in Hands, Counted(m, h), NEW x \in Closures, m.closures[x] = None,
         NEW ups \in Seq(Upvalues), Len(ups) <= MaxCaptures,
         NEW n, n = SetClosure(m, x, NewClosure(ups)),
         NEW k \in Hands, \A o \in Objects : k[o] + Occurrences(ups, o) = h[o] + Occurrences(<<x>>, o)
  PROVE  Typed(n) /\ Counted(n, k) /\ OnlyClosure(m, n, x) /\ n.closures[x] # None
<1> DEFINE r == NewClosure(ups)
<1>1. r \in Closure /\ r.refs = 1 /\ r.upvalues = ups BY DEF NewClosure, Closure
<1>2. r # None /\ r \in AnyClosure BY <1>1, NoneAssumption DEF AnyClosure
<1>3. n = SetClosure(m, x, r) OBVIOUS
<1> HIDE DEF r
<1>4. m \in MachineType /\ Bounded(m) BY DEF Typed
<1>5. r \in AnyClosure BY <1>2
<1>6. n \in MachineType /\ n.closures[x] = r /\ OnlyClosure(m, n, x)
  BY <1>3, <1>4, <1>5, WithClosure
<1>7. /\ \A y \in Closures \ {x} : n.closures[y] = m.closures[y]
      /\ n.values = m.values /\ n.frames = m.frames /\ n.upvalues = m.upvalues /\ n.kept = m.kept
  BY <1>6 DEF OnlyClosure
<1>8. Typed(n)
  <2>1. DOMAIN n.closures = Closures /\ DOMAIN m.closures = Closures
    BY <1>4, <1>6, MachineIs DEF ClosureHeap
  <2>2. ASSUME NEW y \in Live(n.closures) PROVE Len(n.closures[y].upvalues) <= MaxCaptures
    <3>1. CASE y = x BY <1>1, <1>6, <3>1
    <3>2. CASE y # x BY <1>4, <1>7, <2>1, <2>2, <3>2 DEF Bounded, Live, Free
    <3>3. QED BY <3>1, <3>2
  <2>3. QED BY <1>4, <1>6, <1>7, <2>2 DEF Typed, Bounded
<1>9. /\ UpsOf(m, x) = <<>> /\ UpsOf(n, x) = ups
      /\ \A y \in Closures \ {x} : UpsOf(n, y) = UpsOf(m, y)
  BY <1>1, <1>2, <1>6, <1>7 DEF UpsOf
<1>10. ASSUME NEW o \in Objects
       PROVE  /\ Refs(n, o) = Holders(n, o) + Keeps(n, o) + k[o]
              /\ Heap(n, o)[o] # None => Refs(n, o) >= 1
  <2>1. Cardinality(HeldByClosures(n, o)) + Occurrences(UpsOf(m, x), o)
           = Cardinality(HeldByClosures(m, o)) + Occurrences(UpsOf(n, x), o)
    BY <1>8, <1>9, OneClosure
  <2>2. Occurrences(UpsOf(m, x), o) = 0 BY <1>9, OccurrencesNone
  <2>3. /\ HeldByPlaces(n, o) = HeldByPlaces(m, o) /\ HeldByBoxes(n, o) = HeldByBoxes(m, o)
        /\ HeldByFrames(n, o) = HeldByFrames(m, o)
    BY <1>7 DEF HeldByPlaces, HeldByBoxes, HeldByFrames
  <2>4. /\ Cardinality(HeldByPlaces(m, o)) \in Nat /\ Cardinality(HeldByBoxes(m, o)) \in Nat
        /\ Cardinality(HeldByFrames(m, o)) \in Nat /\ Cardinality(HeldByClosures(m, o)) \in Nat
        /\ Cardinality(HeldByClosures(n, o)) \in Nat
    BY <1>4, <1>6, HoldersAre
  <2>5. Keeps(n, o) = Keeps(m, o) BY <1>7 DEF Keeps
  <2>6. Refs(m, o) = Holders(m, o) + Keeps(m, o) + h[o] /\ h[o] \in Int /\ k[o] \in Int
        /\ (Heap(m, o)[o] # None => Refs(m, o) >= 1)
    BY DEF Counted, Hands
  <2>7. Keeps(m, o) \in Nat /\ Refs(m, o) \in Nat BY <1>4, RefsAre
  <2>8. Occurrences(ups, o) \in Nat /\ Occurrences(<<x>>, o) = IF o = x THEN 1 ELSE 0
    BY OccurrencesIs, OccurrencesOne
  <2>9. k[o] + Occurrences(ups, o) = h[o] + Occurrences(<<x>>, o) OBVIOUS
  <2> DEFINE a == Cardinality(HeldByPlaces(m, o)) + Cardinality(HeldByBoxes(m, o)) + Cardinality(HeldByFrames(m, o))
             b == Cardinality(HeldByClosures(m, o))
             d == Cardinality(HeldByClosures(n, o))
             e == Occurrences(ups, o)
             g == Occurrences(<<x>>, o)
             i == h[o]
             j == k[o]
             z == Keeps(m, o)
             s == Refs(m, o)
             t == Refs(n, o)
  <2>10. Holders(m, o) = a + b /\ Holders(n, o) = a + d BY <2>3 DEF Holders
  <2>11. t = s + g
    <3>1. CASE o = x
      <4>1. o \in Closures /\ o \notin Upvalues BY <3>1, ObjectsAssumption
      <4>2. Refs(m, o) = 0 /\ Refs(n, o) = 1 BY <1>1, <1>2, <1>6, <3>1, <4>1 DEF Refs, Heap
      <4>3. QED BY <2>8, <3>1, <4>2
    <3>2. CASE o # x
      <4>1. Refs(n, o) = Refs(m, o) BY <1>7, <3>2 DEF Refs, Heap
      <4>2. QED BY <2>7, <2>8, <3>2, <4>1
    <3>3. QED BY <3>1, <3>2
  <2>12. Heap(n, o)[o] # None => Refs(n, o) >= 1
    <3>1. CASE o = x BY <2>7, <2>8, <2>11, <3>1
    <3>2. CASE o # x
      <4>1. Heap(n, o)[o] = Heap(m, o)[o] /\ Refs(n, o) = Refs(m, o) BY <1>7, <3>2 DEF Refs, Heap
      <4>2. QED BY <2>6, <4>1
    <3>3. QED BY <3>1, <3>2
  <2>13. /\ d + 0 = b + e /\ s = (a + b) + z + i /\ j + e = i + g /\ t = s + g
         /\ a \in Nat /\ b \in Nat /\ d \in Nat /\ e \in Nat /\ g \in Nat /\ z \in Nat /\ i \in Int /\ j \in Int
    <3>1. d + 0 = b + e BY <1>9, <2>1, <2>2
    <3>2. s = (a + b) + z + i BY <2>6, <2>10
    <3>3. j + e = i + g BY <2>9
    <3>4. a \in Nat /\ b \in Nat /\ d \in Nat BY <2>4
    <3>5. e \in Nat /\ g \in Nat BY <2>8
    <3>6. z \in Nat /\ i \in Int /\ j \in Int BY <2>6, <2>7
    <3> HIDE DEF a, b, d, e, g, i, j, z, s, t
    <3>7. QED BY <2>11, <3>1, <3>2, <3>3, <3>4, <3>5, <3>6
  <2> HIDE DEF a, b, d, e, g, i, j, z, s, t
  <2>14. t = (a + d) + z + j BY <2>13
  <2>15. QED BY <2>5, <2>10, <2>12, <2>14 DEF t, z, j
<1>11. QED BY <1>2, <1>6, <1>8, <1>10 DEF Counted
\* The frame on top tracks the up-values of some more places.
MoreTracked(f, g, box) ==
    /\ g \in FrameType /\ g.offset = f.offset /\ g.due = f.due /\ g.returns = f.returns
    /\ g.closure = f.closure /\ g.parameters = f.parameters
    /\ DOMAIN g.tracked = DOMAIN box \cup DOMAIN f.tracked
    /\ \A p \in DOMAIN box : g.tracked[p] = box[p]
    /\ \A p \in DOMAIN f.tracked : g.tracked[p] = f.tracked[p]

\* A frame that tracks more places.
LEMMA TrackMore ==
  ASSUME NEW f \in FrameType, NEW box, box \in [DOMAIN box -> Upvalues], DOMAIN box \subseteq 1 .. MaxValues,
         DOMAIN box \cap DOMAIN f.tracked = {}, NEW g, g = [f EXCEPT !.tracked = WithBox(box, @)]
  PROVE  MoreTracked(f, g, box)
<1> DEFINE A == UNION {[R -> Upvalues] : R \in SUBSET (1 .. MaxValues)}
           t == f.tracked
           both == [x \in DOMAIN box \cup DOMAIN t |-> IF x \in DOMAIN box THEN box[x] ELSE t[x]]
<1>1. WithBox(box, t) = both BY DEF WithBox
<1>2. t \in A BY DEF FrameType
<1>3. PICK R \in SUBSET (1 .. MaxValues) : t \in [R -> Upvalues] BY <1>2
<1>4. DOMAIN t = R BY <1>3
<1>5. both \in [DOMAIN box \cup R -> Upvalues] /\ DOMAIN box \cup R \in SUBSET (1 .. MaxValues)
  BY <1>3, <1>4
<1>6. both \in A BY <1>5
<1>7. g = [f EXCEPT !.tracked = both] BY <1>1
<1>8. /\ DOMAIN both = DOMAIN box \cup DOMAIN t
      /\ \A p \in DOMAIN box : both[p] = box[p]
      /\ \A p \in DOMAIN t : both[p] = t[p]
  OBVIOUS
<1>9. FrameType = [offset : Nat, parameters : Nat, due : Nat, returns : BOOLEAN, closure : Closures \cup {None}, tracked : A]
  BY DEF FrameType
<1> HIDE DEF A, both
<1>10. /\ g \in FrameType /\ g.offset = f.offset /\ g.due = f.due /\ g.returns = f.returns
       /\ g.closure = f.closure /\ g.parameters = f.parameters /\ g.tracked = both
  BY <1>6, <1>7, <1>9
<1>11. QED BY <1>8, <1>10 DEF MoreTracked

\* As many as there are new ones.
LEMMA TrackSlots ==
  ASSUME NEW m \in MachineType, NEW n \in MachineType, NEW c \in Coroutines, m.frames[c] # <<>>,
         Len(m.frames[c]) < MaxFrames,
         NEW g, TopIs(m, n, c, g), NEW box, MoreTracked(Frame(m, c), g, box),
         \A p, q \in DOMAIN box : box[p] = box[q] => p = q,
         DOMAIN box \subseteq 1 .. MaxValues, DOMAIN box \cap DOMAIN Frame(m, c).tracked = {},
         NEW S, S = {Len(m.frames[c])}, NEW o
  PROVE  Cardinality(SlotsOf(n, c, S, o)) = Cardinality(SlotsOf(m, c, S, o)) + (IF o \in Range(box) THEN 1 ELSE 0)
         /\ Cardinality(SlotsOf(m, c, S, o)) \in Nat
<1> DEFINE f == Frame(m, c)
           L == Len(m.frames[c])
           N == {<<c, L, p>> : p \in {q \in DOMAIN box : box[q] = o}}
           A == SlotsOf(m, c, S, o)
           B == SlotsOf(n, c, S, o)
<1>1. /\ L \in Nat \ {0} /\ L \in DOMAIN m.frames[c] /\ f = m.frames[c][L] /\ L \in 1 .. MaxFrames
      /\ DOMAIN n.frames[c] = 1 .. Len(n.frames[c])
  <2>1. L \in Nat \ {0} /\ L \in DOMAIN m.frames[c] /\ f = m.frames[c][L] BY TopFrame
  <2>2. DOMAIN n.frames[c] = 1 .. Len(n.frames[c]) BY FramesAre
  <2>3. L < MaxFrames /\ MaxFrames \in Nat BY LimitsAssumption
  <2>4. L \in 1 .. MaxFrames BY <2>1, <2>3
  <2>5. QED BY <2>1, <2>2, <2>4
<1>2. L \in DOMAIN n.frames[c] /\ n.frames[c][L] = g BY <1>1 DEF TopIs
<1>3. Holds(f) \subseteq 0 .. MaxValues BY <1>1, FramesAre
<1>4. 0 \notin DOMAIN f.tracked /\ 0 \notin DOMAIN box
  <2>1. f \in FrameType BY TopFrame
  <2>2. DOMAIN f.tracked \subseteq 1 .. MaxValues BY <2>1 DEF FrameType
  <2>3. QED BY <2>2
<1>5. \A q : q \in A <=> /\ q \in Coroutines \X (1 .. MaxFrames) \X (0 .. MaxValues) /\ q[1] = c /\ q[2] = L
                         /\ q[3] \in Holds(f) /\ HeldAt(f, q[3]) = o
  BY <1>1 DEF SlotsOf, HeldByFrames
<1>6. \A q : q \in B <=> /\ q \in Coroutines \X (1 .. MaxFrames) \X (0 .. MaxValues) /\ q[1] = c /\ q[2] = L
                         /\ q[3] \in Holds(g) /\ HeldAt(g, q[3]) = o
  BY <1>2 DEF SlotsOf, HeldByFrames
<1>7. Holds(g) = Holds(f) \cup DOMAIN box BY DEF Holds, MoreTracked
<1>8. \A p \in Holds(f) : HeldAt(g, p) = HeldAt(f, p) BY <1>4 DEF HeldAt, Holds, MoreTracked
<1>9. \A p \in DOMAIN box : HeldAt(g, p) = box[p] /\ p \notin Holds(f)
  BY <1>4 DEF HeldAt, Holds, MoreTracked
<1>10. \A q : q \in N <=> /\ q \in Coroutines \X (1 .. MaxFrames) \X (0 .. MaxValues) /\ q[1] = c /\ q[2] = L
                          /\ q[3] \in DOMAIN box /\ box[q[3]] = o
  <2>1. \A p \in DOMAIN box : p \in 0 .. MaxValues OBVIOUS
  <2>2. ASSUME NEW q, q \in N
        PROVE  /\ q \in Coroutines \X (1 .. MaxFrames) \X (0 .. MaxValues) /\ q[1] = c /\ q[2] = L
               /\ q[3] \in DOMAIN box /\ box[q[3]] = o
    <3>1. PICK p \in DOMAIN box : box[p] = o /\ q = <<c, L, p>> BY <2>2
    <3> HIDE DEF L, N
    <3>2. QED BY <1>1, <2>1, <3>1
  <2>3. ASSUME NEW q \in Coroutines \X (1 .. MaxFrames) \X (0 .. MaxValues), q[1] = c, q[2] = L,
               q[3] \in DOMAIN box, box[q[3]] = o
        PROVE  q \in N
    <3> HIDE DEF L
    <3>1. q = <<c, L, q[3]>> BY <2>3
    <3>2. QED BY <2>3, <3>1
  <2>4. QED BY <2>2, <2>3
<1> HIDE DEF A, B, N, L, f
<1>11. \A q : q \in B <=> q \in A \/ q \in N
  <2>1. ASSUME NEW q PROVE q \in B <=> q \in A \/ q \in N BY <1>5, <1>6, <1>7, <1>8, <1>9, <1>10
  <2>2. QED BY <2>1
<1>12. B = A \cup N BY <1>11
<1>13. A \cap N = {} BY <1>5, <1>9, <1>10
<1>14. IsFiniteSet(A)
  <2>1. A \subseteq HeldByFrames(m, o) BY DEF A, SlotsOf
  <2>2. QED BY <2>1, HoldersAre, FS_Subset
<1>15. CASE o \in Range(box)
  <2>1. PICK p \in DOMAIN box : box[p] = o BY <1>15 DEF Range
  <2>2. \A q \in DOMAIN box : box[q] = o => q = p BY <2>1
  <2>3. N = {<<c, L, p>>} BY <2>1, <2>2 DEF N
  <2>4. IsFiniteSet(N) /\ Cardinality(N) = 1 BY <2>3, FS_Singleton
  <2>5. Cardinality(B) = Cardinality(A) + Cardinality(N) /\ Cardinality(A) \in Nat
    BY <1>12, <1>13, <1>14, <2>4, DisjointSize
  <2>6. QED BY <1>15, <2>4, <2>5 DEF A, B
<1>16. CASE o \notin Range(box)
  <2>1. N = {} BY <1>16 DEF N, Range
  <2>2. B = A BY <1>12, <2>1
  <2>3. Cardinality(A) \in Nat BY <1>14, FS_CardinalityType
  <2>4. QED BY <1>16, <2>2, <2>3 DEF A, B
<1>17. QED BY <1>15, <1>16
\* Places are marked as captured.
Mark(m, c, box) ==
    [m EXCEPT !.values[c] = [p \in DOMAIN @ |-> IF p \in DOMAIN box THEN [@[p] EXCEPT !.captured = TRUE] ELSE @[p]]]
Marked(m, n, c, box) ==
    /\ OnlyPlacesOf(m, n, c)
    /\ Len(n.values[c]) = Len(m.values[c])
    /\ \A p \in DOMAIN m.values[c] : /\ n.values[c][p].v = m.values[c][p].v
                                     /\ n.values[c][p].captured <=> p \in DOMAIN box \/ m.values[c][p].captured

\* Marking places as captured changes no value.
LEMMA MarkIs ==
  ASSUME NEW m \in MachineType, NEW c \in Coroutines, NEW box, NEW n, n = Mark(m, c, box)
  PROVE  n \in MachineType /\ Marked(m, n, c, box) /\ \A d \in Coroutines : Vals(n, d) = Vals(m, d)
<1> DEFINE s == m.values[c]
           t == [p \in DOMAIN s |-> IF p \in DOMAIN box THEN [s[p] EXCEPT !.captured = TRUE] ELSE s[p]]
<1>1. s \in Seq(Slot) /\ Len(s) \in Nat /\ DOMAIN s = 1 .. Len(s) BY ValsAre
<1>2. ASSUME NEW p \in DOMAIN s
      PROVE  /\ t[p] \in Slot /\ t[p].v = s[p].v
             /\ t[p].captured <=> p \in DOMAIN box \/ s[p].captured
  <2>1. s[p] \in Slot BY <1>1
  <2>2. s[p].captured \in BOOLEAN BY <2>1 DEF Slot
  <2>3. CASE p \in DOMAIN box
    <3>1. t[p] = [s[p] EXCEPT !.captured = TRUE] BY <2>3
    <3>2. t[p] \in Slot /\ t[p].v = s[p].v /\ t[p].captured BY <2>1, <3>1 DEF Slot
    <3>3. QED BY <2>3, <3>2
  <2>4. CASE p \notin DOMAIN box
    <3>1. t[p] = s[p] BY <2>4
    <3>2. QED BY <2>1, <2>4, <3>1
  <2>5. QED BY <2>3, <2>4
<1>3. DOMAIN t = 1 .. Len(s) /\ t = [p \in 1 .. Len(s) |-> t[p]] BY <1>1
<1>4. n = [m EXCEPT !.values[c] = t]
  <2>1. m.values \in Stacks BY MachineIs
  <2>2. QED BY <2>1 DEF Mark
<1> HIDE DEF t
<1>5. t \in [1 .. Len(s) -> Slot] BY <1>1, <1>2, <1>3
<1>6. t \in Seq(Slot) /\ Len(t) = Len(s) BY <1>1, <1>3, <1>5
<1>7. t \in Seq(Slot) BY <1>6
<1>8. n \in MachineType /\ n.values[c] = t /\ OnlyPlacesOf(m, n, c) BY <1>4, <1>7, WithPlaces
<1>9. Marked(m, n, c, box) BY <1>2, <1>6, <1>8 DEF Marked
<1>10. Vals(n, c) = Vals(m, c) BY <1>1, <1>2, <1>3, <1>8 DEF Vals
<1>11. \A d \in Coroutines : Vals(n, d) = Vals(m, d) BY <1>8, <1>10, OtherVals
<1>12. QED BY <1>8, <1>9, <1>11

\* lstf_vm_stack_frame_track_upvalue(), of all new up-values.
Tracked(m, n, c, box) ==
    /\ \A d \in Coroutines \ {c} : n.values[d] = m.values[d] /\ n.frames[d] = m.frames[d]
    /\ Len(n.values[c]) = Len(m.values[c])
    /\ \A p \in DOMAIN m.values[c] : /\ n.values[c][p].v = m.values[c][p].v
                                     /\ n.values[c][p].captured <=> p \in DOMAIN box \/ m.values[c][p].captured
    /\ \E g : TopIs(m, n, c, g) /\ MoreTracked(Frame(m, c), g, box)
    /\ n.upvalues = m.upvalues /\ n.closures = m.closures
    /\ n.status = m.status /\ n.variable = m.variable /\ n.kept = m.kept /\ n.freed = m.freed

\* lstf_vm_stack_frame_track_upvalue(): the frame holds what was in hand.
LEMMA TrackIs ==
  ASSUME NEW m, Typed(m), Stacked(m), NEW c \in Coroutines, m.frames[c] # <<>>,
         NEW box, box \in [DOMAIN box -> Upvalues], \A p, q \in DOMAIN box : box[p] = box[q] => p = q,
         DOMAIN box \subseteq DOMAIN m.values[c], DOMAIN box \cap DOMAIN Frame(m, c).tracked = {},
         NEW h, h = Boxing(box), Counted(m, h),
         NEW n, n = Track(m, c, box)
  PROVE  Typed(n) /\ Stacked(n) /\ Counted(n, Nothing) /\ Tracked(m, n, c, box)
<1> DEFINE f == Frame(m, c)
           g == [f EXCEPT !.tracked = WithBox(box, @)]
           L == Len(m.frames[c])
           S == {L}
           q == PutTop(m, c, g)
<1>1. m \in MachineType /\ Bounded(m) /\ m.frames \in CallStacks /\ m.values \in Stacks
  BY MachineIs DEF Typed
<1>2. f \in FrameType /\ f = m.frames[c][L] /\ L \in DOMAIN m.frames[c] /\ f.parameters \in Nat /\ f.due \in Nat
  BY <1>1, TopFrame
<1>3. DOMAIN box \subseteq 1 .. MaxValues
  <2>1. DOMAIN m.values[c] = 1 .. Len(m.values[c]) /\ Len(m.values[c]) \in Nat /\ Len(m.values[c]) < MaxValues
        /\ MaxValues \in Nat
    BY <1>1, ValsAre, LimitsAssumption DEF Bounded
  <2>2. QED BY <2>1
<1>4. f \in FrameType BY <1>2
<1>5. DOMAIN box \cap DOMAIN f.tracked = {} OBVIOUS
<1>6. g = [f EXCEPT !.tracked = WithBox(box, @)] OBVIOUS
<1>7. f.parameters <= f.due BY <1>2 DEF Stacked
<1>8. n = Mark(q, c, box) BY <1>1, <1>2 DEF Track, PutTop, Mark, MachineType, CallStacks, Stacks
<1>9. q = PutTop(m, c, g) OBVIOUS
<1>10. f = Frame(m, c) /\ S = {Len(m.frames[c])} OBVIOUS
<1> HIDE DEF f, g, q
<1>11. MoreTracked(f, g, box) BY <1>3, <1>4, <1>5, <1>6, TrackMore
<1>12. g \in FrameType BY <1>11 DEF MoreTracked
<1>13. g.offset = f.offset BY <1>11 DEF MoreTracked
<1>14. g.due = f.due BY <1>11 DEF MoreTracked
<1>15. g.returns = f.returns BY <1>11 DEF MoreTracked
<1>16. g.parameters <= g.due BY <1>7, <1>11 DEF MoreTracked
<1>17. f = Frame(m, c) BY <1>10
<1>18. h \in Hands /\ \A o \in Objects : h[o] = IF o \in Range(box) THEN 1 ELSE 0
  BY BoxingIs DEF BoxHands
<1>19. h \in Hands BY <1>18
<1> HIDE DEF S
<1>20. S = {Len(m.frames[c])} BY <1>10
<1>21. Typed(q) /\ Stacked(q) /\ OnlyFramesOf(m, q, c) /\ TopIs(m, q, c, g) /\ Recounted(m, q, c, S, h)
  BY <1>9, <1>12, <1>13, <1>14, <1>15, <1>16, <1>17, <1>19, <1>20, PutTopIs
<1>22. q \in MachineType BY <1>21 DEF Typed
<1>23. Counted(q, Nothing)
  <2>1. m \in MachineType BY <1>1
  <2>2. Len(m.frames[c]) < MaxFrames BY <1>1 DEF Bounded
  <2>3. TopIs(m, q, c, g) BY <1>21
  <2>4. MoreTracked(Frame(m, c), g, box) BY <1>11, <1>17
  <2>5. \A o \in Objects : Nothing[o] + Cardinality(SlotsOf(q, c, S, o)) = h[o] + Cardinality(SlotsOf(m, c, S, o))
    <3>1. ASSUME NEW o \in Objects
          PROVE  Nothing[o] + Cardinality(SlotsOf(q, c, S, o)) = h[o] + Cardinality(SlotsOf(m, c, S, o))
      <4>1. /\ Cardinality(SlotsOf(q, c, S, o)) = Cardinality(SlotsOf(m, c, S, o)) + (IF o \in Range(box) THEN 1 ELSE 0)
            /\ Cardinality(SlotsOf(m, c, S, o)) \in Nat
        BY <1>3, <1>20, <1>22, <2>1, <2>2, <2>3, <2>4, TrackSlots
      <4>2. Nothing[o] = 0 /\ h[o] = IF o \in Range(box) THEN 1 ELSE 0
        BY <1>18, NothingInHand DEF NothingIs
      <4>3. QED BY <4>1, <4>2
    <3>2. QED BY <3>1
  <2>6. QED BY <1>21, <2>5, NothingInHand DEF Recounted
<1>24. n \in MachineType /\ Marked(q, n, c, box) /\ \A d \in Coroutines : Vals(n, d) = Vals(q, d)
  BY <1>8, <1>22, MarkIs
<1>25. /\ \A d \in Coroutines \ {c} : n.values[d] = q.values[d]
       /\ n.frames = q.frames /\ n.upvalues = q.upvalues /\ n.closures = q.closures
       /\ n.status = q.status /\ n.variable = q.variable /\ n.kept = q.kept /\ n.freed = q.freed
  BY <1>24 DEF Marked, OnlyPlacesOf
<1>26. \A d \in Coroutines : Len(n.values[d]) = Len(q.values[d])
  <2>1. ASSUME NEW d \in Coroutines PROVE Len(n.values[d]) = Len(q.values[d])
    <3>1. CASE d = c BY <1>24, <3>1 DEF Marked
    <3>2. CASE d # c BY <1>25, <3>2
    <3>3. QED BY <3>1, <3>2
  <2>2. QED BY <2>1
<1>27. Typed(n) BY <1>21, <1>24, <1>25, <1>26 DEF Typed, Bounded
<1>28. Stacked(n)
  <2>1. ASSUME NEW d \in Coroutines, n.frames[d] = <<>> PROVE n.values[d] = <<>>
    <3>1. q.values[d] = <<>> BY <1>21, <1>25, <2>1 DEF Stacked
    <3>2. Len(n.values[d]) = 0 BY <1>26, <3>1
    <3>3. QED BY <1>24, <3>2, ValsAre, EmptyLen
  <2>2. ASSUME NEW d \in Coroutines
        PROVE  /\ n.frames[d] = <<>> => n.values[d] = <<>>
               /\ \A i \in DOMAIN n.frames[d] : FrameFits(n.frames[d][i], i, n.frames[d], Len(n.values[d]))
    <3>1. \A i \in DOMAIN q.frames[d] : FrameFits(q.frames[d][i], i, q.frames[d], Len(q.values[d]))
      BY <1>21, StackedIs
    <3>2. QED BY <1>25, <1>26, <2>1, <3>1
  <2>3. QED BY <2>2, StackedIs
<1>29. Counted(n, Nothing)
  <2>1. Typed(q) BY <1>21
  <2>2. \A d \in Coroutines \ {c} : Vals(n, d) = Vals(q, d) BY <1>24
  <2>3. n.frames = q.frames BY <1>25
  <2>4. n.upvalues = q.upvalues BY <1>25
  <2>5. n.closures = q.closures BY <1>25
  <2>6. n.kept = q.kept BY <1>25
  <2>7. Nothing \in Hands BY NothingInHand
  <2>8. \A o \in Objects : Nothing[o] + Occurrences(Vals(n, c), o) = Nothing[o] + Occurrences(Vals(q, c), o)
    BY <1>24
  <2>9. QED BY <1>23, <1>27, <2>1, <2>2, <2>3, <2>4, <2>5, <2>6, <2>7, <2>8, PlacesCount
<1>30. Tracked(m, n, c, box)
  <2>1. /\ \A d \in Coroutines \ {c} : q.frames[d] = m.frames[d]
        /\ q.values = m.values /\ q.upvalues = m.upvalues /\ q.closures = m.closures
        /\ q.status = m.status /\ q.variable = m.variable /\ q.kept = m.kept /\ q.freed = m.freed
    BY <1>21 DEF OnlyFramesOf
  <2>2. TopIs(m, n, c, g) BY <1>21, <1>25 DEF TopIs
  <2>3. \E k : TopIs(m, n, c, k) /\ MoreTracked(Frame(m, c), k, box) BY <1>11, <1>17, <2>2
  <2>4. /\ Len(n.values[c]) = Len(m.values[c])
        /\ \A p \in DOMAIN m.values[c] : /\ n.values[c][p].v = m.values[c][p].v
                                         /\ n.values[c][p].captured <=> p \in DOMAIN box \/ m.values[c][p].captured
    BY <1>24, <2>1 DEF Marked
  <2>5. QED BY <1>25, <2>1, <2>3, <2>4 DEF Tracked
<1>31. QED BY <1>27, <1>28, <1>29, <1>30
\* What a closure may capture: a local variable, or what the closure that runs has captured.
MayCapture(m, c, ds) ==
    /\ DOMAIN ds = 1 .. Len(ds) /\ Len(ds) \in 0 .. MaxCaptures
    /\ \A i \in DOMAIN ds :
          /\ ds[i].local \in BOOLEAN
          /\ ds[i].local => ds[i].at \in Frame(m, c).offset + 1 .. Len(m.values[c])
          /\ ~ds[i].local => /\ Frame(m, c).closure # None
                             /\ ds[i].at \in 1 .. Len(m.closures[Frame(m, c).closure].upvalues)
FreshOf(m, c, ds) == {ds[i].at : i \in {j \in DOMAIN ds : ds[j].local}} \ DOMAIN Frame(m, c).tracked
UpsFor(m, c, ds, box) ==
    [i \in DOMAIN ds |->
        CASE ~ds[i].local -> m.closures[Frame(m, c).closure].upvalues[ds[i].at]
          [] ds[i].local /\ ds[i].at \in FreshOf(m, c, ds) -> box[ds[i].at]
          [] ds[i].local /\ ds[i].at \notin FreshOf(m, c, ds) -> Frame(m, c).tracked[ds[i].at]]

\* The variables captured for the first time are places that the frame owns.
LEMMA FreshIs ==
  ASSUME NEW m, Sound(m, Nothing), NEW c \in Coroutines, m.frames[c] # <<>>,
         NEW ds, MayCapture(m, c, ds), NEW fresh, fresh = FreshOf(m, c, ds)
  PROVE  /\ fresh \in SUBSET Nat /\ IsFiniteSet(fresh) /\ fresh \cap DOMAIN Frame(m, c).tracked = {}
         /\ \A p \in fresh : p \in DOMAIN m.values[c] /\ p > Frame(m, c).offset
<1>1. m \in MachineType BY DEF Sound, Typed
<1>2. DOMAIN m.values[c] = 1 .. Len(m.values[c]) /\ Len(m.values[c]) \in Nat /\ Frame(m, c).offset \in Nat
  BY <1>1, ValsAre, TopFrame
<1>3. ASSUME NEW p \in fresh PROVE p \in DOMAIN m.values[c] /\ p > Frame(m, c).offset
  <2>1. p \in Frame(m, c).offset + 1 .. Len(m.values[c]) BY <1>3 DEF FreshOf, MayCapture
  <2> DEFINE a == Frame(m, c).offset
             b == Len(m.values[c])
  <2>2. a \in Nat /\ b \in Nat /\ p \in a + 1 .. b BY <1>2, <2>1
  <2> HIDE DEF a, b
  <2>3. p \in 1 .. b /\ p > a BY <2>2
  <2>4. QED BY <1>2, <2>3 DEF a, b
<1>4. fresh \subseteq 1 .. Len(m.values[c]) BY <1>2, <1>3
<1>5. IsFiniteSet(fresh)
  <2> DEFINE b == Len(m.values[c])
  <2>1. b \in Int /\ fresh \subseteq 1 .. b BY <1>2, <1>4
  <2> HIDE DEF b
  <2>2. IsFiniteSet(1 .. b) BY <2>1, FS_Interval
  <2>3. QED BY <2>1, <2>2, FS_Subset
<1>6. fresh \cap DOMAIN Frame(m, c).tracked = {} BY DEF FreshOf
<1>7. QED BY <1>3, <1>4, <1>5, <1>6

\* What the closure captures is allocated or new.
LEMMA UpsForIs ==
  ASSUME NEW m, Sound(m, Nothing), NEW c \in Coroutines, m.frames[c] # <<>>,
         NEW ds, MayCapture(m, c, ds),
         NEW box, Boxes(m, c, box), DOMAIN box = FreshOf(m, c, ds),
         NEW ups, ups = UpsFor(m, c, ds, box)
  PROVE  /\ ups \in Seq(Upvalues) /\ Len(ups) <= MaxCaptures
         /\ \A i \in DOMAIN ups : ups[i] \in Range(box) \/ m.upvalues[ups[i]] # None
<1> DEFINE f == Frame(m, c)
           fresh == FreshOf(m, c, ds)
           L == Len(m.frames[c])
           Fine(u) == u \in Upvalues /\ (u \in Range(box) \/ m.upvalues[u] # None)
<1>1. m \in MachineType /\ Typed(m) /\ Counted(m, Nothing) BY DEF Sound, Typed
<1>2. f \in FrameType /\ L \in DOMAIN m.frames[c] /\ f = m.frames[c][L] BY <1>1, TopFrame
<1>3. Nothing \in Hands /\ \A o \in Objects : Nothing[o] >= 0 BY NothingInHand DEF NothingIs
<1>4. /\ f.closure # None => m.closures[f.closure] # None
      /\ \A p \in DOMAIN f.tracked : m.upvalues[f.tracked[p]] # None
      /\ \A x \in Closures : \A i \in DOMAIN UpsOf(m, x) : m.upvalues[UpsOf(m, x)[i]] # None
  <2>1. Nothing \in Hands BY <1>3
  <2>2. Typed(m) BY <1>1
  <2>3. Counted(m, Nothing) BY <1>1
  <2>4. /\ \A i \in DOMAIN m.frames[c] :
              /\ m.frames[c][i].closure # None => m.closures[m.frames[c][i].closure] # None
              /\ \A p \in DOMAIN m.frames[c][i].tracked : m.upvalues[m.frames[c][i].tracked[p]] # None
        /\ \A x \in Closures : \A i \in DOMAIN UpsOf(m, x) : m.upvalues[UpsOf(m, x)[i]] # None
    BY <1>3, <2>1, <2>2, <2>3, HeldIsLive
  <2>5. QED BY <1>2, <2>4
<1>5. ASSUME NEW i \in DOMAIN ds PROVE Fine(ups[i])
  <2>1. CASE ~ds[i].local
    <3>1. ups[i] = m.closures[f.closure].upvalues[ds[i].at] BY <2>1 DEF UpsFor
    <3>2. f.closure # None /\ ds[i].at \in 1 .. Len(m.closures[f.closure].upvalues)
      BY <2>1 DEF MayCapture
    <3>3. f.closure \in Closures /\ m.closures[f.closure] # None BY <1>2, <1>4, <3>2 DEF FrameType
    <3>4. UpsOf(m, f.closure) = m.closures[f.closure].upvalues /\ UpsOf(m, f.closure) \in Seq(Upvalues)
      BY <1>1, <3>3, UpsAre DEF UpsOf
    <3> DEFINE us == UpsOf(m, f.closure)
               j == ds[i].at
    <3>5. us \in Seq(Upvalues) /\ j \in 1 .. Len(us) /\ ups[i] = us[j]
          /\ \A k \in DOMAIN us : m.upvalues[us[k]] # None
      BY <1>4, <3>1, <3>2, <3>3, <3>4
    <3> HIDE DEF us, j, f
    <3>6. j \in DOMAIN us /\ us[j] \in Upvalues BY <3>5
    <3>7. QED BY <3>5, <3>6
  <2>2. CASE ds[i].local /\ ds[i].at \in fresh
    <3>1. ups[i] = box[ds[i].at] BY <2>2 DEF UpsFor
    <3>2. ds[i].at \in DOMAIN box BY <2>2
    <3>3. QED BY <3>1, <3>2 DEF Boxes, Range
  <2>3. CASE ds[i].local /\ ds[i].at \notin fresh
    <3>1. ups[i] = f.tracked[ds[i].at] BY <2>3 DEF UpsFor
    <3>2. ds[i].at \in DOMAIN f.tracked BY <2>3 DEF FreshOf
    <3>3. f.tracked[ds[i].at] \in Upvalues
      <4>1. PICK R \in SUBSET (1 .. MaxValues) : f.tracked \in [R -> Upvalues] BY <1>2 DEF FrameType
      <4>2. QED BY <3>2, <4>1
    <3>4. QED BY <1>4, <3>1, <3>2, <3>3
  <2>4. ds[i].local \in BOOLEAN BY DEF MayCapture
  <2>5. QED BY <2>1, <2>2, <2>3, <2>4
<1>6. DOMAIN ups = DOMAIN ds /\ ups = [i \in DOMAIN ds |-> ups[i]] BY DEF UpsFor
<1>7. DOMAIN ds = 1 .. Len(ds) /\ Len(ds) \in Nat /\ Len(ds) <= MaxCaptures
  BY LimitsAssumption DEF MayCapture
<1> DEFINE k == Len(ds)
<1>8. ups = [i \in 1 .. k |-> ups[i]] /\ k \in Nat /\ k <= MaxCaptures /\ \A i \in 1 .. k : ups[i] \in Upvalues
  BY <1>5, <1>6, <1>7
<1> HIDE DEF k, Fine
<1>9. ups \in [1 .. k -> Upvalues] BY <1>8
<1>10. ups \in Seq(Upvalues) /\ Len(ups) = k BY <1>8, <1>9
<1>11. \A i \in DOMAIN ups : ups[i] \in Range(box) \/ m.upvalues[ups[i]] # None
  BY <1>5, <1>6 DEF Fine
<1>12. QED BY <1>8, <1>10, <1>11
\* The closure is on the stack, but the new up-values are still in hand.
MadeOf(m, c, box, ups, x) ==
    Lay(SetClosure(RefAll(Capture(m, c, box), ups), x, NewClosure(ups)), c, <<x>>)
Made(m, n, c, box, x) ==
    /\ \A d \in Coroutines \ {c} : n.values[d] = m.values[d]
    /\ Laid(m, n, c, <<x>>)
    /\ n.frames = m.frames /\ n.status = m.status /\ n.freed = m.freed
    /\ \A p \in DOMAIN box :
          /\ n.upvalues[box[p]] # None /\ n.upvalues[box[p]].open
          /\ n.upvalues[box[p]].cr = c /\ n.upvalues[box[p]].at = p
          /\ n.variable[box[p]] = m.values[c][p].v
    /\ \A u \in Upvalues \ Range(box) : SameUpvalue(m, n, u) /\ n.variable[u] = m.variable[u]

\* Its references to them are counted.
LEMMA RefUps ==
  ASSUME NEW m, Sound(m, Nothing), NEW c \in Coroutines, NEW box, Boxes(m, c, box),
         NEW a, a = Capture(m, c, box), NEW ups \in Seq(Upvalues),
         \A i \in DOMAIN ups : ups[i] \in Range(box) \/ m.upvalues[ups[i]] # None,
         NEW b, b = RefAll(a, ups)
  PROVE  /\ Typed(b) /\ Stacked(b) /\ Counted(b, With(Boxing(box), ups))
         /\ Aliased(m, a, c, box) /\ SameHeap(a, b) /\ a \in MachineType
         /\ b.values = a.values /\ b.frames = a.frames /\ b.status = a.status
         /\ b.variable = a.variable /\ b.kept = a.kept /\ b.freed = a.freed
<1> DEFINE h == Boxing(box)
           k == With(h, ups)
<1>1. Typed(a) /\ Stacked(a) /\ Counted(a, h) /\ Aliased(m, a, c, box) BY CaptureCounts
<1>2. a \in MachineType BY <1>1 DEF Typed
<1>3. h \in Hands BY BoxingIs DEF BoxHands
<1> HIDE DEF h
<1>4. ups \in Seq(Things)
  <2>1. Upvalues \subseteq Things BY DEF Things
  <2>2. QED BY <2>1
<1>5. k \in Hands /\ \A o \in Objects : k[o] = h[o] + Occurrences(ups, o) BY <1>3, <1>4, WithIs
<1> HIDE DEF k
<1>6. \A o \in Objects : o \in ToSet(ups) => Heap(a, o)[o] # None
  <2>1. ASSUME NEW o \in Objects, o \in ToSet(ups) PROVE Heap(a, o)[o] # None
    <3>1. PICK i \in DOMAIN ups : ups[i] = o BY <2>1 DEF ToSet
    <3>2. o \in Upvalues /\ o \notin Closures BY <3>1, ObjectsAssumption
    <3>3. a.upvalues[o] # None
      <4>1. CASE o \in Range(box) BY <1>1, <4>1 DEF Aliased, Range
      <4>2. CASE o \notin Range(box) BY <1>1, <3>1, <3>2, <4>2 DEF Aliased
      <4>3. QED BY <4>1, <4>2
    <3>4. QED BY <3>2, <3>3 DEF Heap
  <2>2. QED BY <2>1
<1>7. /\ b \in MachineType /\ SameHeap(a, b)
      /\ b.values = a.values /\ b.frames = a.frames /\ b.status = a.status
      /\ b.variable = a.variable /\ b.kept = a.kept /\ b.freed = a.freed
  BY <1>2, RefAllIs
<1>8. Typed(a) BY <1>1
<1>9. Counted(a, h) BY <1>1
<1>10. k \in Hands BY <1>5
<1>11. \A o \in Objects : k[o] = h[o] + Occurrences(ups, o) BY <1>5
<1>12. Typed(b) /\ Counted(b, k) BY <1>3, <1>6, <1>8, <1>9, <1>10, <1>11, RefAllCounts
<1>13. Stacked(b) BY <1>1, <1>7 DEF Stacked
<1>14. QED BY <1>1, <1>2, <1>7, <1>12, <1>13 DEF k, h

\* The closure is made and in hand, with the new up-values.
LEMMA MadeIs ==
  ASSUME NEW m, Sound(m, Nothing), NEW c \in Coroutines, Len(m.values[c]) + 1 < MaxValues, m.frames[c] # <<>>,
         NEW box, Boxes(m, c, box), NEW ups \in Seq(Upvalues), Len(ups) <= MaxCaptures,
         \A i \in DOMAIN ups : ups[i] \in Range(box) \/ m.upvalues[ups[i]] # None,
         NEW x \in Closures, m.closures[x] = None,
         NEW n, n = MadeOf(m, c, box, ups, x)
  PROVE  Typed(n) /\ Stacked(n) /\ Counted(n, Boxing(box)) /\ Made(m, n, c, box, x)
<1> DEFINE h == Boxing(box)
           k == With(h, ups)
           vs == <<x>>
           l == With(h, vs)
           a == Capture(m, c, box)
           b == RefAll(a, ups)
           e == SetClosure(b, x, NewClosure(ups))
<1>1. h \in Hands BY BoxingIs DEF BoxHands
<1>2. vs \in Seq(Value) /\ vs \in Seq(Things) /\ ups \in Seq(Things) /\ Len(vs) = 1
  <2>1. Upvalues \subseteq Things /\ x \in Things /\ x \in Value BY DEF Things, Value
  <2>2. QED BY <2>1
<1>3. n = Lay(e, c, vs) /\ e = SetClosure(b, x, NewClosure(ups)) /\ b = RefAll(a, ups) /\ a = Capture(m, c, box)
  BY DEF MadeOf
<1>4. \A o : Occurrences(vs, o) = Occurrences(<<x>>, o) OBVIOUS
<1>5. \A o \in Objects : Occurrences(vs, o) \in Nat /\ Occurrences(ups, o) \in Nat
  BY <1>2, OccurrencesIs
<1>20. \A d : Made(m, d, c, box, x) <=>
          /\ \A y \in Coroutines \ {c} : d.values[y] = m.values[y]
          /\ Laid(m, d, c, vs)
          /\ d.frames = m.frames /\ d.status = m.status /\ d.freed = m.freed
          /\ \A p \in DOMAIN box :
                /\ d.upvalues[box[p]] # None /\ d.upvalues[box[p]].open
                /\ d.upvalues[box[p]].cr = c /\ d.upvalues[box[p]].at = p
                /\ d.variable[box[p]] = m.values[c][p].v
          /\ \A u \in Upvalues \ Range(box) : SameUpvalue(m, d, u) /\ d.variable[u] = m.variable[u]
  BY DEF Made
<1> HIDE DEF vs, a, b, e, h
<1>6. /\ Typed(b) /\ Stacked(b) /\ Counted(b, k)
      /\ Aliased(m, a, c, box) /\ SameHeap(a, b) /\ a \in MachineType
      /\ b.values = a.values /\ b.frames = a.frames /\ b.status = a.status
      /\ b.variable = a.variable /\ b.kept = a.kept /\ b.freed = a.freed
  BY <1>3, RefUps DEF h
<1>7. k \in Hands /\ \A o \in Objects : k[o] = h[o] + Occurrences(ups, o) BY <1>1, <1>2, WithIs
<1>8. l \in Hands /\ \A o \in Objects : l[o] = h[o] + Occurrences(vs, o) BY <1>1, <1>2, WithIs
<1> HIDE DEF k, l
<1>9. Typed(e) /\ Counted(e, l) /\ OnlyClosure(b, e, x) /\ e.closures[x] # None
  <2>1. Typed(b) BY <1>6
  <2>2. Counted(b, k) BY <1>6
  <2>3. b.closures[x] = None BY <1>6 DEF Aliased, SameHeap, SameClosure
  <2>4. e = SetClosure(b, x, NewClosure(ups)) BY <1>3
  <2>5. k \in Hands BY <1>7
  <2>6. l \in Hands BY <1>8
  <2>7. \A o \in Objects : l[o] + Occurrences(ups, o) = k[o] + Occurrences(<<x>>, o)
    <3>1. ASSUME NEW o \in Objects PROVE l[o] + Occurrences(ups, o) = k[o] + Occurrences(<<x>>, o)
      <4>1. h[o] \in Int BY <1>1 DEF Hands
      <4>2. l[o] + Occurrences(ups, o) = k[o] + Occurrences(vs, o) BY <1>5, <1>7, <1>8, <4>1
      <4>3. QED BY <1>4, <4>2
    <3>2. QED BY <3>1
  <2>8. QED BY <2>1, <2>2, <2>3, <2>4, <2>5, <2>6, <2>7, ClosureCounts
<1>10. /\ e.values = m.values /\ e.frames = m.frames /\ e.status = m.status /\ e.freed = m.freed
       /\ e.upvalues = b.upvalues /\ e.variable = a.variable
  BY <1>6, <1>9 DEF OnlyClosure, Aliased
<1>11. Len(e.values[c]) + Len(vs) < MaxValues BY <1>2, <1>10
<1>12. Typed(e) BY <1>9
<1>13. Counted(e, l) BY <1>9
<1>14. n = Lay(e, c, vs) BY <1>3
<1>15. vs \in Seq(Value) BY <1>2
<1>16. l \in Hands BY <1>8
<1>17. \A o \in Objects : l[o] = h[o] + Occurrences(vs, o) BY <1>8
<1>18. Typed(n) /\ Counted(n, h) BY <1>1, <1>11, <1>12, <1>13, <1>14, <1>15, <1>16, <1>17, LayCounts
<1>19. e \in MachineType BY <1>12 DEF Typed
<1>21. n \in MachineType /\ OnlyPlacesOf(e, n, c) /\ Laid(e, n, c, vs) BY <1>14, <1>15, <1>19, LayIs
<1>22. /\ \A y \in Coroutines \ {c} : n.values[y] = m.values[y]
       /\ n.frames = m.frames /\ n.status = m.status /\ n.freed = m.freed
       /\ n.upvalues = b.upvalues /\ n.variable = a.variable
  BY <1>10, <1>21 DEF OnlyPlacesOf
<1>23. Laid(m, n, c, vs) BY <1>10, <1>21 DEF Laid
<1>24. \A u \in Upvalues : SameUpvalue(a, n, u) BY <1>6, <1>22 DEF SameHeap, SameUpvalue
<1>25. ASSUME NEW p \in DOMAIN box
       PROVE  /\ n.upvalues[box[p]] # None /\ n.upvalues[box[p]].open
              /\ n.upvalues[box[p]].cr = c /\ n.upvalues[box[p]].at = p
              /\ n.variable[box[p]] = m.values[c][p].v
  <2>1. box[p] \in Upvalues BY DEF Boxes
  <2>2. /\ a.upvalues[box[p]] # None /\ a.upvalues[box[p]].open
        /\ a.upvalues[box[p]].cr = c /\ a.upvalues[box[p]].at = p
        /\ a.variable[box[p]] = m.values[c][p].v
    BY <1>6 DEF Aliased
  <2>3. SameUpvalue(a, n, box[p]) BY <1>24, <2>1
  <2>4. QED BY <1>22, <2>2, <2>3 DEF SameUpvalue
<1>26. ASSUME NEW u \in Upvalues \ Range(box) PROVE SameUpvalue(m, n, u) /\ n.variable[u] = m.variable[u]
  <2>1. a.upvalues[u] = m.upvalues[u] /\ a.variable[u] = m.variable[u] BY <1>6 DEF Aliased
  <2>2. QED BY <1>22, <1>24, <2>1 DEF SameUpvalue
<1>27. Made(m, n, c, box, x) BY <1>20, <1>22, <1>23, <1>25, <1>26
<1>28. Stacked(n)
  <2> DEFINE V == Len(m.values[c])
             W == Len(n.values[c])
  <2>1. Stacked(m) /\ m \in MachineType BY DEF Sound, Typed
  <2>2. V \in Nat /\ W = V + 1 BY <1>2, <1>23, <2>1, ValsAre DEF Laid
  <2>3. ASSUME NEW d \in Coroutines
        PROVE  /\ n.frames[d] = <<>> => n.values[d] = <<>>
               /\ \A i \in DOMAIN n.frames[d] : FrameFits(n.frames[d][i], i, n.frames[d], Len(n.values[d]))
    <3>1. CASE d = c
      <4>1. ASSUME NEW i \in DOMAIN m.frames[c] PROVE FrameFits(m.frames[c][i], i, m.frames[c], W)
        <5> DEFINE g == m.frames[c][i]
        <5>1. FrameFits(g, i, m.frames[c], V) BY <2>1, StackedIs
        <5>2. g.offset \in Nat BY <2>1, FramesAre DEF FrameType
        <5> HIDE DEF g, V, W
        <5>3. g.offset <= V => g.offset <= W BY <2>2, <5>2
        <5>4. FrameFits(g, i, m.frames[c], W) BY <5>1, <5>3 DEF FrameFits
        <5>5. QED BY <5>4 DEF g
      <4>2. QED BY <1>22, <3>1, <4>1
    <3>2. CASE d # c BY <1>22, <2>1, <3>2, StackedIs
    <3>3. QED BY <3>1, <3>2
  <2>4. QED BY <2>3, StackedIs
<1>29. QED BY <1>18, <1>27, <1>28 DEF h
\* Who aliases a place and who tracks it, when the new up-values do.
LEMMA MakeTracks ==
  ASSUME NEW m, Sound(m, Nothing), NEW c \in Coroutines, m.frames[c] # <<>>,
         NEW box, Boxes(m, c, box), \A p \in DOMAIN box : p > Frame(m, c).offset,
         NEW x, NEW a \in MachineType, Made(m, a, c, box, x),
         NEW n \in MachineType, Tracked(a, n, c, box)
  PROVE  Tracking(n) /\ Valued(n)
<1> DEFINE V == Len(m.values[c])
           L == Len(m.frames[c])
<1>1. m \in MachineType /\ Tracking(m) /\ Valued(m) BY DEF Sound, Typed
<1>2. /\ DOMAIN m.values[c] = 1 .. V /\ V \in Nat
      /\ DOMAIN a.values[c] = 1 .. Len(a.values[c]) /\ DOMAIN n.values[c] = 1 .. Len(n.values[c])
      /\ Len(a.values[c]) = V + 1 /\ Len(n.values[c]) = V + 1
  <2>1. DOMAIN m.values[c] = 1 .. V /\ V \in Nat BY <1>1, ValsAre
  <2>2. Len(a.values[c]) = V + 1 BY DEF Made, Laid
  <2>3. Len(n.values[c]) = V + 1 BY <2>2 DEF Tracked
  <2>4. QED BY <2>1, <2>2, <2>3, ValsAre
<1>3. \A p \in DOMAIN m.values[c] :
         /\ p \in DOMAIN n.values[c] /\ n.values[c][p].v = m.values[c][p].v
         /\ n.values[c][p].captured <=> p \in DOMAIN box \/ m.values[c][p].captured
  <2>1. ASSUME NEW p \in DOMAIN m.values[c]
        PROVE  /\ p \in DOMAIN n.values[c] /\ n.values[c][p].v = m.values[c][p].v
               /\ n.values[c][p].captured <=> p \in DOMAIN box \/ m.values[c][p].captured
    <3>1. p \in DOMAIN a.values[c] /\ p \in DOMAIN n.values[c] BY <1>2
    <3>2. a.values[c][p] = m.values[c][p] BY <1>2 DEF Made, Laid
    <3>3. QED BY <3>1, <3>2 DEF Tracked
  <2>2. QED BY <2>1
<1>4. \A p \in DOMAIN n.values[c] : n.values[c][p].captured => p \in DOMAIN m.values[c]
  <2>1. ASSUME NEW p \in DOMAIN n.values[c], p \notin DOMAIN m.values[c] PROVE ~n.values[c][p].captured
    <3>1. p = V + 1 BY <1>2, <2>1
    <3>2. 1 \in 1 .. Len(<<x>>) OBVIOUS
    <3>3. ~a.values[c][V + 1].captured BY <3>2 DEF Made, Laid
    <3>4. p \notin DOMAIN box BY <2>1 DEF Boxes
    <3>5. p \in DOMAIN a.values[c] BY <1>2, <2>1
    <3>6. QED BY <3>1, <3>3, <3>4, <3>5 DEF Tracked
  <2>2. QED BY <2>1
<1>5. \A d \in Coroutines \ {c} : n.values[d] = m.values[d] /\ n.frames[d] = m.frames[d]
  BY DEF Made, Tracked
<1>6. PICK g : TopIs(a, n, c, g) /\ MoreTracked(Frame(a, c), g, box) BY DEF Tracked
<1>7. a.frames = m.frames /\ Frame(a, c) = Frame(m, c) BY DEF Made, Frame
<1>8. /\ L \in Nat \ {0} /\ DOMAIN m.frames[c] = 1 .. L /\ DOMAIN n.frames[c] = 1 .. L
      /\ Frame(m, c) = m.frames[c][L] /\ n.frames[c][L] = g
      /\ \A i \in 1 .. L : i # L => n.frames[c][i] = m.frames[c][i]
  BY <1>1, <1>6, <1>7, FramesAre, TopFrame DEF TopIs
<1>9. \A i \in 1 .. L : n.frames[c][i].offset = m.frames[c][i].offset
  BY <1>6, <1>7, <1>8 DEF MoreTracked
<1>10. \A i, p : Owns(m, c, i, p) <=> Owns(n, c, i, p) BY <1>8, <1>9 DEF Owns
<1>11. \A d \in Coroutines : \A p, u : Tracks(m, d, p, u) => Tracks(n, d, p, u)
  <2>1. ASSUME NEW d \in Coroutines, NEW p, NEW u, Tracks(m, d, p, u) PROVE Tracks(n, d, p, u)
    <3>1. CASE d = c
      <4>1. PICK i \in DOMAIN m.frames[c] :
               Owns(m, c, i, p) /\ p \in DOMAIN m.frames[c][i].tracked /\ m.frames[c][i].tracked[p] = u
        BY <2>1, <3>1 DEF Tracks
      <4>2. p \in DOMAIN n.frames[c][i].tracked /\ n.frames[c][i].tracked[p] = u
        <5>1. CASE i = L BY <1>6, <1>7, <1>8, <4>1, <5>1 DEF MoreTracked
        <5>2. CASE i # L BY <1>8, <4>1, <5>2
        <5>3. QED BY <5>1, <5>2
      <4>3. i \in DOMAIN n.frames[c] /\ Owns(n, c, i, p) BY <1>8, <1>10, <4>1
      <4>4. QED BY <3>1, <4>2, <4>3 DEF Tracks
    <3>2. CASE d # c BY <1>5, <2>1, <3>2 DEF Tracks, Owns
    <3>3. QED BY <3>1, <3>2
  <2>2. QED BY <2>1
<1>12. \A p \in DOMAIN box : Tracks(n, c, p, box[p])
  <2>1. ASSUME NEW p \in DOMAIN box PROVE Tracks(n, c, p, box[p])
    <3>1. p \in Nat /\ p > Frame(m, c).offset BY <1>2 DEF Boxes
    <3>2. Owns(m, c, L, p) BY <1>1, <3>1, OneOwner
    <3>3. L \in DOMAIN n.frames[c] /\ Owns(n, c, L, p) BY <1>8, <1>10, <3>2
    <3>4. p \in DOMAIN n.frames[c][L].tracked /\ n.frames[c][L].tracked[p] = box[p]
      BY <1>6, <1>8 DEF MoreTracked
    <3>5. QED BY <3>3, <3>4 DEF Tracks
  <2>2. QED BY <2>1
<1>13. /\ \A p \in DOMAIN box :
             /\ n.upvalues[box[p]] # None /\ n.upvalues[box[p]].open
             /\ n.upvalues[box[p]].cr = c /\ n.upvalues[box[p]].at = p
             /\ n.variable[box[p]] = m.values[c][p].v
             /\ p \in DOMAIN m.values[c] /\ m.upvalues[box[p]] = None /\ box[p] \in Upvalues
       /\ \A u \in Upvalues \ Range(box) : SameUpvalue(m, n, u) /\ n.variable[u] = m.variable[u]
  <2>1. n.upvalues = a.upvalues /\ n.variable = a.variable BY DEF Tracked
  <2>2. QED BY <2>1 DEF Made, Boxes, SameUpvalue
<1>14. \A u \in Range(box) : \E p \in DOMAIN box : box[p] = u BY DEF Range
<1>15. \A p \in DOMAIN box : box[p] \in Range(box) BY DEF Range
<1>16. \A u \in Upvalues \ Range(box), d \in Coroutines, p \in Nat : Aliases(n, u, d, p) <=> Aliases(m, u, d, p)
  BY <1>13 DEF Aliases, SameUpvalue
<1>17. ASSUME NEW u \in Upvalues, NEW d \in Coroutines, NEW p \in Nat, Aliases(n, u, d, p)
       PROVE  p \in DOMAIN n.values[d] /\ n.values[d][p].captured /\ Tracks(n, d, p, u)
  <2>1. CASE u \in Range(box)
    <3>1. PICK q \in DOMAIN box : box[q] = u BY <1>14, <2>1
    <3>2. d = c /\ p = q BY <1>13, <1>17, <3>1 DEF Aliases
    <3>3. p \in DOMAIN m.values[c] BY <1>13, <3>1, <3>2
    <3>4. QED BY <1>3, <1>12, <3>1, <3>2, <3>3
  <2>2. CASE u \notin Range(box)
    <3>1. Aliases(m, u, d, p) BY <1>16, <1>17, <2>2
    <3>2. p \in DOMAIN m.values[d] /\ m.values[d][p].captured /\ Tracks(m, d, p, u)
      BY <1>1, <3>1 DEF Tracking
    <3>3. p \in DOMAIN n.values[d] /\ n.values[d][p].captured BY <1>3, <1>5, <3>2
    <3>4. QED BY <1>11, <3>2, <3>3
  <2>3. QED BY <2>1, <2>2
<1>18. ASSUME NEW d \in Coroutines, NEW p \in DOMAIN n.values[d], n.values[d][p].captured
       PROVE  \E u \in Upvalues : Tracks(n, d, p, u) /\ Aliases(n, u, d, p)
  <2>1. CASE d = c /\ p \in DOMAIN box
    <3>1. Tracks(n, c, p, box[p]) /\ Aliases(n, box[p], c, p) /\ box[p] \in Upvalues
      BY <1>12, <1>13, <2>1 DEF Aliases
    <3>2. QED BY <2>1, <3>1
  <2>2. CASE ~(d = c /\ p \in DOMAIN box)
    <3>1. p \in DOMAIN m.values[d] /\ m.values[d][p].captured BY <1>3, <1>4, <1>5, <1>18, <2>2
    <3>2. PICK u \in Upvalues : Tracks(m, d, p, u) /\ Aliases(m, u, d, p) BY <1>1, <3>1 DEF Tracking
    <3>3. u \notin Range(box) BY <1>13, <1>14, <3>2 DEF Aliases
    <3>4. p \in Nat BY <1>1, <3>1, ValsAre
    <3>5. Tracks(n, d, p, u) /\ Aliases(n, u, d, p) BY <1>11, <1>16, <3>2, <3>3, <3>4
    <3>6. QED BY <3>5
  <2>3. QED BY <2>1, <2>2
<1>19. ASSUME NEW u \in Upvalues, n.upvalues[u] # None PROVE ValueOf(n, u) = n.variable[u]
  <2>1. CASE u \in Range(box)
    <3>1. PICK p \in DOMAIN box : box[p] = u BY <1>14, <2>1
    <3>2. ValueOf(n, u) = n.values[c][p].v /\ n.variable[u] = m.values[c][p].v /\ p \in DOMAIN m.values[c]
      BY <1>13, <3>1 DEF ValueOf
    <3>3. QED BY <1>3, <3>2
  <2>2. CASE u \notin Range(box)
    <3>1. SameUpvalue(m, n, u) /\ n.variable[u] = m.variable[u] BY <1>13, <2>2
    <3>2. m.upvalues[u] # None BY <1>19, <3>1 DEF SameUpvalue
    <3>3. ValueOf(m, u) = m.variable[u]
      <4>1. u \in Live(m.upvalues) BY <1>1, <3>2, LiveAre
      <4>2. QED BY <1>1, <4>1 DEF Valued
    <3>4. CASE m.upvalues[u].open
      <4> DEFINE d == m.upvalues[u].cr
                 p == m.upvalues[u].at
      <4>1. d \in Coroutines /\ p \in Nat /\ Aliases(m, u, d, p)
        BY <1>1, <3>2, <3>4, UpvalueIs DEF Aliases
      <4>2. p \in DOMAIN m.values[d] BY <1>1, <4>1 DEF Tracking
      <4>3. n.values[d][p].v = m.values[d][p].v BY <1>3, <1>5, <4>1, <4>2
      <4>4. ValueOf(m, u) = m.values[d][p].v /\ ValueOf(n, u) = n.values[d][p].v
        BY <3>1, <3>2, <3>4 DEF ValueOf, SameUpvalue
      <4>5. QED BY <3>1, <3>3, <4>3, <4>4
    <3>5. CASE ~m.upvalues[u].open
      <4>1. ValueOf(n, u) = ValueOf(m, u) BY <3>1, <3>2, <3>5 DEF ValueOf, SameUpvalue
      <4>2. QED BY <3>1, <3>3, <4>1
    <3>6. QED BY <3>4, <3>5
  <2>3. QED BY <2>1, <2>2
<1>20. Tracking(n) BY <1>17, <1>18 DEF Tracking
<1>21. Valued(n) BY <1>19, LiveAre DEF Valued
<1>22. QED BY <1>20, <1>21

\* With room on the stack, and without.
ClosureOf(m, c, ds, box, x) ==
    IF Room(m, c) >= 1 THEN Track(MadeOf(m, c, box, UpsFor(m, c, ds, box), x), c, box)
    ELSE Fail(m, IF FreshOf(m, c, ds) = {} THEN "stack_overflow" ELSE "up_value_of_no_place")
\* A closure is made and pushed, or there was no room for it.
LEMMA MakeClosureSteps ==
  ASSUME NEW m, Sound(m, Nothing), m.status = "continue", NEW c \in Coroutines, m.frames[c] # <<>>,
         NEW ds, MayCapture(m, c, ds), NEW fresh, fresh = FreshOf(m, c, ds),
         Cardinality(fresh) <= Cardinality(Free(m.upvalues)), NEW box, box = BoxOf(m, fresh),
         Free(m.closures) # {}, NEW x, x = New(m.closures),
         NEW n, n = ClosureOf(m, c, ds, box, x)
  PROVE  Steps(m, n, c)
<1> DEFINE ups == UpsFor(m, c, ds, box)
           a == MadeOf(m, c, box, ups, x)
<1>1. m \in MachineType /\ Bounded(m) BY DEF Sound, Typed
<1>2. /\ fresh \in SUBSET Nat /\ IsFiniteSet(fresh) /\ fresh \cap DOMAIN Frame(m, c).tracked = {}
      /\ \A p \in fresh : p \in DOMAIN m.values[c] /\ p > Frame(m, c).offset
  BY FreshIs
<1>3. /\ box \in [fresh -> Upvalues] /\ \A p, q \in fresh : box[p] = box[q] => p = q
      /\ \A p \in fresh : m.upvalues[box[p]] = None
  BY <1>1, <1>2, BoxIs
<1>4. x \in Closures /\ m.closures[x] = None BY <1>1, NewIs
<1>5. DOMAIN box = fresh BY <1>3
<1>6. Boxes(m, c, box) BY <1>2, <1>3, <1>5 DEF Boxes
<1>7. DOMAIN box = FreshOf(m, c, ds) BY <1>5
<1>8. ups = UpsFor(m, c, ds, box) /\ a = MadeOf(m, c, box, ups, x) OBVIOUS
<1> HIDE DEF a, ups
<1>9. /\ ups \in Seq(Upvalues) /\ Len(ups) <= MaxCaptures
      /\ \A i \in DOMAIN ups : ups[i] \in Range(box) \/ m.upvalues[ups[i]] # None
  BY <1>6, <1>7, <1>8, UpsForIs
<1>10. CASE Room(m, c) >= 1
  <2>1. n = Track(a, c, box) BY <1>8, <1>10 DEF ClosureOf
  <2>2. Len(m.values[c]) + 1 < MaxValues
    <3> DEFINE V == Len(m.values[c])
    <3>1. V \in Nat /\ MaxValues \in Nat /\ MaxValues - 1 - V >= 1
      BY <1>1, <1>10, ValsAre, LimitsAssumption DEF Room
    <3> HIDE DEF V
    <3>2. V + 1 < MaxValues BY <3>1
    <3>3. QED BY <3>2 DEF V
  <2>3. x \in Closures BY <1>4
  <2>4. m.closures[x] = None BY <1>4
  <2>5. ups \in Seq(Upvalues) BY <1>9
  <2>6. Len(ups) <= MaxCaptures BY <1>9
  <2>7. \A i \in DOMAIN ups : ups[i] \in Range(box) \/ m.upvalues[ups[i]] # None BY <1>9
  <2>8. a = MadeOf(m, c, box, ups, x) BY <1>8
  <2>9. Typed(a) /\ Stacked(a) /\ Counted(a, Boxing(box)) /\ Made(m, a, c, box, x)
    BY <1>6, <2>2, <2>3, <2>4, <2>5, <2>6, <2>7, <2>8, MadeIs
  <2> DEFINE h == Boxing(box)
  <2>10. Typed(a) BY <2>9
  <2>11. Stacked(a) BY <2>9
  <2>12. Counted(a, h) BY <2>9
  <2>13. a.frames = m.frames /\ a.frames[c] # <<>> /\ Frame(a, c) = Frame(m, c)
    BY <2>9 DEF Made, Frame
  <2>14. a.frames[c] # <<>> BY <2>13
  <2>15. box \in [DOMAIN box -> Upvalues] BY <1>3, <1>5
  <2>16. \A p, q \in DOMAIN box : box[p] = box[q] => p = q BY <1>3, <1>5
  <2>17. DOMAIN box \subseteq DOMAIN a.values[c]
    <3>1. a \in MachineType BY <2>10 DEF Typed
    <3>2. DOMAIN a.values[c] = 1 .. Len(a.values[c]) /\ Len(a.values[c]) = Len(m.values[c]) + Len(<<x>>)
      BY <2>9, <3>1, ValsAre DEF Made, Laid
    <3>3. DOMAIN m.values[c] = 1 .. Len(m.values[c]) /\ Len(m.values[c]) \in Nat /\ Len(<<x>>) = 1
      BY <1>1, ValsAre
    <3>4. QED BY <1>2, <1>5, <3>2, <3>3
  <2>18. DOMAIN box \cap DOMAIN Frame(a, c).tracked = {} BY <1>2, <1>5, <2>13
  <2>19. h = Boxing(box) OBVIOUS
  <2> HIDE DEF h
  <2>20. Typed(n) /\ Stacked(n) /\ Counted(n, Nothing) /\ Tracked(a, n, c, box)
    BY <2>1, <2>10, <2>11, <2>12, <2>14, <2>15, <2>16, <2>17, <2>18, <2>19, TrackIs
  <2>21. a \in MachineType BY <2>10 DEF Typed
  <2>22. n \in MachineType BY <2>20 DEF Typed
  <2>23. Made(m, a, c, box, x) BY <2>9
  <2>24. Tracked(a, n, c, box) BY <2>20
  <2>25. \A p \in DOMAIN box : p > Frame(m, c).offset BY <1>2, <1>5
  <2>26. Tracking(n) /\ Valued(n) BY <1>6, <2>21, <2>22, <2>23, <2>24, <2>25, MakeTracks
  <2>27. n.freed = m.freed /\ \A d \in Coroutines \ {c} : n.frames[d] = m.frames[d]
    BY <2>23, <2>24 DEF Made, Tracked
  <2>28. Sound(n, Nothing) BY <2>20, <2>26 DEF Sound
  <2>29. QED BY <2>27, <2>28, SoundSteps
<1>11. CASE ~(Room(m, c) >= 1) /\ fresh = {}
  <2> DEFINE why == "stack_overflow"
  <2>1. n = Fail(m, why) BY <1>11 DEF ClosureOf
  <2>2. why \in Statuses \ {"continue"} /\ m.status \notin Aborted BY DEF Statuses, Aborted
  <2> HIDE DEF why
  <2>3. QED BY <2>1, <2>2, FailSteps
<1>12. CASE ~(Room(m, c) >= 1) /\ fresh # {}
  <2> DEFINE why == "up_value_of_no_place"
  <2>1. n = Fail(m, why) BY <1>12 DEF ClosureOf
  <2>2. why \in Statuses /\ why \in Aborted BY DEF Statuses, Aborted
  <2> HIDE DEF why
  <2>3. n.status \in Aborted BY <1>1, <2>1, <2>2, FailIs
  <2>4. QED BY <2>3, AbortedSteps
<1>13. QED BY <1>10, <1>11, <1>12
----------------------------------------------------------------------------
(* The end of the program.                                                 *)

\* Which coroutines were freed makes no difference to the rest.
SameButFreed(m, n) ==
    /\ n.values = m.values /\ n.frames = m.frames /\ n.upvalues = m.upvalues /\ n.closures = m.closures
    /\ n.status = m.status /\ n.variable = m.variable /\ n.kept = m.kept
\* Which coroutines are freed is in no other part of the invariant.
LEMMA FreedKeeps ==
  ASSUME NEW m, NEW n \in MachineType, SameButFreed(m, n)
  PROVE  /\ Typed(m) => Typed(n)
         /\ Stacked(m) => Stacked(n)
         /\ Counted(m, Nothing) => Counted(n, Nothing)
         /\ Tracking(m) => Tracking(n)
         /\ Valued(m) => Valued(n)
<1>1. Typed(m) => Typed(n) BY DEF SameButFreed, Typed, Bounded
<1>2. Stacked(m) => Stacked(n) BY DEF SameButFreed, Stacked
<1>3. Counted(m, Nothing) => Counted(n, Nothing)
  <2>1. \A o : Refs(n, o) = Refs(m, o) /\ Heap(n, o) = Heap(m, o) /\ Keeps(n, o) = Keeps(m, o)
    BY DEF SameButFreed, Refs, Heap, Keeps
  <2>2. \A o : Holders(n, o) = Holders(m, o)
    BY DEF SameButFreed, Holders, HeldByPlaces, HeldByBoxes, HeldByFrames, HeldByClosures
  <2>3. QED BY <2>1, <2>2 DEF Counted
<1>4. Tracking(m) => Tracking(n) BY DEF SameButFreed, Tracking, Tracks, Owns, Aliases
<1>5. Valued(m) => Valued(n) BY DEF SameButFreed, Valued, ValueOf
<1>6. QED BY <1>1, <1>2, <1>3, <1>4, <1>5

\* The stacks hold at least what one of them does.
Emptied(m, c) == [m EXCEPT !.values[c] = <<>>]
\* A stack whose values were taken.
LEMMA EmptiedIs ==
  ASSUME NEW m, Typed(m), NEW c \in Coroutines, NEW n, n = Emptied(m, c)
  PROVE  /\ n \in MachineType /\ Typed(n) /\ OnlyPlacesOf(m, n, c) /\ n.values[c] = <<>> /\ Vals(n, c) = <<>>
         /\ \A d \in Coroutines \ {c} : Vals(n, d) = Vals(m, d)
<1> DEFINE e == <<>>
<1>1. m \in MachineType /\ Bounded(m) BY DEF Typed
<1>2. e \in Seq(Slot) /\ Len(e) = 0 /\ n = [m EXCEPT !.values[c] = e] BY DEF Emptied
<1>3. 0 < MaxValues BY LimitsAssumption
<1>4. Vals(n, c) = <<>> <=> [i \in DOMAIN n.values[c] |-> n.values[c][i].v] = e BY DEF Vals
<1>5. \A s : s = e => DOMAIN s = {} OBVIOUS
<1>12. [i \in {} |-> n.values[c][i].v] = e OBVIOUS
<1> HIDE DEF e
<1>6. e \in Seq(Slot) BY <1>2
<1>7. n \in MachineType /\ n.values[c] = e /\ OnlyPlacesOf(m, n, c) BY <1>1, <1>2, <1>6, WithPlaces
<1>8. \A d \in Coroutines \ {c} : Vals(n, d) = Vals(m, d) BY <1>7, OtherVals
<1>9. Typed(n)
  <2>1. \A d \in Coroutines : Len(n.values[d]) < MaxValues
    BY <1>1, <1>2, <1>3, <1>7 DEF Bounded, OnlyPlacesOf
  <2>2. QED BY <1>1, <1>7, <2>1 DEF Typed, Bounded, OnlyPlacesOf
<1>10. Vals(n, c) = <<>> BY <1>4, <1>5, <1>7, <1>12
<1>11. QED BY <1>7, <1>8, <1>9, <1>10 DEF e

AllOf(m, c) == Vals(m, c) \o OfFrames(m, c, DOMAIN m.frames[c])
\* All the references of a stack: those of places and of frames.
LEMMA AllOfIs ==
  ASSUME NEW m, Typed(m), NEW c \in Coroutines, NEW xs, xs = AllOf(m, c), NEW o
  PROVE  /\ xs \in Seq(Things) /\ Occurrences(xs, o) \in Nat
         /\ Occurrences(xs, o) = Occurrences(Vals(m, c), o) + Cardinality(SlotsOf(m, c, DOMAIN m.frames[c], o))
         /\ Occurrences(xs, o) <= Roots(m, o)
         /\ Occurrences(Vals(m, c), o) \in Nat /\ Cardinality(SlotsOf(m, c, DOMAIN m.frames[c], o)) \in Nat
         /\ Roots(m, o) \in Nat
<1> DEFINE S == DOMAIN m.frames[c]
           vs == Vals(m, c)
           fs == OfFrames(m, c, S)
           A == SlotsOf(m, c, S, o)
<1>1. m \in MachineType BY DEF Typed
<1>2. vs \in Seq(Things)
  <2>1. Value \subseteq Things BY DEF Things
  <2>2. vs \in Seq(Value) BY <1>1, ValsAre
  <2> HIDE DEF vs
  <2>3. QED BY <2>1, <2>2
<1>3. fs \in Seq(Things) /\ Occurrences(fs, o) = Cardinality(A)
  <2>1. Closures \cup Upvalues \cup {None} \subseteq Things BY DEF Things, Value
  <2>2. fs \in Seq(Closures \cup Upvalues \cup {None}) /\ Occurrences(fs, o) = Cardinality(A)
    BY OfFramesAre
  <2> HIDE DEF fs, A
  <2>3. QED BY <2>1, <2>2
<1>4. xs = vs \o fs BY DEF AllOf
<1>5. A \subseteq HeldByFrames(m, o) BY DEF SlotsOf
<1>6. /\ IsFiniteSet(HeldByFrames(m, o)) /\ Cardinality(HeldByFrames(m, o)) \in Nat
      /\ Cardinality(HeldByPlaces(m, o)) \in Nat
  BY <1>1, HoldersAre
<1>7. Cardinality(A) <= Cardinality(HeldByFrames(m, o)) /\ Cardinality(A) \in Nat
  <2>1. IsFiniteSet(A) BY <1>5, <1>6, FS_Subset
  <2>2. QED BY <1>5, <1>6, <2>1, FS_Subset, FS_CardinalityType
<1>8. Cardinality(HeldByPlaces(m, o)) >= Occurrences(vs, o)
  <2> DEFINE e == Emptied(m, c)
  <2>1. e = Emptied(m, c) OBVIOUS
  <2> HIDE DEF e
  <2>2. e \in MachineType /\ Typed(e) /\ Vals(e, c) = <<>> /\ \A d \in Coroutines \ {c} : Vals(e, d) = Vals(m, d)
    BY <2>1, EmptiedIs
  <2>3. Typed(e) BY <2>2
  <2>4. \A d \in Coroutines \ {c} : Vals(e, d) = Vals(m, d) BY <2>2
  <2>5. Cardinality(HeldByPlaces(e, o)) + Occurrences(vs, o)
           = Cardinality(HeldByPlaces(m, o)) + Occurrences(Vals(e, c), o)
    BY <2>3, <2>4, OneStack
  <2>6. Occurrences(Vals(e, c), o) = 0 BY <2>2, OccurrencesNone
  <2>7. Cardinality(HeldByPlaces(e, o)) \in Nat /\ Occurrences(vs, o) \in Nat
    BY <1>2, <2>2, HoldersAre, OccurrencesIs
  <2> DEFINE a == Cardinality(HeldByPlaces(m, o))
             b == Cardinality(HeldByPlaces(e, o))
             d == Occurrences(vs, o)
  <2>8. b + d = a + 0 /\ b \in Nat /\ d \in Nat /\ a \in Nat BY <1>6, <2>5, <2>6, <2>7
  <2> HIDE DEF a, b, d
  <2>9. a >= d BY <2>8
  <2>10. QED BY <2>9 DEF a, d
<1> HIDE DEF vs, fs, A
<1>9. xs \in Seq(Things) /\ Occurrences(xs, o) = Occurrences(vs, o) + Occurrences(fs, o)
  BY <1>2, <1>3, <1>4, OccurrencesJoin
<1>10. Occurrences(vs, o) \in Nat BY <1>2, OccurrencesIs
<1> DEFINE a == Cardinality(HeldByPlaces(m, o))
           b == Cardinality(HeldByFrames(m, o))
           d == Occurrences(vs, o)
           e == Cardinality(A)
<1>11. Roots(m, o) = a + b BY DEF Roots
<1>12. a \in Nat /\ b \in Nat /\ d \in Nat /\ e \in Nat /\ a >= d /\ e <= b /\ Occurrences(xs, o) = d + e
  BY <1>3, <1>6, <1>7, <1>8, <1>9, <1>10
<1> HIDE DEF a, b, d, e
<1>13. d + e <= a + b /\ d + e \in Nat /\ a + b \in Nat BY <1>12
<1>14. xs \in Seq(Things) /\ Occurrences(xs, o) \in Nat /\ Occurrences(xs, o) = d + e
       /\ Occurrences(xs, o) <= Roots(m, o) /\ d \in Nat /\ e \in Nat /\ Roots(m, o) \in Nat
  BY <1>9, <1>11, <1>12, <1>13
<1>15. QED BY <1>14 DEF d, e, A, vs
\* A stack that has dropped all its references is freed.
FramesGone(m, c) == [m EXCEPT !.frames[c] = <<>>]
\* A stack whose frames were taken.
LEMMA FramesGoneIs ==
  ASSUME NEW m, Typed(m), NEW c \in Coroutines, NEW n, n = FramesGone(m, c)
  PROVE  n \in MachineType /\ Typed(n) /\ n.frames[c] = <<>> /\ OnlyFramesOf(m, n, c)
<1> DEFINE e == <<>>
<1>1. m \in MachineType /\ Bounded(m) BY DEF Typed
<1>2. e \in Seq(FrameType) /\ Len(e) = 0 /\ n = [m EXCEPT !.frames[c] = e] BY DEF FramesGone
<1>3. 0 < MaxFrames BY LimitsAssumption
<1> HIDE DEF e
<1>4. e \in Seq(FrameType) BY <1>2
<1>5. n \in MachineType /\ n.frames[c] = e /\ OnlyFramesOf(m, n, c)
  BY <1>1, <1>2, <1>4, WithFramesOf
<1>6. \A d \in Coroutines : Len(n.frames[d]) < MaxFrames
  BY <1>1, <1>2, <1>3, <1>5 DEF Bounded, OnlyFramesOf
<1>7. Typed(n) BY <1>1, <1>5, <1>6 DEF Typed, Bounded, OnlyFramesOf
<1>8. QED BY <1>5, <1>7 DEF e

Destroyed(m, n, c) ==
    /\ Typed(n) /\ Stacked(n) /\ Counted(n, Nothing)
    /\ n.frames[c] = <<>> /\ n.values[c] = <<>>
    /\ \A d \in Coroutines \ {c} : n.frames[d] = m.frames[d]
    /\ n.status = m.status /\ n.freed = m.freed \cup {c}

\* what is not on the stack any more was dropped
LEMMA ClearedCounts ==
  ASSUME NEW m, Typed(m), NEW l \in Hands, Counted(m, l), NEW c \in Coroutines,
         \A o \in Objects : l[o] + Occurrences(AllOf(m, c), o) = 0,
         NEW a, a = Emptied(m, c), NEW b, b = FramesGone(a, c)
  PROVE  Counted(b, Nothing)
<1> DEFINE S == DOMAIN m.frames[c]
           k == [o \in Objects |-> l[o] + Occurrences(Vals(m, c), o)]
<1>1. m \in MachineType BY DEF Typed
<1>2. /\ a \in MachineType /\ Typed(a) /\ OnlyPlacesOf(m, a, c) /\ a.values[c] = <<>> /\ Vals(a, c) = <<>>
      /\ \A d \in Coroutines \ {c} : Vals(a, d) = Vals(m, d)
  BY EmptiedIs
<1>3. /\ a.frames = m.frames /\ a.upvalues = m.upvalues /\ a.closures = m.closures /\ a.kept = m.kept
  BY <1>2 DEF OnlyPlacesOf
<1>4. Typed(a) BY <1>2
<1>5. b \in MachineType /\ Typed(b) /\ b.frames[c] = <<>> /\ OnlyFramesOf(a, b, c)
  BY <1>4, FramesGoneIs
<1>6. \A o \in Objects : Occurrences(Vals(m, c), o) \in Nat /\ l[o] \in Int
  <2>1. Vals(m, c) \in Seq(Value) BY <1>1, ValsAre
  <2>2. QED BY <2>1, OccurrencesIs DEF Hands
<1>7. k \in Hands /\ \A o \in Objects : k[o] = l[o] + Occurrences(Vals(m, c), o) BY <1>6 DEF Hands
<1> HIDE DEF k
<1>8. Counted(a, k)
  <2>1. \A d \in Coroutines \ {c} : Vals(a, d) = Vals(m, d) BY <1>2
  <2>2. a.frames = m.frames BY <1>3
  <2>3. a.upvalues = m.upvalues BY <1>3
  <2>4. a.closures = m.closures BY <1>3
  <2>5. a.kept = m.kept BY <1>3
  <2>6. k \in Hands BY <1>7
  <2>7. \A o \in Objects : k[o] + Occurrences(Vals(a, c), o) = l[o] + Occurrences(Vals(m, c), o)
    <3>1. ASSUME NEW o \in Objects
          PROVE  k[o] + Occurrences(Vals(a, c), o) = l[o] + Occurrences(Vals(m, c), o)
      <4>1. Occurrences(Vals(a, c), o) = 0 BY <1>2, OccurrencesNone
      <4>2. k[o] = l[o] + Occurrences(Vals(m, c), o) /\ k[o] \in Int BY <1>7 DEF Hands
      <4>3. QED BY <4>1, <4>2
    <3>2. QED BY <3>1
  <2>8. QED BY <1>4, <2>1, <2>2, <2>3, <2>4, <2>5, <2>6, <2>7, PlacesCount
<1>9. SameBelow(a, b, c, S) BY <1>3, <1>5 DEF SameBelow
<1>10. \A o \in Objects : Nothing[o] + Cardinality(SlotsOf(b, c, S, o)) = k[o] + Cardinality(SlotsOf(a, c, S, o))
  <2>1. ASSUME NEW o \in Objects
        PROVE  Nothing[o] + Cardinality(SlotsOf(b, c, S, o)) = k[o] + Cardinality(SlotsOf(a, c, S, o))
    <3>1. SlotsOf(a, c, S, o) = SlotsOf(m, c, S, o) BY <1>3 DEF SlotsOf, HeldByFrames
    <3>2. SlotsOf(b, c, S, o) = {} BY <1>5 DEF SlotsOf, HeldByFrames
    <3>3. Cardinality(SlotsOf(b, c, S, o)) = 0 BY <3>2, FS_EmptySet
    <3> DEFINE xs == AllOf(m, c)
    <3>4. xs = AllOf(m, c) OBVIOUS
    <3> HIDE DEF xs
    <3>5. /\ Occurrences(xs, o) = Occurrences(Vals(m, c), o) + Cardinality(SlotsOf(m, c, S, o))
          /\ Occurrences(Vals(m, c), o) \in Nat /\ Cardinality(SlotsOf(m, c, S, o)) \in Nat
      BY <3>4, AllOfIs
    <3>6. l[o] + Occurrences(xs, o) = 0 /\ l[o] \in Int BY <1>6, <3>4
    <3> DEFINE x == Occurrences(Vals(m, c), o)
               y == Cardinality(SlotsOf(m, c, S, o))
               z == l[o]
    <3>7. z + (x + y) = 0 /\ x \in Nat /\ y \in Nat /\ z \in Int /\ k[o] = z + x BY <1>7, <3>5, <3>6
    <3> HIDE DEF x, y, z
    <3>8. k[o] + y = 0 BY <3>7
    <3>9. Nothing[o] = 0 BY NothingInHand DEF NothingIs
    <3>10. QED BY <3>1, <3>3, <3>8, <3>9 DEF y
  <2>2. QED BY <2>1
<1>11. b \in MachineType BY <1>5
<1>12. OnlyFramesOf(a, b, c) BY <1>5
<1>13. Nothing \in Hands BY NothingInHand
<1>14. k \in Hands BY <1>7
<1> HIDE DEF S
<1>15. QED BY <1>4, <1>8, <1>9, <1>10, <1>11, <1>12, <1>13, <1>14, FramesCount

\* lstf_vm_stack_destroy() drops what its stack holds, and nothing else.
LEMMA DestroyStackIs ==
  ASSUME NEW m, Typed(m), Stacked(m), Counted(m, Nothing), m.status \notin Aborted,
         NEW c \in Coroutines, NEW n, n = DestroyStack(m, c)
  PROVE  n.status \in Aborted \/ Destroyed(m, n, c)
<1> DEFINE xs == AllOf(m, c)
           p == UnrefAll(m, xs)
           l == [o \in Objects |-> -Occurrences(xs, o)]
<1>1. n = IF p.status \in Aborted THEN p
          ELSE [p EXCEPT !.values[c] = <<>>, !.frames[c] = <<>>, !.freed = @ \cup {c}]
  BY DEF DestroyStack, AllOf, Vals
<1>2. xs = AllOf(m, c) /\ p = UnrefAll(m, xs) OBVIOUS
<1> HIDE DEF xs, p
<1>3. xs \in Seq(Things) /\ \A o : Occurrences(xs, o) \in Nat /\ Occurrences(xs, o) <= Roots(m, o) /\ Roots(m, o) \in Nat
  <2>1. \A o : xs \in Seq(Things) /\ Occurrences(xs, o) \in Nat /\ Occurrences(xs, o) <= Roots(m, o)
               /\ Roots(m, o) \in Nat
    BY <1>2, AllOfIs
  <2>2. QED BY <2>1
<1>4. l \in Hands /\ \A o \in Objects : l[o] = -Occurrences(xs, o)
  <2>1. \A o \in Objects : -Occurrences(xs, o) \in Int BY <1>3
  <2>2. QED BY <2>1 DEF Hands
<1> HIDE DEF l
<1>5. With(l, xs) = Nothing
  <2>1. \A o \in Objects : l[o] + Occurrences(xs, o) = 0 BY <1>3, <1>4
  <2>2. With(l, xs) = [o \in Objects |-> l[o] + Occurrences(xs, o)] BY DEF With
  <2>3. QED BY <2>1, <2>2 DEF Nothing
<1>6. Counted(m, With(l, xs)) BY <1>5
<1>7. \A o \in Objects : l[o] + Roots(m, o) >= 0
  <2>1. ASSUME NEW o \in Objects PROVE l[o] + Roots(m, o) >= 0
    <3> DEFINE x == Occurrences(xs, o)
               r == Roots(m, o)
    <3>1. x \in Nat /\ r \in Nat /\ x <= r /\ l[o] = -x BY <1>3, <1>4
    <3> HIDE DEF x, r
    <3>2. l[o] + r >= 0 BY <3>1
    <3>3. QED BY <3>2 DEF r
  <2>2. QED BY <2>1
<1>8. xs \in Seq(Things) BY <1>3
<1>9. l \in Hands BY <1>4
<1>10. p = UnrefAll(m, xs) BY <1>2
<1>11. p.status \in Aborted \/ (Typed(p) /\ Counted(p, l) /\ Swept(m, p))
  BY <1>6, <1>7, <1>8, <1>9, <1>10, UnrefAllCounts
<1>12. CASE p.status \in Aborted BY <1>1, <1>12
<1>13. CASE p.status \notin Aborted
  <2> DEFINE a == Emptied(p, c)
             b == FramesGone(a, c)
  <2>1. Typed(p) /\ Counted(p, l) /\ Swept(m, p) BY <1>11, <1>13
  <2>2. p \in MachineType BY <2>1 DEF Typed
  <2>3. p.frames = m.frames /\ p.status = m.status /\ p.freed = m.freed /\ \A d \in Coroutines : Vals(p, d) = Vals(m, d)
    BY <2>1 DEF Swept
  <2>4. a = Emptied(p, c) /\ b = FramesGone(a, c) OBVIOUS
  <2>5. n = [p EXCEPT !.values[c] = <<>>, !.frames[c] = <<>>, !.freed = @ \cup {c}] BY <1>1, <1>13
  <2>6. n = [b EXCEPT !.freed = @ \cup {c}] BY <2>2, <2>5 DEF Emptied, FramesGone, MachineType
  <2> HIDE DEF a, b
  <2>7. Typed(p) BY <2>1
  <2>8. a = Emptied(p, c) BY <2>4
  <2>9. b = FramesGone(a, c) BY <2>4
  <2>10. /\ a \in MachineType /\ Typed(a) /\ OnlyPlacesOf(p, a, c) /\ a.values[c] = <<>>
    BY <2>7, <2>8, EmptiedIs
  <2>11. Typed(a) BY <2>10
  <2>12. b \in MachineType /\ Typed(b) /\ b.frames[c] = <<>> /\ OnlyFramesOf(a, b, c)
    BY <2>9, <2>11, FramesGoneIs
  <2>13. \A o \in Objects : l[o] + Occurrences(AllOf(p, c), o) = 0
    <3>1. AllOf(p, c) = xs BY <1>2, <2>3 DEF AllOf, OfFrames
    <3>2. QED BY <1>3, <1>4, <3>1
  <2>14. Counted(p, l) BY <2>1
  <2>15. Counted(b, Nothing) BY <1>9, <2>7, <2>8, <2>9, <2>13, <2>14, ClearedCounts
  <2>16. /\ b.values[c] = <<>> /\ b.frames[c] = <<>> /\ b.status = m.status /\ b.freed = m.freed
         /\ \A d \in Coroutines \ {c} : b.frames[d] = m.frames[d] /\ b.values[d] = p.values[d]
    BY <2>3, <2>10, <2>12 DEF OnlyPlacesOf, OnlyFramesOf
  <2>17. Stacked(b)
    <3>1. ASSUME NEW d \in Coroutines \ {c}
          PROVE  Len(b.values[d]) = Len(m.values[d]) /\ b.frames[d] = m.frames[d]
                 /\ (m.values[d] = <<>> => b.values[d] = <<>>)
      <4>1. b.values[d] = p.values[d] /\ Vals(p, d) = Vals(m, d) BY <2>3, <2>16
      <4>2. m \in MachineType BY DEF Typed
      <4>3. Len(p.values[d]) = Len(m.values[d]) /\ p.values[d] \in Seq(Slot)
        <5>1. Len(Vals(m, d)) = Len(m.values[d]) BY <4>2, ValsAre
        <5>2. Len(Vals(p, d)) = Len(p.values[d]) /\ p.values[d] \in Seq(Slot) BY <2>2, ValsAre
        <5>3. QED BY <4>1, <5>1, <5>2
      <4>4. m.values[d] = <<>> => p.values[d] = <<>> BY <4>3, EmptyLen
      <4>5. QED BY <2>16, <4>1, <4>3, <4>4
    <3>2. ASSUME NEW d \in Coroutines
          PROVE  /\ b.frames[d] = <<>> => b.values[d] = <<>>
                 /\ \A i \in DOMAIN b.frames[d] : FrameFits(b.frames[d][i], i, b.frames[d], Len(b.values[d]))
      <4>1. CASE d = c
        <5>1. DOMAIN b.frames[c] = {} BY <2>16
        <5>2. QED BY <2>16, <4>1, <5>1
      <4>2. CASE d # c
        <5>1. /\ m.frames[d] = <<>> => m.values[d] = <<>>
              /\ \A i \in DOMAIN m.frames[d] : FrameFits(m.frames[d][i], i, m.frames[d], Len(m.values[d]))
          BY StackedIs
        <5>2. Len(b.values[d]) = Len(m.values[d]) /\ b.frames[d] = m.frames[d]
              /\ (m.values[d] = <<>> => b.values[d] = <<>>)
          BY <3>1, <4>2
        <5>3. QED BY <5>1, <5>2
      <4>3. QED BY <4>1, <4>2
    <3>3. QED BY <3>2, StackedIs
  <2>18. n \in MachineType /\ SameButFreed(b, n) /\ n.freed = m.freed \cup {c}
    BY <2>6, <2>12, <2>16 DEF MachineType, SameButFreed
  <2>19. Typed(n) /\ Stacked(n) /\ Counted(n, Nothing) BY <2>12, <2>15, <2>17, <2>18, FreedKeeps
  <2>20. /\ n.frames[c] = <<>> /\ n.values[c] = <<>>
         /\ \A d \in Coroutines \ {c} : n.frames[d] = m.frames[d]
         /\ n.status = m.status
    BY <2>16, <2>18 DEF SameButFreed
  <2>21. QED BY <2>18, <2>19, <2>20 DEF Destroyed
<1>14. QED BY <1>12, <1>13

\* After a failed assertion nothing is destroyed.
LEMMA DestroyStackAborted ==
  ASSUME NEW m, m.status \in Aborted, NEW c
  PROVE  DestroyStack(m, c) = m
BY UnrefAllAborted DEF DestroyStack
\* Several stacks are destroyed, one after the other.
Destroying(m, cs, g) == g[0] = m /\ \A i \in Nat \ {0} : g[i] = DestroyStack(g[i - 1], cs[i])

\* DestroyMany is a loop over DestroyStack.
LEMMA DestroyManyIs ==
  ASSUME NEW m, NEW cs, NEW n, n = DestroyMany(m, cs)
  PROVE  \E g : Destroying(m, cs, g) /\ n = g[Len(cs)]
<1> DEFINE Def(g) == [i \in Nat |-> IF i = 0 THEN m ELSE DestroyStack(g[i - 1], cs[i])]
           after == CHOOSE g : g = Def(g)
<1>1. n = after[Len(cs)] BY DEF DestroyMany
<1>2. \E g : g = Def(g)
  <2>1. PICK g : g = Loop(m, "destroy", Main, cs, g) BY LoopIs
  <2>2. \A i : Step("destroy", Main, cs, i, g[i - 1]) = DestroyStack(g[i - 1], cs[i]) BY DEF Step
  <2>3. g = Def(g) BY <2>1, <2>2 DEF Loop
  <2>4. QED BY <2>3
<1> HIDE DEF Def
<1>3. after = Def(after) BY <1>2
<1> HIDE DEF after
<1>4. Destroying(m, cs, after)
  <2>1. after = [i \in Nat |-> IF i = 0 THEN m ELSE DestroyStack(after[i - 1], cs[i])]
    BY <1>3 DEF Def
  <2>2. after[0] = m BY <2>1
  <2>3. ASSUME NEW i \in Nat \ {0} PROVE after[i] = DestroyStack(after[i - 1], cs[i]) BY <2>1
  <2>4. QED BY <2>2, <2>3 DEF Destroying
<1>5. QED BY <1>1, <1>4

\* The first i of them are gone, the others are as they were.
Before(cs, i) == {cs[j] : j \in 1 .. i}
Ended(m, n, cs, i) ==
    /\ Typed(n) /\ Stacked(n) /\ Counted(n, Nothing)
    /\ \A d \in Before(cs, i) : n.frames[d] = <<>>
    /\ \A d \in Coroutines \ Before(cs, i) : n.frames[d] = m.frames[d]
    /\ n.status = m.status /\ n.freed = m.freed \cup Before(cs, i)

\* One stack after the other is destroyed.
LEMMA DestroyManySound ==
  ASSUME NEW m, Typed(m), Stacked(m), Counted(m, Nothing), m.status \notin Aborted,
         NEW cs \in Seq(Coroutines), NEW n, n = DestroyMany(m, cs)
  PROVE  n.status \in Aborted \/ Ended(m, n, cs, Len(cs))
<1> DEFINE Inv(k, i) == k.status \in Aborted \/ Ended(m, k, cs, i)
<1>1. PICK g : Destroying(m, cs, g) /\ n = g[Len(cs)] BY DestroyManyIs
<1>2. Len(cs) \in Nat /\ \A i \in 1 .. Len(cs) : cs[i] \in Coroutines OBVIOUS
<1>3. Inv(g[0], 0)
  <2>1. Before(cs, 0) = {} BY DEF Before
  <2>2. g[0] = m BY <1>1 DEF Destroying
  <2>3. QED BY <2>1, <2>2 DEF Ended
<1>4. ASSUME NEW i \in Nat, i < Len(cs), NEW k, Inv(k, i) PROVE Inv(DestroyStack(k, cs[i + 1]), i + 1)
  <2> DEFINE c == cs[i + 1]
             r == DestroyStack(k, c)
  <2>1. c \in Coroutines BY <1>2, <1>4
  <2>2. Before(cs, i + 1) = Before(cs, i) \cup {c}
    <3>1. 1 .. i + 1 = (1 .. i) \cup {i + 1} OBVIOUS
    <3>2. QED BY <3>1 DEF Before
  <2>3. r = DestroyStack(k, c) OBVIOUS
  <2> HIDE DEF c, r
  <2>4. CASE k.status \in Aborted
    <3>1. r = k BY <2>3, <2>4, DestroyStackAborted
    <3>2. QED BY <2>4, <3>1 DEF c, r
  <2>5. CASE Ended(m, k, cs, i)
    <3>1. Typed(k) /\ Stacked(k) /\ Counted(k, Nothing) BY <2>5 DEF Ended
    <3>2. Typed(k) BY <3>1
    <3>3. Stacked(k) BY <3>1
    <3>4. Counted(k, Nothing) BY <3>1
    <3>5. k.status \notin Aborted BY <2>5 DEF Ended
    <3>6. r.status \in Aborted \/ Destroyed(k, r, c)
      BY <2>1, <2>3, <3>2, <3>3, <3>4, <3>5, DestroyStackIs
    <3>7. ASSUME Destroyed(k, r, c) PROVE Ended(m, r, cs, i + 1)
      <4>1. /\ Typed(r) /\ Stacked(r) /\ Counted(r, Nothing)
            /\ r.frames[c] = <<>>
            /\ \A d \in Coroutines \ {c} : r.frames[d] = k.frames[d]
            /\ r.status = k.status /\ r.freed = k.freed \cup {c}
        BY <3>7 DEF Destroyed
      <4>2. /\ \A d \in Before(cs, i) : k.frames[d] = <<>>
            /\ \A d \in Coroutines \ Before(cs, i) : k.frames[d] = m.frames[d]
            /\ k.status = m.status /\ k.freed = m.freed \cup Before(cs, i)
        BY <2>5 DEF Ended
      <4>3. \A d \in Before(cs, i) : d \in Coroutines BY <1>2, <1>4 DEF Before
      <4>4. \A d \in Before(cs, i + 1) : r.frames[d] = <<>> BY <2>2, <4>1, <4>2, <4>3
      <4>5. \A d \in Coroutines \ Before(cs, i + 1) : r.frames[d] = m.frames[d] BY <2>2, <4>1, <4>2
      <4>6. r.status = m.status /\ r.freed = m.freed \cup Before(cs, i + 1) BY <2>2, <4>1, <4>2
      <4>7. QED BY <4>1, <4>4, <4>5, <4>6 DEF Ended
    <3>8. QED BY <3>6, <3>7 DEF c, r
  <2>6. QED BY <1>4, <2>4, <2>5
<1> HIDE DEF Inv
<1> DEFINE T == {i \in Nat : i <= Len(cs) /\ ~Inv(g[i], i)}
<1>5. ASSUME T # {} PROVE FALSE
  <2>1. T \subseteq Nat OBVIOUS
  <2>2. PICK i \in T : \A q \in T : i <= q BY <1>5, <2>1, LeastNumber
  <2>3. i \in Nat /\ i # 0 /\ i <= Len(cs) BY <1>3
  <2>4. i - 1 \in Nat /\ i - 1 < Len(cs) /\ ~(i <= i - 1) /\ (i - 1) + 1 = i BY <1>2, <2>3
  <2>5. Inv(g[i - 1], i - 1) BY <1>2, <2>2, <2>4
  <2>6. Inv(DestroyStack(g[i - 1], cs[(i - 1) + 1]), (i - 1) + 1) BY <1>4, <2>4, <2>5
  <2>7. g[i] = DestroyStack(g[i - 1], cs[i]) BY <1>1, <2>3 DEF Destroying
  <2>8. Inv(g[i], i) BY <2>4, <2>6, <2>7
  <2>9. QED BY <2>8
<1>6. Inv(g[Len(cs)], Len(cs)) BY <1>2, <1>5
<1>7. QED BY <1>1, <1>6 DEF Inv

----------------------------------------------------------------------------
(* The machine of the next state, and the run queue.                       *)

\* The parts of the machine are the variables.
LEMMA MachineParts ==
  /\ Machine.values = values /\ Machine.frames = frames
  /\ Machine.upvalues = upvalues /\ Machine.closures = closures
  /\ Machine.status = status /\ Machine.variable = variable
  /\ Machine.kept = kept /\ Machine.freed = freed
BY DEF Machine

\* The machine that an instruction leaves is the next one.
LEMMA MachineNext ==
  ASSUME NEW n, Outcome(n), Become(n), n.status \notin Aborted => freed' \subseteq Coroutines
  PROVE  Outcome(Machine)'
<1>1. Machine' = [values |-> n.values, frames |-> n.frames, upvalues |-> n.upvalues, closures |-> n.closures,
                  status |-> n.status, variable |-> n.variable, kept |-> n.kept, freed |-> freed']
  BY DEF Become, Machine
<1> DEFINE p == Machine'
<1>2. SameButFreed(n, p) /\ p.freed = freed' /\ p.status = n.status BY <1>1 DEF SameButFreed
<1>3. p = [values |-> n.values, frames |-> n.frames, upvalues |-> n.upvalues, closures |-> n.closures,
           status |-> n.status, variable |-> n.variable, kept |-> n.kept, freed |-> freed']
  BY <1>1
<1> HIDE DEF p
<1>4. SUFFICES ASSUME n.status \notin Aborted
               PROVE  Typed(p) /\ Stacked(p) /\ Counted(p, Nothing) /\ (p.status = "continue" => Tracking(p) /\ Valued(p))
  BY <1>2 DEF p, Outcome
<1>5. Typed(n) /\ Stacked(n) /\ Counted(n, Nothing) /\ (n.status = "continue" => Tracking(n) /\ Valued(n))
  BY <1>4 DEF Outcome
<1>6. n \in MachineType BY <1>5 DEF Typed
<1>7. p \in MachineType
  <2>1. /\ n.values \in Stacks /\ n.frames \in CallStacks
        /\ n.upvalues \in UpvalueHeap /\ n.closures \in ClosureHeap
        /\ n.status \in Statuses /\ n.variable \in Variables
        /\ n.kept \in [Closures -> Nat]
    BY <1>6, MachineIs
  <2>2. freed' \in SUBSET Coroutines BY <1>4
  <2>3. QED BY <1>3, <2>1, <2>2 DEF MachineType
<1>8. QED BY <1>2, <1>5, <1>7, FreedKeeps

\* The queue after an instruction of its head.
LEMMA RequeueKeeps ==
  ASSUME Queued, Main \notin freed, NEW c, run_queue # <<>>, c = Head(run_queue),
         NEW s \in Seq(Coroutines), IsInjective(s), ToSet(s) \cap created = {},
         Requeue(c, s),
         \A d \in Coroutines \ ({c} \cup ToSet(s)) : frames'[d] = frames[d],
         \A d \in ToSet(s) : frames'[d] # <<>>
  PROVE  Queued' /\ Main \notin freed' /\ freed' \subseteq Coroutines
<1> DEFINE t == Tail(run_queue)
           S == ToSet(s)
           R == ToSet(t)
<1>1. run_queue \in Seq(Coroutines) /\ IsInjective(run_queue) BY DEF Queued
<1>2. c \in Coroutines /\ t \in Seq(Coroutines) /\ ToSet(run_queue) = {c} \cup R /\ c \notin R /\ IsInjective(t)
  BY <1>1, HeadTailElems
<1>3. t \in Seq(Coroutines) BY <1>2
<1>4. /\ created' = created \cup S
      /\ \/ /\ frames'[c] = <<>>
            /\ run_queue' = t \o s
            /\ freed' = freed \cup ({c} \ {Main})
         \/ /\ frames'[c] # <<>>
            /\ run_queue' = (<<c>> \o t) \o s \/ run_queue' = (t \o s) \o <<c>>
            /\ freed' = freed
  BY DEF Requeue
<1>5. S \subseteq Coroutines BY DEF ToSet
<1> HIDE DEF t
<1>6. t \o s \in Seq(Coroutines) /\ ToSet(t \o s) = R \cup S /\ (R \cap S = {} => IsInjective(t \o s))
  BY <1>2, <1>3, JoinElems
<1>7. /\ <<c>> \o t \in Seq(Coroutines) /\ ToSet(<<c>> \o t) = R \cup {c} /\ IsInjective(<<c>> \o t)
  BY <1>2, <1>3, PrependElems
<1>8. /\ (<<c>> \o t) \o s \in Seq(Coroutines) /\ ToSet((<<c>> \o t) \o s) = R \cup {c} \cup S
      /\ ((R \cup {c}) \cap S = {} => IsInjective((<<c>> \o t) \o s))
  <2> DEFINE u == <<c>> \o t
  <2>1. u \in Seq(Coroutines) BY <1>7
  <2>2. ToSet(u) = R \cup {c} /\ IsInjective(u) BY <1>7
  <2> HIDE DEF u, R
  <2>3. u \o s \in Seq(Coroutines) /\ ToSet(u \o s) = ToSet(u) \cup ToSet(s)
        /\ (ToSet(u) \cap ToSet(s) = {} => IsInjective(u \o s))
    BY <2>1, <2>2, JoinElems
  <2>4. QED BY <2>2, <2>3 DEF u
<1>9. /\ (t \o s) \o <<c>> \in Seq(Coroutines) /\ ToSet((t \o s) \o <<c>>) = R \cup S \cup {c}
      /\ ((R \cup {c}) \cap S = {} => IsInjective((t \o s) \o <<c>>))
  <2> DEFINE u == t \o s
             w == <<c>>
  <2>1. u \in Seq(Coroutines) BY <1>6
  <2>2. ToSet(u) = R \cup S /\ (R \cap S = {} => IsInjective(u)) BY <1>6
  <2>3. w \in Seq(Coroutines) /\ ToSet(w) = {c} /\ IsInjective(w) BY <1>2, SingleElems
  <2>4. w \in Seq(Coroutines) BY <2>3
  <2> HIDE DEF u, w, R, S
  <2>5. u \o w \in Seq(Coroutines) /\ ToSet(u \o w) = ToSet(u) \cup ToSet(w)
        /\ (IsInjective(u) /\ ToSet(u) \cap ToSet(w) = {} => IsInjective(u \o w))
    BY <2>1, <2>3, <2>4, JoinElems
  <2>6. (R \cup {c}) \cap S = {} => IsInjective(u \o w) BY <1>2, <2>2, <2>3, <2>5
  <2>7. QED BY <2>2, <2>3, <2>5, <2>6 DEF u, w
<1> HIDE DEF R, S
<1>10. /\ created \subseteq Coroutines /\ Main \in created /\ freed \subseteq created /\ {c} \cup R \subseteq created
       /\ \A d \in Coroutines : frames[d] # <<>> => d \in {c} \cup R
       /\ \A d \in {c} \cup R : frames[d] # <<>> /\ d \notin freed
  BY <1>2 DEF Queued
<1>11. S \cap created = {} BY DEF S
<1>12. (R \cup {c}) \cap S = {} BY <1>10, <1>11
<1>13. /\ \A d \in Coroutines \ ({c} \cup S) : frames'[d] = frames[d]
       /\ \A d \in S : frames'[d] # <<>>
  BY DEF S
<1>14. CASE frames'[c] = <<>>
  <2>1. run_queue' = t \o s /\ freed' = freed \cup ({c} \ {Main}) BY <1>4, <1>14
  <2>2. run_queue' \in Seq(Coroutines) /\ IsInjective(run_queue') /\ ToSet(run_queue') = R \cup S
    BY <1>6, <1>12, <2>1
  <2>3. created' \subseteq Coroutines /\ Main \in created' /\ freed' \subseteq created' /\ ToSet(run_queue') \subseteq created'
    BY <1>4, <1>5, <1>10, <2>1, <2>2
  <2>4. \A d \in Coroutines : frames'[d] # <<>> => d \in ToSet(run_queue')
    BY <1>10, <1>13, <1>14, <2>2
  <2>5. \A d \in ToSet(run_queue') : frames'[d] # <<>> /\ d \notin freed'
    <3>1. ASSUME NEW d \in R PROVE frames'[d] # <<>> /\ d \notin freed'
      BY <1>2, <1>10, <1>12, <1>13, <2>1
    <3>2. ASSUME NEW d \in S PROVE frames'[d] # <<>> /\ d \notin freed' BY <1>10, <1>11, <1>13, <2>1
    <3>3. QED BY <2>2, <3>1, <3>2
  <2>6. Main \notin freed' BY <2>1
  <2>7. QED BY <2>2, <2>3, <2>4, <2>5, <2>6 DEF Queued
<1>15. CASE frames'[c] # <<>>
  <2>1. freed' = freed BY <1>4, <1>15
  <2>2. run_queue' \in Seq(Coroutines) /\ IsInjective(run_queue') /\ ToSet(run_queue') = R \cup {c} \cup S
    BY <1>4, <1>8, <1>9, <1>12, <1>15
  <2>3. created' \subseteq Coroutines /\ Main \in created' /\ freed' \subseteq created' /\ ToSet(run_queue') \subseteq created'
    BY <1>4, <1>5, <1>10, <2>1, <2>2
  <2>4. \A d \in Coroutines : frames'[d] # <<>> => d \in ToSet(run_queue') BY <1>10, <1>13, <2>2
  <2>5. \A d \in ToSet(run_queue') : frames'[d] # <<>> /\ d \notin freed'
    <3>1. ASSUME NEW d \in R PROVE frames'[d] # <<>> /\ d \notin freed'
      BY <1>2, <1>10, <1>12, <1>13, <2>1
    <3>2. ASSUME NEW d \in S PROVE frames'[d] # <<>> /\ d \notin freed' BY <1>10, <1>11, <1>13, <2>1
    <3>3. QED BY <1>10, <1>15, <2>1, <2>2, <3>1, <3>2
  <2>6. QED BY <2>1, <2>2, <2>3, <2>4, <2>5 DEF Queued
<1>16. QED BY <1>14, <1>15

\* What the coroutine at the head of the queue finds.
Finds(c) ==
    /\ c \in Coroutines /\ run_queue # <<>> /\ c = Head(run_queue) /\ c \in created
    /\ Sound(Machine, Nothing) /\ Machine.status = "continue" /\ Machine.frames[c] # <<>>
    /\ Queued /\ Main \notin freed

\* The coroutine at the head of the run queue finds a sound machine and its frame.
LEMMA RunningFinds ==
  ASSUME IInv, NEW c, Running(c)
  PROVE  Finds(c)
<1>1. status = "continue" /\ run_queue # <<>> /\ c = Head(run_queue) BY DEF Running
<1>2. status \notin Aborted BY <1>1 DEF Aborted
<1>3. Queued /\ Main \notin freed /\ Outcome(Machine) BY <1>1, <1>2 DEF IInv
<1>4. run_queue \in Seq(Coroutines) BY <1>3 DEF Queued
<1>5. c \in Coroutines /\ c \in ToSet(run_queue) BY <1>1, <1>4, HeadTailElems
<1>6. frames[c] # <<>> /\ c \in created BY <1>3, <1>5 DEF Queued
<1>7. Sound(Machine, Nothing) BY <1>1, <1>2, <1>3, MachineParts DEF Outcome, Sound
<1>8. QED BY <1>1, <1>3, <1>5, <1>6, <1>7, MachineParts DEF Finds

\* An instruction that starts no coroutine.
LEMMA ExecuteKeeps ==
  ASSUME NEW c, Finds(c), NEW n, Steps(Machine, n, c), Execute(c, n)
  PROVE  IInv'
<1>1. Become(n) /\ Requeue(c, <<>>) BY DEF Execute
<1>2. frames' = n.frames /\ status' = n.status BY <1>1 DEF Become
<1>3. Outcome(n) BY DEF Steps
<1>4. n.status \notin Aborted => Queued' /\ Main \notin freed' /\ freed' \subseteq Coroutines
  <2>1. SUFFICES ASSUME n.status \notin Aborted PROVE Queued' /\ Main \notin freed' /\ freed' \subseteq Coroutines
    OBVIOUS
  <2> DEFINE s == <<>>
  <2>2. s \in Seq(Coroutines) /\ ToSet(s) = {} /\ IsInjective(s) BY EmptyElems
  <2>3. s \in Seq(Coroutines) BY <2>2
  <2>4. Requeue(c, s) BY <1>1
  <2> HIDE DEF s
  <2>5. \A d \in Coroutines \ ({c} \cup ToSet(s)) : frames'[d] = frames[d]
    BY <1>2, <2>1, <2>2, MachineParts DEF Steps
  <2>6. \A d \in ToSet(s) : frames'[d] # <<>> BY <2>2
  <2>7. ToSet(s) \cap created = {} /\ IsInjective(s) BY <2>2
  <2>8. Queued /\ Main \notin freed /\ run_queue # <<>> /\ c = Head(run_queue) BY DEF Finds
  <2>9. QED BY <2>3, <2>4, <2>5, <2>6, <2>7, <2>8, RequeueKeeps
<1>5. Outcome(Machine)' BY <1>1, <1>3, <1>4, MachineNext
<1>6. status' = "continue" => status' \notin Aborted BY DEF Aborted
<1>7. QED BY <1>2, <1>4, <1>5, <1>6 DEF IInv

\* An instruction that starts the coroutine k.
LEMMA SpawnKeeps ==
  ASSUME NEW c, Finds(c), NEW k \in Coroutines \ created, NEW n, Spawned(Machine, n, c, k, Nothing),
         Become(n), Requeue(c, <<k>>)
  PROVE  IInv'
<1>1. frames' = n.frames /\ status' = n.status BY DEF Become
<1>2. Sound(n, Nothing) /\ n.frames[k] # <<>> /\ \A d \in Coroutines \ {k} : n.frames[d] = Machine.frames[d]
  BY DEF Spawned
<1>3. Outcome(n) BY <1>2 DEF Sound, Outcome
<1>4. Queued' /\ Main \notin freed' /\ freed' \subseteq Coroutines
  <2> DEFINE s == <<k>>
  <2>1. k \in Coroutines OBVIOUS
  <2>2. s \in Seq(Coroutines) /\ ToSet(s) = {k} /\ IsInjective(s) BY <2>1, SingleElems
  <2>3. s \in Seq(Coroutines) BY <2>2
  <2>4. Requeue(c, s) OBVIOUS
  <2> HIDE DEF s
  <2>5. \A d \in Coroutines \ ({c} \cup ToSet(s)) : frames'[d] = frames[d]
    BY <1>1, <1>2, <2>2, MachineParts
  <2>6. \A d \in ToSet(s) : frames'[d] # <<>> BY <1>1, <1>2, <2>2
  <2>7. ToSet(s) \cap created = {} /\ IsInjective(s) BY <2>2
  <2>8. Queued /\ Main \notin freed /\ run_queue # <<>> /\ c = Head(run_queue) BY DEF Finds
  <2>9. QED BY <2>3, <2>4, <2>5, <2>6, <2>7, <2>8, RequeueKeeps
<1>5. Outcome(Machine)' BY <1>3, <1>4, MachineNext
<1>6. QED BY <1>4, <1>5 DEF IInv

\* What may be written of the stack of the coroutine that runs.
LEMMA HeightIs ==
  ASSUME NEW m, m \in MachineType, NEW c \in Coroutines, m.frames[c] # <<>>
  PROVE  /\ Len(m.values[c]) \in Nat /\ Frame(m, c).offset \in Nat /\ Frame(m, c).parameters \in Nat
         /\ Height(m, c) = Len(m.values[c]) - Frame(m, c).offset
         /\ Frame(m, c).closure \in Closures \cup {None}
<1>1. m \in MachineType OBVIOUS
<1>2. Frame(m, c) \in FrameType BY <1>1, TopFrame
<1>3. Len(m.values[c]) \in Nat BY <1>1, ValsAre
<1>4. QED BY <1>2, <1>3 DEF Height, FrameType

\* The instructions, one by one.
LEMMA LoadImmediateKeeps ==
  ASSUME IInv, NEW c, LoadImmediate(c)
  PROVE  IInv'
<1>1. Finds(c) BY RunningFinds DEF LoadImmediate, Executes
<1> DEFINE m == Machine
<1>2. PICK v \in Data : Execute(c, Push(m, c, v)) BY DEF LoadImmediate
<1> DEFINE n == Push(m, c, v)
<1>3. n = Push(m, c, v) /\ Execute(c, n) /\ m = Machine BY <1>2
<1>4. Sound(m, Nothing) /\ m.status = "continue" /\ c \in Coroutines /\ m.frames[c] # <<>>
  BY <1>1 DEF Finds
<1> HIDE DEF n, m
<1>5. Steps(m, n, c) BY <1>3, <1>4, LoadImmediateSteps
<1>6. QED BY <1>1, <1>3, <1>5, ExecuteKeeps

\* lstf_vm_op_load_frameoffset_exec() keeps the invariant.
LEMMA LoadFrameOffsetKeeps ==
  ASSUME IInv, NEW c, LoadFrameOffset(c)
  PROVE  IInv'
<1>1. Finds(c) BY RunningFinds DEF LoadFrameOffset, Executes
<1> DEFINE m == Machine
           f == Frame(m, c)
           V(i) == m.values[c][f.offset + i].v
           P(i) == Push(m, c, V(i))
           N(i) == IF Ok(P(i)) THEN Ref(P(i), V(i)) ELSE P(i)
<1>2. PICK i \in 1 .. Height(m, c) : Execute(c, N(i)) BY MachineParts DEF LoadFrameOffset
<1>3. Sound(m, Nothing) /\ m.status = "continue" /\ c \in Coroutines /\ m.frames[c] # <<>> /\ m \in MachineType
  BY <1>1 DEF Finds, Sound, Typed
<1>4. m = Machine OBVIOUS
<1> HIDE DEF m
<1>5. f.offset + i \in DOMAIN m.values[c] BY <1>2, <1>3, HeightIs, ValsAre
<1> DEFINE k == f.offset + i
           v == m.values[c][k].v
           p == Push(m, c, v)
           n == IF Ok(p) THEN Ref(p, v) ELSE p
<1>6. Execute(c, n) BY <1>2
<1>7. k \in DOMAIN m.values[c] /\ v = m.values[c][k].v BY <1>5
<1>8. n = IF Ok(p) THEN Ref(p, v) ELSE p OBVIOUS
<1>9. p = Push(m, c, v) OBVIOUS
<1> HIDE DEF k, v, p, n
<1>10. Steps(m, n, c) BY <1>3, <1>7, <1>8, <1>9, LoadFrameOffsetSteps
<1>11. QED BY <1>1, <1>4, <1>6, <1>10, ExecuteKeeps

\* lstf_vm_op_store_exec() keeps it.
LEMMA StoreKeeps ==
  ASSUME IInv, NEW c, Store(c)
  PROVE  IInv'
<1>1. Finds(c) BY RunningFinds DEF Store, Executes
<1> DEFINE m == Machine
<1>2. PICK i \in 1 .. Height(m, c) - 1 : Execute(c, Set(Pop(m, c), c, Frame(m, c).offset + i, Top(m, c)))
  BY DEF Store
<1>3. Sound(m, Nothing) /\ m.status = "continue" /\ c \in Coroutines /\ m.frames[c] # <<>> /\ m \in MachineType
  BY <1>1 DEF Finds, Sound, Typed
<1>4. m = Machine OBVIOUS
<1> DEFINE place == Frame(m, c).offset + i
           n == Set(Pop(m, c), c, place, Top(m, c))
<1>5. Execute(c, n) /\ n = Set(Pop(m, c), c, place, Top(m, c)) BY <1>2
<1> HIDE DEF m, n
<1>6. place \in 1 .. Len(m.values[c]) - 1 /\ Len(m.values[c]) > Frame(m, c).offset
  BY <1>2, <1>3, HeightIs
<1> HIDE DEF place
<1>7. Steps(m, n, c) BY <1>3, <1>5, <1>6, StoreSteps
<1>8. QED BY <1>1, <1>4, <1>5, <1>7, ExecuteKeeps

\* lstf_vm_op_pop_exec() keeps it.
LEMMA PopTopKeeps ==
  ASSUME IInv, NEW c, PopTop(c)
  PROVE  IInv'
<1>1. Finds(c) BY RunningFinds DEF PopTop, Executes
<1> DEFINE m == Machine
           n == Discard(m, c)
<1>2. Height(m, c) > Frame(m, c).parameters /\ Execute(c, n) /\ n = Discard(m, c) /\ m = Machine
  BY DEF PopTop
<1>3. Sound(m, Nothing) /\ m.status = "continue" /\ c \in Coroutines /\ m.frames[c] # <<>> /\ m \in MachineType
  BY <1>1 DEF Finds, Sound, Typed
<1> HIDE DEF m, n
<1>4. Len(m.values[c]) > Frame(m, c).offset BY <1>2, <1>3, HeightIs
<1>5. Steps(m, n, c) BY <1>2, <1>3, <1>4, PopTopSteps
<1>6. QED BY <1>1, <1>2, <1>5, ExecuteKeeps

\* lstf_vm_op_return_exec() keeps it.
LEMMA ReturnKeeps ==
  ASSUME IInv, NEW c, Return(c)
  PROVE  IInv'
<1>1. Finds(c) BY RunningFinds DEF Return, Executes
<1> DEFINE m == Machine
           n == TeardownFrame(m, c)
<1>2. Execute(c, n) /\ n = TeardownFrame(m, c) /\ m = Machine BY DEF Return
<1>3. Sound(m, Nothing) /\ m.status = "continue" /\ c \in Coroutines /\ m.frames[c] # <<>>
  BY <1>1 DEF Finds
<1> HIDE DEF m, n
<1>4. Steps(m, n, c) BY <1>2, <1>3, ReturnSteps
<1>5. QED BY <1>1, <1>2, <1>4, ExecuteKeeps

\* An instruction that ends the program keeps it.
LEMMA StopKeeps ==
  ASSUME IInv, NEW c, Stop(c)
  PROVE  IInv'
<1>1. Finds(c) BY RunningFinds DEF Stop, Executes
<1> DEFINE m == Machine
           why == "error"
           n == Fail(m, why)
<1>2. Execute(c, n) /\ n = Fail(m, why) /\ m = Machine /\ why \in Statuses \ {"continue"}
  BY DEF Stop, Statuses
<1>3. Sound(m, Nothing) /\ m.status \notin Aborted BY <1>1 DEF Finds, Aborted
<1> HIDE DEF m, n, why
<1>4. Steps(m, n, c) BY <1>2, <1>3, FailSteps
<1>5. QED BY <1>1, <1>2, <1>4, ExecuteKeeps

\* The closure that runs, if there is one, is allocated.
LEMMA RunsIs ==
  ASSUME NEW m, Sound(m, Nothing), NEW c \in Coroutines, m.frames[c] # <<>>,
         NEW x, x = Frame(m, c).closure, x # None
  PROVE  x \in Closures /\ m.closures[x] # None /\ UpsOf(m, x) = m.closures[x].upvalues
<1>1. Typed(m) /\ Counted(m, Nothing) /\ m \in MachineType BY DEF Sound, Typed
<1>2. Typed(m) BY <1>1
<1>3. Counted(m, Nothing) BY <1>1
<1>4. Nothing \in Hands BY NothingInHand
<1>5. \A o \in Objects : Nothing[o] >= 0 BY NothingInHand DEF NothingIs
<1>6. \A d \in Coroutines : \A i \in DOMAIN m.frames[d] :
         m.frames[d][i].closure # None => m.closures[m.frames[d][i].closure] # None
  BY <1>2, <1>3, <1>4, <1>5, HeldIsLive
<1>7. Frame(m, c) = m.frames[c][Len(m.frames[c])] /\ Len(m.frames[c]) \in DOMAIN m.frames[c]
  BY <1>1, TopFrame
<1>8. m.closures[x] # None BY <1>6, <1>7
<1>9. x \in Closures BY <1>1, HeightIs
<1>10. QED BY <1>8, <1>9 DEF UpsOf

\* What the closure that runs has captured.
LEMMA CapturedIs ==
  ASSUME NEW c, Finds(c), NEW x, x = Frame(Machine, c).closure
  PROVE  /\ x = None => Captured(c) = <<>>
         /\ x # None => x \in Closures /\ Captured(c) = UpsOf(Machine, x)
<1>1. Sound(Machine, Nothing) /\ c \in Coroutines /\ Machine.frames[c] # <<>> BY DEF Finds
<1>2. x # None => x \in Closures /\ Machine.closures[x] # None /\ UpsOf(Machine, x) = Machine.closures[x].upvalues
  BY <1>1, RunsIs
<1>3. QED BY <1>2, MachineParts DEF Captured

\* lstf_vm_op_upget_exec() keeps the invariant.
LEMMA UpGetKeeps ==
  ASSUME IInv, NEW c, UpGet(c)
  PROVE  IInv'
<1>1. Finds(c) BY RunningFinds DEF UpGet, Executes
<1> DEFINE m == Machine
           x == Frame(m, c).closure
           ups == UpsOf(m, x)
           V(i) == ValueOf(m, ups[i])
           P(i) == Push(m, c, V(i))
           N(i) == IF Ok(P(i)) THEN Ref(P(i), V(i)) ELSE P(i)
<1>2. Captured(c) # <<>> => x \in Closures /\ Captured(c) = ups BY <1>1, CapturedIs
<1>3. PICK i \in DOMAIN Captured(c) :
             Execute(c, LET p == Push(m, c, ValueOf(m, Captured(c)[i]))
                        IN  IF Ok(p) THEN Ref(p, ValueOf(m, Captured(c)[i])) ELSE p)
  BY DEF UpGet
<1>4. Captured(c) # <<>> BY <1>3
<1>5. x \in Closures /\ i \in DOMAIN ups /\ Execute(c, N(i)) BY <1>2, <1>3, <1>4
<1>6. Sound(m, Nothing) /\ m.status = "continue" /\ c \in Coroutines /\ m.frames[c] # <<>>
  BY <1>1 DEF Finds
<1>7. m = Machine OBVIOUS
<1> DEFINE v == ValueOf(m, UpsOf(m, x)[i])
           p == Push(m, c, v)
           n == IF Ok(p) THEN Ref(p, v) ELSE p
<1>8. Execute(c, n) /\ i \in DOMAIN UpsOf(m, x) BY <1>5
<1>9. v = ValueOf(m, UpsOf(m, x)[i]) OBVIOUS
<1>10. p = Push(m, c, v) OBVIOUS
<1>11. n = IF Ok(p) THEN Ref(p, v) ELSE p OBVIOUS
<1>12. x \in Closures BY <1>5
<1> HIDE DEF m, x, v, p, n
<1>13. Steps(m, n, c) BY <1>6, <1>8, <1>9, <1>10, <1>11, <1>12, UpGetSteps
<1>14. QED BY <1>1, <1>7, <1>8, <1>13, ExecuteKeeps

\* lstf_vm_op_upset_exec() keeps it.
LEMMA UpSetKeeps ==
  ASSUME IInv, NEW c, UpSet(c)
  PROVE  IInv'
<1>1. Finds(c) BY RunningFinds DEF UpSet, Executes
<1> DEFINE m == Machine
           x == Frame(m, c).closure
           v == Top(m, c)
           p == Pop(m, c)
           Q(u) == NewVariable(p, u, v)
           N(u) == IF Q(u).upvalues[u].open THEN Set(Q(u), Q(u).upvalues[u].cr, Q(u).upvalues[u].at, v)
                   ELSE UnrefAll(PutBox(Q(u), u, v), <<Q(u).upvalues[u].v>>)
<1>2. Captured(c) # <<>> => x \in Closures /\ Captured(c) = UpsOf(m, x) BY <1>1, CapturedIs
<1>3. PICK i \in DOMAIN Captured(c) : Execute(c, N(Captured(c)[i]))
  BY DEF UpSet, NewVariable, PutBox
<1>4. Captured(c) # <<>> BY <1>3
<1>5. Height(m, c) > Frame(m, c).parameters BY DEF UpSet
<1>6. Sound(m, Nothing) /\ m.status = "continue" /\ c \in Coroutines /\ m.frames[c] # <<>> /\ m \in MachineType
  BY <1>1 DEF Finds, Sound, Typed
<1>7. m = Machine OBVIOUS
<1> DEFINE u == UpsOf(m, x)[i]
           q == NewVariable(p, u, v)
           n == IF q.upvalues[u].open THEN Set(q, q.upvalues[u].cr, q.upvalues[u].at, v)
                ELSE UnrefAll(PutBox(q, u, v), <<q.upvalues[u].v>>)
<1>8. Execute(c, n) BY <1>2, <1>3, <1>4
<1>9. i \in DOMAIN UpsOf(m, x) BY <1>2, <1>3, <1>4
<1>10. x \in Closures BY <1>2, <1>4
<1>11. u = UpsOf(m, x)[i] OBVIOUS
<1>12. v = Top(m, c) /\ p = Pop(m, c) OBVIOUS
<1>13. q = NewVariable(p, u, v) OBVIOUS
<1>14. n = IF q.upvalues[u].open THEN Set(q, q.upvalues[u].cr, q.upvalues[u].at, v)
           ELSE UnrefAll(PutBox(q, u, v), <<q.upvalues[u].v>>)
  OBVIOUS
<1> HIDE DEF m, x, v, p, u, q, n
<1>15. Len(m.values[c]) > Frame(m, c).offset BY <1>5, <1>6, HeightIs
<1>16. Steps(m, n, c) BY <1>6, <1>9, <1>10, <1>11, <1>12, <1>13, <1>14, <1>15, UpSetSteps
<1>17. QED BY <1>1, <1>7, <1>8, <1>16, ExecuteKeeps

\* lstf_vm_op_call_exec() keeps it.
LEMMA CallKeeps ==
  ASSUME IInv, NEW c, Call(c)
  PROVE  IInv'
<1>1. Finds(c) BY RunningFinds DEF Call, Executes
<1> DEFINE m == Machine
<1>2. PICK due \in 0 .. MaxParams : Arguments(c, due) /\ Execute(c, SetupFrame(m, c, TRUE, None, due))
  BY DEF Call
<1> DEFINE n == SetupFrame(m, c, TRUE, None, due)
<1>3. CallIs(m, n, c, due) /\ Execute(c, n) /\ m = Machine BY <1>2 DEF CallIs
<1>4. Sound(m, Nothing) /\ m.status = "continue" /\ c \in Coroutines /\ m.frames[c] # <<>> /\ m \in MachineType
  BY <1>1 DEF Finds, Sound, Typed
<1>5. Height(m, c) >= due + Frame(m, c).parameters BY <1>2 DEF Arguments
<1> HIDE DEF m, n
<1>6. due \in Nat BY <1>2
<1>7. Frame(m, c).offset + due <= Len(m.values[c]) BY <1>4, <1>5, <1>6, HeightIs
<1>8. Steps(m, n, c) BY <1>3, <1>4, <1>6, <1>7, CallSteps
<1>9. QED BY <1>1, <1>3, <1>8, ExecuteKeeps

\* lstf_vm_op_calli_exec() keeps it.
LEMMA CallIndirectKeeps ==
  ASSUME IInv, NEW c, CallIndirect(c)
  PROVE  IInv'
<1>1. Finds(c) BY RunningFinds DEF CallIndirect, Executes
<1> DEFINE m == Machine
           x == Callee(Top(m, c))
           N(due) == Dropped(CallOf(m, c, x, due), x)
<1>2. PICK due \in 0 .. MaxParams : Arguments(c, due + 1) /\ Execute(c, N(due))
  BY DEF CallIndirect, Dropped, CallOf, Callee
<1> DEFINE s == CallOf(m, c, x, due)
           n == Dropped(s, x)
<1>3. s = CallOf(m, c, x, due) OBVIOUS
<1>4. x = Callee(Top(m, c)) OBVIOUS
<1>5. n = Dropped(s, x) OBVIOUS
<1>6. Execute(c, n) /\ m = Machine BY <1>2
<1>7. Sound(m, Nothing) /\ m.status = "continue" /\ c \in Coroutines /\ m.frames[c] # <<>> /\ m \in MachineType
  BY <1>1 DEF Finds, Sound, Typed
<1>8. Height(m, c) >= (due + 1) + Frame(m, c).parameters BY <1>2 DEF Arguments
<1> HIDE DEF m, x, s, n
<1>9. due \in Nat BY <1>2
<1>10. Frame(m, c).offset + due <= Len(m.values[c]) - 1 /\ Len(m.values[c]) > Frame(m, c).offset
  BY <1>7, <1>8, <1>9, HeightIs
<1>11. Steps(m, n, c) BY <1>3, <1>4, <1>5, <1>7, <1>9, <1>10, CallIndirectSteps
<1>12. QED BY <1>1, <1>6, <1>11, ExecuteKeeps

\* lstf_vm_op_params_exec() keeps it.
LEMMA ParamsKeeps ==
  ASSUME IInv, NEW c, Params(c)
  PROVE  IInv'
<1>1. Finds(c) BY RunningFinds DEF Params
<1> DEFINE m == Machine
           f == Frame(m, c)
           args == ArgsOf(m, c, f)
           room == Room(m, c)
           fit == FitOf(args, room)
           p == CopyOf(m, c, fit)
           n == Entered(p, c, f.due, args, room)
<1>2. p.frames[c] = m.frames[c] => Execute(c, n)
  BY MachineParts DEF Params, Entered, CopyOf, FitOf, ArgsOf, WithParameters
<1>3. Sound(m, Nothing) /\ m.status = "continue" /\ c \in Coroutines /\ m.frames[c] # <<>>
  BY <1>1 DEF Finds
<1>4. f = Frame(m, c) OBVIOUS
<1>5. args = ArgsOf(m, c, f) OBVIOUS
<1>6. room = Room(m, c) OBVIOUS
<1>7. fit = FitOf(args, room) OBVIOUS
<1>8. p = CopyOf(m, c, fit) OBVIOUS
<1>9. p.frames = m.frames BY DEF CopyOf, Lay, RefAll
<1>10. n = Entered(p, c, f.due, args, room) /\ Execute(c, n) /\ m = Machine BY <1>2, <1>9
<1> HIDE DEF m, f, args, room, fit, p, n
<1>11. Steps(m, n, c) BY <1>3, <1>4, <1>5, <1>6, <1>7, <1>8, <1>10, ParamsSteps
<1>12. QED BY <1>1, <1>10, <1>11, ExecuteKeeps

\* lstf_vm_op_schedule_exec() keeps it.
LEMMA ScheduleKeeps ==
  ASSUME IInv, NEW c, Schedule(c)
  PROVE  IInv'
<1>1. Finds(c) BY RunningFinds DEF Schedule, Executes
<1> DEFINE m == Machine
<1>2. PICK k \in Coroutines \ created, due \in 0 .. MaxParams :
             Arguments(c, due) /\ Become(Spawn(m, c, k, None, due)) /\ Requeue(c, <<k>>)
  BY DEF Schedule
<1> DEFINE n == Spawn(m, c, k, None, due)
<1>3. SpawnOf(m, n, c, k, None, due) /\ Become(n) /\ m = Machine BY <1>2 DEF SpawnOf
<1>4. Sound(m, Nothing) /\ m.status = "continue" /\ c \in Coroutines /\ m.frames[c] # <<>> /\ m \in MachineType
  BY <1>1 DEF Finds, Sound, Typed
<1>5. m.frames[k] = <<>> BY <1>1, MachineParts DEF Finds, Queued
<1>6. /\ Height(m, c) >= due + Frame(m, c).parameters
      /\ \A i \in 0 .. due - 1 : ~m.values[c][Len(m.values[c]) - i].captured
  BY <1>2, MachineParts DEF Arguments
<1> HIDE DEF m, n
<1>7. due \in Nat BY <1>2
<1>8. Frame(m, c).offset + due <= Len(m.values[c]) BY <1>4, <1>6, <1>7, HeightIs
<1>9. None \in Closures \cup {None} /\ None \notin Closures /\ Nothing \in Hands
  BY ObjectsAssumption, NothingInHand
<1>10. k \in Coroutines BY <1>2
<1>11. Spawned(m, n, c, k, Nothing) BY <1>3, <1>4, <1>5, <1>6, <1>7, <1>8, <1>9, <1>10, SpawnIs
<1>12. QED BY <1>1, <1>2, <1>3, <1>11, SpawnKeeps

\* lstf_vm_op_schedulei_exec() keeps it.
LEMMA ScheduleIndirectKeeps ==
  ASSUME IInv, NEW c, ScheduleIndirect(c)
  PROVE  IInv'
<1>1. Finds(c) BY RunningFinds DEF ScheduleIndirect, Executes
<1> DEFINE m == Machine
           x == Callee(Top(m, c))
<1>2. PICK k \in Coroutines \ created, due \in 0 .. MaxParams :
             Arguments(c, due + 1) /\ Become(Lose(Spawn(Pop(m, c), c, k, x, due), x)) /\ Requeue(c, <<k>>)
  BY DEF ScheduleIndirect, Callee
<1> DEFINE n == Lose(Spawn(Pop(m, c), c, k, x, due), x)
<1>3. SpawnBelow(m, n, c, k, x, due) /\ Become(n) /\ m = Machine BY <1>2 DEF SpawnBelow
<1>4. Sound(m, Nothing) /\ m.status = "continue" /\ c \in Coroutines /\ m.frames[c] # <<>> /\ m \in MachineType
  BY <1>1 DEF Finds, Sound, Typed
<1>5. m.frames[k] = <<>> BY <1>1, MachineParts DEF Finds, Queued
<1>6. /\ Height(m, c) >= (due + 1) + Frame(m, c).parameters
      /\ \A i \in 0 .. (due + 1) - 1 : ~m.values[c][Len(m.values[c]) - i].captured
  BY <1>2, MachineParts DEF Arguments
<1>7. x = Callee(Top(m, c)) OBVIOUS
<1> HIDE DEF m, n, x
<1>8. due \in Nat BY <1>2
<1>9. Frame(m, c).offset + due <= Len(m.values[c]) - 1 BY <1>4, <1>6, <1>8, HeightIs
<1>10. \A i \in 1 .. due : ~m.values[c][Len(m.values[c]) - i].captured BY <1>6, <1>8
<1>11. k \in Coroutines BY <1>2
<1>12. Spawned(m, n, c, k, Nothing)
  BY <1>3, <1>4, <1>5, <1>7, <1>8, <1>9, <1>10, <1>11, SpawnBelowIs
<1>13. QED BY <1>1, <1>2, <1>3, <1>12, SpawnKeeps

\* What a closure instruction may capture is there.
LEMMA CapturesMay ==
  ASSUME NEW c, Finds(c), NEW ds \in Captures(c)
  PROVE  MayCapture(Machine, c, ds)
<1> DEFINE m == Machine
           f == Frame(m, c)
           A == [local : {TRUE}, at : Capturable(c)]
           own == IF f.closure = None THEN {} ELSE 1 .. Len(m.closures[f.closure].upvalues)
           B == [local : {FALSE}, at : own]
<1>1. PICK n \in 1 .. MaxCaptures : ds \in [1 .. n -> A \cup B] BY MachineParts DEF Captures
<1>2. Capturable(c) \subseteq f.offset + 1 .. Len(m.values[c]) BY MachineParts DEF Capturable
<1>3. n \in Nat /\ n <= MaxCaptures BY <1>1, LimitsAssumption
<1>4. Len(ds) = n /\ DOMAIN ds = 1 .. Len(ds) /\ Len(ds) \in 0 .. MaxCaptures
  <2> DEFINE T == A \cup B
  <2>0. ds \in [1 .. n -> T] BY <1>1
  <2> HIDE DEF T
  <2>1. ds \in Seq(T) /\ DOMAIN ds = 1 .. n BY <1>3, <2>0
  <2>2. QED BY <1>3, <2>1, LimitsAssumption
<1>5. ASSUME NEW i \in DOMAIN ds
      PROVE  /\ ds[i].local \in BOOLEAN
             /\ ds[i].local => ds[i].at \in f.offset + 1 .. Len(m.values[c])
             /\ ~ds[i].local => f.closure # None /\ ds[i].at \in 1 .. Len(m.closures[f.closure].upvalues)
  <2>1. ds[i] \in A \cup B BY <1>1
  <2> HIDE DEF m, f
  <2>2. CASE ds[i] \in A BY <1>2, <2>2
  <2>3. CASE ds[i] \in B
    <3>1. ds[i].local = FALSE /\ ds[i].at \in own BY <2>3
    <3>2. QED BY <3>1
  <2>4. QED BY <2>1, <2>2, <2>3
<1>6. QED BY <1>4, <1>5 DEF MayCapture

\* lstf_vm_op_closure_exec() keeps the invariant.
LEMMA MakeClosureKeeps ==
  ASSUME IInv, NEW c, MakeClosure(c)
  PROVE  IInv'
<1>1. Finds(c) BY RunningFinds DEF MakeClosure, Executes
<1> DEFINE m == Machine
           F(ds) == {ds[i].at : i \in {j \in DOMAIN ds : ds[j].local}} \ DOMAIN Frame(Machine, c).tracked
           B(ds) == CHOOSE b \in [F(ds) -> Free(upvalues)] : IsInjective(b)
           U(ds) == [i \in DOMAIN ds |->
                       CASE ~ds[i].local -> closures[Frame(Machine, c).closure].upvalues[ds[i].at]
                         [] ds[i].local /\ ds[i].at \in F(ds) -> B(ds)[ds[i].at]
                         [] ds[i].local /\ ds[i].at \notin F(ds) -> Frame(Machine, c).tracked[ds[i].at]]
           y == New(closures)
           M(ds) == [RefAll(Capture(Machine, c, B(ds)), U(ds)) EXCEPT !.closures[y] = [refs |-> 1, upvalues |-> U(ds)]]
           N(ds) == IF Room(Machine, c) >= 1 THEN Track(Lay(M(ds), c, <<y>>), c, B(ds))
                    ELSE Fail(Machine, IF F(ds) = {} THEN "stack_overflow" ELSE "up_value_of_no_place")
<1>2. PICK ds \in Captures(c) : Cardinality(F(ds)) <= Cardinality(Free(upvalues)) /\ Execute(c, N(ds))
  BY DEF MakeClosure
<1>3. Free(closures) # {} BY DEF MakeClosure
<1> DEFINE fresh == FreshOf(m, c, ds)
           box == BoxOf(m, fresh)
           x == New(m.closures)
           n == ClosureOf(m, c, ds, box, x)
<1>4. fresh = F(ds) BY DEF FreshOf
<1>5. box = B(ds) BY <1>4, MachineParts DEF BoxOf
<1>6. x = y BY MachineParts
<1>7. UpsFor(m, c, ds, box) = U(ds) BY <1>4, <1>5, MachineParts DEF UpsFor
<1>8. n = N(ds)
  <2> HIDE DEF F, B, U, fresh, box, x, y
  <2>1. MadeOf(m, c, box, UpsFor(m, c, ds, box), x) = Lay(M(ds), c, <<y>>)
    BY <1>5, <1>6, <1>7 DEF MadeOf, SetClosure, NewClosure
  <2>2. F(ds) = FreshOf(m, c, ds) BY <1>4 DEF fresh
  <2> HIDE DEF M, m
  <2>3. QED BY <1>5, <2>1, <2>2 DEF ClosureOf, m
<1>9. Execute(c, n) /\ m = Machine BY <1>2, <1>8
<1>10. Cardinality(fresh) <= Cardinality(Free(m.upvalues)) /\ Free(m.closures) # {}
  BY <1>2, <1>3, <1>4, MachineParts
<1>11. Sound(m, Nothing) /\ m.status = "continue" /\ c \in Coroutines /\ m.frames[c] # <<>>
  BY <1>1 DEF Finds
<1>12. MayCapture(m, c, ds) BY <1>1, <1>2, CapturesMay
<1>13. fresh = FreshOf(m, c, ds) OBVIOUS
<1>14. box = BoxOf(m, fresh) OBVIOUS
<1>15. x = New(m.closures) OBVIOUS
<1>16. n = ClosureOf(m, c, ds, box, x) OBVIOUS
<1> HIDE DEF m, F, B, U, y, M, N, fresh, box, x, n
<1>17. Steps(m, n, c) BY <1>10, <1>11, <1>12, <1>13, <1>14, <1>15, <1>16, MakeClosureSteps
<1>18. QED BY <1>1, <1>9, <1>17, ExecuteKeeps

----------------------------------------------------------------------------
(* The beginning and the end.                                              *)

\* the machine before the main coroutine has its frame
Empty == [values |-> [c \in Coroutines |-> <<>>], frames |-> [c \in Coroutines |-> <<>>],
          upvalues |-> [u \in Upvalues |-> None], closures |-> [x \in Closures |-> None],
          status |-> "continue", variable |-> [u \in Upvalues |-> None],
          kept |-> [x \in Closures |-> 0], freed |-> {}]

\* A machine without values and frames is sound.
LEMMA EmptySound == Sound(Empty, Nothing) /\ Empty.status = "continue"
<1> DEFINE m == Empty
<1>1. /\ \A c \in Coroutines : m.values[c] = <<>> /\ m.frames[c] = <<>>
      /\ \A u \in Upvalues : m.upvalues[u] = None
      /\ \A x \in Closures : m.closures[x] = None /\ m.kept[x] = 0
      /\ m.status = "continue"
      /\ DOMAIN m.upvalues = Upvalues /\ DOMAIN m.closures = Closures
  BY DEF Empty
<1>2. m \in MachineType
  <2>1. <<>> \in Seq(Slot) /\ <<>> \in Seq(FrameType) OBVIOUS
  <2>2. [c \in Coroutines |-> <<>>] \in Stacks /\ [c \in Coroutines |-> <<>>] \in CallStacks
    BY <2>1 DEF Stacks, CallStacks
  <2>3. /\ [u \in Upvalues |-> None] \in UpvalueHeap /\ [x \in Closures |-> None] \in ClosureHeap
        /\ [u \in Upvalues |-> None] \in Variables /\ [x \in Closures |-> 0] \in [Closures -> Nat]
        /\ "continue" \in Statuses
    BY DEF UpvalueHeap, ClosureHeap, Variables, Statuses
  <2>4. QED BY <2>2, <2>3 DEF MachineType, Empty
<1> HIDE DEF m
<1>3. Live(m.closures) = {} /\ Live(m.upvalues) = {} BY <1>1 DEF Live, Free
<1>4. Typed(m) BY <1>1, <1>2, <1>3, LimitsAssumption DEF Typed, Bounded
<1>5. Stacked(m) BY <1>1 DEF Stacked
<1>6. Counted(m, Nothing)
  <2>1. ASSUME NEW o \in Objects PROVE Holders(m, o) = 0 /\ Refs(m, o) = 0 /\ Keeps(m, o) = 0 /\ Heap(m, o)[o] = None
    <3>1. HeldByPlaces(m, o) = {} /\ HeldByBoxes(m, o) = {} /\ HeldByFrames(m, o) = {} /\ HeldByClosures(m, o) = {}
      BY <1>1, <1>3 DEF HeldByPlaces, HeldByBoxes, HeldByFrames, HeldByClosures
    <3>2. Cardinality({}) = 0 BY FS_EmptySet
    <3>3. Holders(m, o) = 0 BY <3>1, <3>2 DEF Holders
    <3>4. Heap(m, o)[o] = None /\ Keeps(m, o) = 0 BY <1>1 DEF Heap, Keeps, Objects
    <3>5. QED BY <3>3, <3>4 DEF Refs
  <2>2. QED BY <2>1, NothingInHand DEF Counted, NothingIs
<1>7. Tracking(m) /\ Valued(m) BY <1>1, <1>3 DEF Tracking, Valued, Aliases
<1>8. QED BY <1>1, <1>4, <1>5, <1>6, <1>7 DEF Sound, m

\* The first machine is sound,
LEMMA InitSound ==
  ASSUME Init
  PROVE  Sound(Machine, Nothing)
<1> DEFINE e == Empty
           returns == FALSE
           n == PushFrame(e, Main, NewFrame(Len(e.values[Main]), returns, None, 0))
<1>1. Sound(e, Nothing) /\ e.frames[Main] = <<>> /\ Main \in Coroutines /\ Len(e.values[Main]) = 0
  BY EmptySound, CoroutinesAssumption DEF Empty
<1>2. Machine = n
  <2> DEFINE g == NewFrame(Len(e.values[Main]), returns, None, 0)
             fs == [c \in Coroutines |-> IF c = Main THEN <<g>> ELSE <<>>]
  <2>1. frames = fs BY <1>1 DEF Init, NewFrame
  <2>2. n = [e EXCEPT !.frames[Main] = Append(@, g)] BY DEF PushFrame
  <2> HIDE DEF g
  <2>3. Append(<<>>, g) = <<g>> OBVIOUS
  <2> DEFINE one == <<g>>
             none == <<>>
  <2>4. Append(none, g) = one /\ e.frames = [c \in Coroutines |-> none] /\ fs = [c \in Coroutines |-> IF c = Main THEN one ELSE none]
    BY <2>3 DEF Empty
  <2> HIDE DEF one, none, fs
  <2>5. [e.frames EXCEPT ![Main] = Append(@, g)] = fs BY <1>1, <2>4
  <2>6. n = [e EXCEPT !.frames = fs] BY <2>2, <2>5 DEF Empty
  <2> HIDE DEF n
  <2>7. n = [values |-> e.values, frames |-> fs, upvalues |-> e.upvalues, closures |-> e.closures,
             status |-> e.status, variable |-> e.variable, kept |-> e.kept, freed |-> e.freed]
    BY <2>6 DEF Empty
  <2>8. /\ e.values = values /\ e.upvalues = upvalues /\ e.closures = closures /\ e.status = status
        /\ e.variable = variable /\ e.kept = kept /\ e.freed = freed
    BY DEF Init, Empty
  <2>9. QED BY <2>1, <2>7, <2>8 DEF Machine
<1>3. n = PushFrame(e, Main, NewFrame(Len(e.values[Main]), returns, None, 0)) OBVIOUS
<1>4. returns \in BOOLEAN /\ ~returns OBVIOUS
<1> HIDE DEF e, returns, n
<1>5. Nothing \in Hands BY NothingInHand
<1>6. \A o \in Objects : Nothing[o] = Nothing[o] - Occurrences(<<None>>, o)
  BY OccurrencesOne, NothingInHand, ObjectsAssumption DEF Objects, NothingIs
<1>7. Len(e.frames[Main]) + 1 < MaxFrames BY <1>1, LimitsAssumption
<1>8. None \in Closures \cup {None} /\ 0 \in Nat OBVIOUS
<1>9. Sound(n, Nothing) BY <1>1, <1>3, <1>4, <1>5, <1>6, <1>7, <1>8, AddFrame
<1>10. QED BY <1>2, <1>9

\* ... and the invariant holds.
LEMMA InitInv ==
  ASSUME Init
  PROVE  IInv
<1>1. Outcome(Machine) BY InitSound DEF Sound, Outcome
<1> DEFINE q == <<Main>>
<1>2. q \in Seq(Coroutines) /\ ToSet(q) = {Main} /\ IsInjective(q)
  BY CoroutinesAssumption, SingleElems
<1>3. run_queue = q /\ created = {Main} /\ freed = {} BY DEF Init
<1>4. frames[Main] # <<>> /\ \A c \in Coroutines \ {Main} : frames[c] = <<>>
  BY CoroutinesAssumption DEF Init
<1> HIDE DEF q
<1>5. Queued BY <1>2, <1>3, <1>4, CoroutinesAssumption DEF Queued
<1>6. QED BY <1>1, <1>3, <1>5 DEF IInv

\* The end of the program keeps the invariant.
LEMMA FinishKeeps ==
  ASSUME IInv, Finish
  PROVE  IInv'
<1> DEFINE m == Machine
           why == "exited"
           n == Fail(m, why)
<1>1. status = "continue" /\ status' = "exited" /\ UNCHANGED <<frames, run_queue, created, freed>>
  BY DEF Finish
<1>2. status \notin Aborted BY <1>1 DEF Aborted
<1>3. Outcome(m) /\ Queued BY <1>2 DEF IInv
<1>4. Sound(m, Nothing) /\ m.status \notin Aborted
  BY <1>1, <1>2, <1>3, MachineParts DEF Outcome, Sound
<1>5. Become(n) BY <1>2 DEF Finish, Become, Fail, Machine
<1>6. why \in Statuses \ {"continue"} BY DEF Statuses
<1>7. n = Fail(m, why) OBVIOUS
<1> HIDE DEF m, n, why
<1>8. Steps(m, n, Main) BY <1>4, <1>6, <1>7, FailSteps
<1>9. Outcome(n) BY <1>8 DEF Steps
<1>10. freed' \subseteq Coroutines BY <1>1, <1>3 DEF Queued
<1>11. Outcome(Machine)' BY <1>5, <1>9, <1>10, MachineNext
<1>12. Queued' BY <1>1, <1>3 DEF Queued
<1>13. QED BY <1>1, <1>11, <1>12 DEF IInv

\* lstf_virtualmachine_destroy() keeps it.
LEMMA DestroyKeeps ==
  ASSUME IInv, Destroy
  PROVE  IInv'
<1> DEFINE m == Machine
           cs == Append(Only(Reverse(run_queue), Coroutines \ {Main}), Main)
           n == DestroyMany(m, cs)
<1>1. status # "continue" /\ status \notin Aborted BY MachineParts DEF Destroy, Ok
<1>2. Become(n) /\ freed' = n.freed /\ run_queue' = <<>> /\ created' = created BY DEF Destroy
<1>3. Outcome(m) /\ Queued BY <1>1 DEF IInv
<1>4. /\ m.status = status /\ m.frames = frames /\ m.freed = freed
      /\ Typed(m) /\ Stacked(m) /\ Counted(m, Nothing)
  BY <1>1, <1>3, MachineParts DEF Outcome
<1>5. cs \in Seq(Coroutines) /\ ToSet(cs) = ToSet(run_queue) \cup {Main}
  <2>1. run_queue \in Seq(Coroutines) /\ ToSet(run_queue) \subseteq Coroutines BY <1>3 DEF Queued
  <2>2. Reverse(run_queue) \in Seq(Coroutines) /\ ToSet(Reverse(run_queue)) = ToSet(run_queue)
    BY <2>1, ReverseElems
  <2> DEFINE r == Reverse(run_queue)
             o == Only(r, Coroutines \ {Main})
  <2>3. r \in Seq(Coroutines) BY <2>2
  <2>4. ToSet(o) = ToSet(r) \cap (Coroutines \ {Main}) BY <2>3, OnlyElems
  <2>5. o \in Seq(Coroutines)
    <3>1. o \in Seq(Coroutines \cap (Coroutines \ {Main})) BY <2>3, OnlyPlaces
    <3> HIDE DEF o
    <3>2. QED BY <3>1
  <2> HIDE DEF o
  <2>6. Append(o, Main) \in Seq(Coroutines) /\ ToSet(Append(o, Main)) = ToSet(o) \cup {Main}
    BY <2>5, AppendElems, CoroutinesAssumption
  <2>7. QED BY <2>1, <2>2, <2>4, <2>6 DEF o
<1>6. n = DestroyMany(m, cs) OBVIOUS
<1> HIDE DEF m, cs, n
<1>7. cs \in Seq(Coroutines) BY <1>5
<1>8. Typed(m) BY <1>4
<1>9. Stacked(m) BY <1>4
<1>10. Counted(m, Nothing) BY <1>4
<1>11. m.status \notin Aborted BY <1>1, <1>4
<1>12. n.status \in Aborted \/ Ended(m, n, cs, Len(cs))
  BY <1>6, <1>7, <1>8, <1>9, <1>10, <1>11, DestroyManySound
<1>13. Before(cs, Len(cs)) = ToSet(cs) BY <1>7 DEF Before, ToSet
<1>14. CASE n.status \in Aborted
  <2>1. status' \in Aborted /\ status' # "continue" BY <1>2, <1>14 DEF Become, Aborted
  <2>2. Outcome(n) BY <1>14 DEF Outcome
  <2>3. Outcome(Machine)' BY <1>2, <1>14, <2>2, MachineNext
  <2>4. QED BY <2>1, <2>3 DEF IInv
<1>15. CASE Ended(m, n, cs, Len(cs))
  <2> DEFINE D == ToSet(run_queue) \cup {Main}
  <2>1. /\ Typed(n) /\ Stacked(n) /\ Counted(n, Nothing) /\ n.status = m.status
        /\ \A d \in D : n.frames[d] = <<>>
        /\ \A d \in Coroutines \ D : n.frames[d] = m.frames[d]
        /\ n.freed = m.freed \cup D
    BY <1>5, <1>13, <1>15 DEF Ended
  <2>2. Outcome(n) BY <1>1, <1>4, <2>1 DEF Outcome
  <2>3. /\ run_queue \in Seq(Coroutines) /\ created \subseteq Coroutines /\ freed \subseteq created
        /\ D \subseteq created
        /\ \A d \in Coroutines : frames[d] # <<>> => d \in D
    BY <1>3 DEF Queued
  <2>4. freed' \subseteq created' /\ created' \subseteq Coroutines /\ Main \in freed' /\ Main \in created'
    BY <1>2, <1>4, <2>1, <2>3
  <2>5. \A d \in Coroutines : frames'[d] = <<>>
    <3>1. frames' = n.frames BY <1>2 DEF Become
    <3>2. QED BY <1>4, <2>1, <2>3, <3>1
  <2>6. run_queue' \in Seq(Coroutines) /\ ToSet(run_queue') = {} /\ IsInjective(run_queue')
    BY <1>2, EmptyElems
  <2>7. Queued' BY <2>4, <2>5, <2>6 DEF Queued
  <2>8. Outcome(Machine)' BY <1>2, <2>2, <2>4, MachineNext
  <2>9. status' # "continue" BY <1>1, <1>2, <1>4, <2>1 DEF Become
  <2>10. QED BY <2>7, <2>8, <2>9 DEF IInv
<1>16. QED BY <1>12, <1>14, <1>15

\* Every step keeps it.
LEMMA NextInv ==
  ASSUME IInv, [Next]_vars
  PROVE  IInv'
<1>1. ASSUME NEW c \in Coroutines, LoadImmediate(c) PROVE IInv' BY <1>1, LoadImmediateKeeps
<1>2. ASSUME NEW c \in Coroutines, LoadFrameOffset(c) PROVE IInv' BY <1>2, LoadFrameOffsetKeeps
<1>3. ASSUME NEW c \in Coroutines, Store(c) PROVE IInv' BY <1>3, StoreKeeps
<1>4. ASSUME NEW c \in Coroutines, PopTop(c) PROVE IInv' BY <1>4, PopTopKeeps
<1>5. ASSUME NEW c \in Coroutines, MakeClosure(c) PROVE IInv' BY <1>5, MakeClosureKeeps
<1>6. ASSUME NEW c \in Coroutines, UpGet(c) PROVE IInv' BY <1>6, UpGetKeeps
<1>7. ASSUME NEW c \in Coroutines, UpSet(c) PROVE IInv' BY <1>7, UpSetKeeps
<1>8. ASSUME NEW c \in Coroutines, Call(c) PROVE IInv' BY <1>8, CallKeeps
<1>9. ASSUME NEW c \in Coroutines, CallIndirect(c) PROVE IInv' BY <1>9, CallIndirectKeeps
<1>10. ASSUME NEW c \in Coroutines, Params(c) PROVE IInv' BY <1>10, ParamsKeeps
<1>11. ASSUME NEW c \in Coroutines, Return(c) PROVE IInv' BY <1>11, ReturnKeeps
<1>12. ASSUME NEW c \in Coroutines, Schedule(c) PROVE IInv' BY <1>12, ScheduleKeeps
<1>13. ASSUME NEW c \in Coroutines, ScheduleIndirect(c) PROVE IInv' BY <1>13, ScheduleIndirectKeeps
<1>14. ASSUME NEW c \in Coroutines, Stop(c) PROVE IInv' BY <1>14, StopKeeps
<1>15. ASSUME Finish PROVE IInv' BY <1>15, FinishKeeps
<1>16. ASSUME Destroy PROVE IInv' BY <1>16, DestroyKeeps
<1>17. ASSUME UNCHANGED vars PROVE IInv'
  <2>1. Machine' = Machine BY <1>17 DEF vars, machineVars, Machine
  <2>2. Outcome(Machine)' BY <2>1 DEF IInv
  <2>3. QED BY <1>17, <2>2 DEF vars, machineVars, IInv, Queued
<1>18. QED BY <1>1, <1>2, <1>3, <1>4, <1>5, <1>6, <1>7, <1>8, <1>9, <1>10, <1>11, <1>12, <1>13, <1>14,
     <1>15, <1>16, <1>17 DEF Next

\* The invariant holds, whatever the program does.
THEOREM Invariance == Spec => []IInv
<1>1. Init => IInv BY InitInv
<1>2. IInv /\ [Next]_vars => IInv' BY NextInv
<1>3. QED BY <1>1, <1>2, PTL DEF Spec

----------------------------------------------------------------------------
(* What it says.                                                           *)

\* While the program runs the machine is sound.
LEMMA SoundNow ==
  ASSUME IInv, status = "continue"
  PROVE  /\ Sound(Machine, Nothing) /\ Queued /\ Main \notin freed
         /\ Typed(Machine) /\ Stacked(Machine) /\ Counted(Machine, Nothing)
         /\ Tracking(Machine) /\ Valued(Machine) /\ Machine \in MachineType
<1>1. status \notin Aborted BY DEF Aborted
<1>2. QED BY <1>1, MachineParts DEF IInv, Outcome, Sound, Typed

\* The frame that owns a place is the one that the property names.
LEMMA OwnerIs ==
  ASSUME IInv, status = "continue", NEW c \in Coroutines, NEW p \in Nat, NEW i, Owns(Machine, c, i, p)
  PROVE  i = Owner(c, p) /\ i \in DOMAIN frames[c]
<1> DEFINE Own(j) == /\ frames[c][j].offset < p
                     /\ \A k \in DOMAIN frames[c] : k > j => frames[c][k].offset >= p
<1>1. Machine \in MachineType BY SoundNow
<1>2. i \in DOMAIN frames[c] /\ Own(i) BY MachineParts DEF Owns
<1>3. \E j \in DOMAIN frames[c] : Own(j) BY <1>2
<1>4. Owner(c, p) = CHOOSE j \in DOMAIN frames[c] : Own(j) BY DEF Owner
<1> DEFINE w == Owner(c, p)
<1> HIDE DEF Own
<1>5. w \in DOMAIN frames[c] /\ Own(w) BY <1>3, <1>4
<1> HIDE DEF w
<1>6. Owns(Machine, c, w, p) BY <1>5, MachineParts DEF Own, Owns
<1>7. w = i BY <1>1, <1>6, OneOwner
<1>8. QED BY <1>2, <1>7 DEF w

\* Captured places, up-values and frames agree.
LEMMA CapturedIsTrackedHolds ==
  ASSUME IInv
  PROVE  CapturedIsTracked
<1> SUFFICES ASSUME status = "continue" PROVE CapturedIsTracked
  BY DEF CapturedIsTracked
<1>1. Queued /\ Main \notin freed /\ Stacked(Machine) /\ Tracking(Machine) /\ Machine \in MachineType
  BY SoundNow
<1>2. ASSUME NEW u \in Upvalues, NEW c \in Coroutines, NEW p \in Nat, Aliases(Machine, u, c, p)
      PROVE  /\ p \in DOMAIN values[c] /\ values[c][p].captured
             /\ p \in DOMAIN frames[c][Owner(c, p)].tracked
             /\ frames[c][Owner(c, p)].tracked[p] = u
  <2>1. p \in DOMAIN values[c] /\ values[c][p].captured /\ Tracks(Machine, c, p, u)
    BY <1>1, <1>2, MachineParts DEF Tracking
  <2>2. PICK i \in DOMAIN frames[c] :
               Owns(Machine, c, i, p) /\ p \in DOMAIN frames[c][i].tracked /\ frames[c][i].tracked[p] = u
    BY <2>1, MachineParts DEF Tracks
  <2>3. i = Owner(c, p) BY <2>2, OwnerIs
  <2>4. QED BY <2>1, <2>2, <2>3
<1>3. ASSUME NEW u \in Upvalues, Open(u)
      PROVE  /\ upvalues[u].cr \in created \ freed
             /\ upvalues[u].at \in DOMAIN values[upvalues[u].cr]
             /\ values[upvalues[u].cr][upvalues[u].at].captured
             /\ upvalues[u].at \in DOMAIN frames[upvalues[u].cr][Owner(upvalues[u].cr, upvalues[u].at)].tracked
             /\ frames[upvalues[u].cr][Owner(upvalues[u].cr, upvalues[u].at)].tracked[upvalues[u].at] = u
  <2> DEFINE c == upvalues[u].cr
             p == upvalues[u].at
  <2>1. c \in Coroutines /\ p \in Nat BY <1>1, <1>3, UpvalueIs, MachineParts DEF Open
  <2>2. Aliases(Machine, u, c, p) BY <1>3, MachineParts DEF Open, Aliases
  <2> HIDE DEF c, p
  <2>3. /\ p \in DOMAIN values[c] /\ values[c][p].captured
        /\ p \in DOMAIN frames[c][Owner(c, p)].tracked
        /\ frames[c][Owner(c, p)].tracked[p] = u
    BY <1>2, <2>1, <2>2
  <2>4. frames[c] # <<>> BY <1>1, <2>1, <2>3, MachineParts DEF Stacked
  <2>5. c \in created \ freed BY <1>1, <2>1, <2>4 DEF Queued
  <2>6. QED BY <2>3, <2>5 DEF c, p
<1>4. ASSUME NEW c \in Coroutines, NEW p \in DOMAIN values[c], values[c][p].captured
      PROVE  Cardinality({u \in Upvalues : Open(u) /\ upvalues[u].cr = c /\ upvalues[u].at = p}) = 1
  <2> DEFINE U == {u \in Upvalues : Open(u) /\ upvalues[u].cr = c /\ upvalues[u].at = p}
  <2>1. U = {u \in Upvalues : Aliases(Machine, u, c, p)} BY MachineParts DEF Open, Aliases
  <2>2. p \in Nat BY <1>1, ValsAre, MachineParts
  <2>3. PICK u \in Upvalues : Aliases(Machine, u, c, p) BY <1>1, <1>4, MachineParts DEF Tracking
  <2>4. \A w \in Upvalues : Aliases(Machine, w, c, p) => frames[c][Owner(c, p)].tracked[p] = w
    BY <1>2, <2>2
  <2>5. U = {u} BY <2>1, <2>3, <2>4
  <2> HIDE DEF U
  <2>6. Cardinality(U) = 1 BY <2>5, FS_Singleton
  <2>7. QED BY <2>6 DEF U
<1>5. QED BY <1>3, <1>4 DEF CapturedIsTracked

\* Up-values have the values of their variables.
LEMMA ReadsItsVariableHolds ==
  ASSUME IInv
  PROVE  ReadsItsVariable
BY SoundNow, MachineParts DEF ReadsItsVariable, Valued

\* The counts are those of the holders.
LEMMA CountsAreHoldersHolds ==
  ASSUME IInv
  PROVE  CountsAreHolders
<1> SUFFICES ASSUME status = "continue" PROVE CountsAreHolders
  BY DEF CountsAreHolders
<1>1. Machine \in MachineType /\ Counted(Machine, Nothing) BY SoundNow
<1>2. /\ Live(closures) = {x \in Closures : closures[x] # None}
      /\ Live(upvalues) = {u \in Upvalues : upvalues[u] # None}
  BY <1>1, LiveAre, MachineParts
<1>3. ASSUME NEW o \in Objects PROVE Refs(Machine, o) = Holders(Machine, o) + Keeps(Machine, o)
  <2>1. Refs(Machine, o) = Holders(Machine, o) + Keeps(Machine, o) + Nothing[o] /\ Nothing[o] = 0
    BY <1>1, NothingInHand DEF Counted, NothingIs
  <2>2. Holders(Machine, o) \in Nat /\ Keeps(Machine, o) \in Nat BY <1>1, RefsAre
  <2>3. QED BY <2>1, <2>2
<1>4. ASSUME NEW x \in Live(closures) PROVE closures[x].refs = Holders(Machine, x) + kept[x]
  <2>1. x \in Closures /\ x \in Objects /\ closures[x] # None BY <1>2 DEF Objects
  <2>2. Refs(Machine, x) = closures[x].refs /\ Keeps(Machine, x) = kept[x]
    BY <1>1, <2>1, RefsAre, MachineParts DEF Keeps
  <2>3. QED BY <1>3, <2>1, <2>2
<1>5. ASSUME NEW u \in Live(upvalues) PROVE upvalues[u].refs = Holders(Machine, u)
  <2>1. u \in Upvalues /\ u \in Objects /\ upvalues[u] # None BY <1>2 DEF Objects
  <2>2. Refs(Machine, u) = upvalues[u].refs /\ Keeps(Machine, u) = 0 /\ Holders(Machine, u) \in Nat
    BY <1>1, <2>1, RefsAre, MachineParts
  <2>3. QED BY <1>3, <2>1, <2>2
<1>6. QED BY <1>4, <1>5 DEF CountsAreHolders

\* Nothing refers to what was freed.
LEMMA NothingDanglesHolds ==
  ASSUME IInv
  PROVE  NothingDangles
<1> SUFFICES ASSUME status = "continue" PROVE NothingDangles
  BY DEF NothingDangles
<1> DEFINE m == Machine
<1>1. m \in MachineType /\ Typed(m) /\ Counted(m, Nothing) BY SoundNow
<1>2. /\ m.values = values /\ m.frames = frames /\ m.upvalues = upvalues /\ m.closures = closures
      /\ Live(closures) = {x \in Closures : closures[x] # None}
      /\ Live(upvalues) = {u \in Upvalues : upvalues[u] # None}
  BY <1>1, LiveAre, MachineParts
<1>3. /\ \A c \in Coroutines : \A p \in DOMAIN m.values[c] :
              m.values[c][p].v \in Closures => m.closures[m.values[c][p].v] # None
      /\ \A c \in Coroutines : \A i \in DOMAIN m.frames[c] :
            m.frames[c][i].closure # None => m.closures[m.frames[c][i].closure] # None
      /\ \A x \in Closures : \A i \in DOMAIN UpsOf(m, x) : m.upvalues[UpsOf(m, x)[i]] # None
      /\ \A u \in Upvalues : m.upvalues[u] # None /\ ~m.upvalues[u].open /\ m.upvalues[u].v \in Closures =>
            m.closures[m.upvalues[u].v] # None
  <2>1. Typed(m) BY <1>1
  <2>2. Counted(m, Nothing) BY <1>1
  <2>3. Nothing \in Hands BY NothingInHand
  <2>4. \A o \in Objects : Nothing[o] >= 0 BY NothingInHand DEF NothingIs
  <2> HIDE DEF m
  <2>5. QED BY <2>1, <2>2, <2>3, <2>4, HeldIsLive
<1> HIDE DEF m
<1>4. ASSUME NEW c \in Coroutines, NEW p \in DOMAIN values[c] PROVE values[c][p].v \in Data \cup Live(closures)
  <2>1. values[c][p].v \in Value BY <1>1, <1>2, ValsAre
  <2>2. QED BY <1>2, <1>3, <2>1 DEF Value
<1>5. ASSUME NEW c \in Coroutines, NEW i \in DOMAIN frames[c] PROVE frames[c][i].closure \in {None} \cup Live(closures)
  <2>1. frames[c][i] \in FrameType BY <1>1, <1>2, FramesAre
  <2>2. frames[c][i].closure \in Closures \cup {None} BY <2>1 DEF FrameType
  <2>3. QED BY <1>2, <1>3, <2>2
<1>6. ASSUME NEW x \in Live(closures) PROVE ToSet(closures[x].upvalues) \subseteq Live(upvalues)
  <2>1. x \in Closures /\ closures[x] # None BY <1>2
  <2> DEFINE us == UpsOf(m, x)
  <2>2. us = closures[x].upvalues /\ us \in Seq(Upvalues) BY <1>1, <1>2, <2>1, UpsAre DEF UpsOf
  <2>3. \A i \in DOMAIN us : us[i] \in Upvalues /\ upvalues[us[i]] # None BY <1>2, <1>3, <2>1, <2>2
  <2> HIDE DEF us
  <2>4. QED BY <1>2, <2>2, <2>3 DEF ToSet
<1>7. ASSUME NEW u \in Live(upvalues) PROVE Open(u) \/ upvalues[u].v \in Data \cup Live(closures)
  <2>1. u \in Upvalues /\ upvalues[u] # None BY <1>2
  <2>2. ~upvalues[u].open => upvalues[u].v \in Value BY <1>1, <1>2, <2>1, UpvalueIs
  <2>3. QED BY <1>2, <1>3, <2>1, <2>2 DEF Value, Open
<1>8. QED BY <1>4, <1>5, <1>6, <1>7 DEF NothingDangles

\* What is left has been lost or is held.
LEMMA LeftBehindIsHeldHolds ==
  ASSUME IInv
  PROVE  LeftBehindIsHeld
<1> SUFFICES ASSUME Main \in freed, status \notin Aborted PROVE LeftBehindIsHeld
  BY DEF LeftBehindIsHeld
<1> DEFINE m == Machine
<1>1. m \in MachineType /\ Stacked(m) /\ Counted(m, Nothing) /\ Queued
  BY MachineParts DEF IInv, Outcome, Typed
<1>2. /\ m.values = values /\ m.frames = frames /\ m.upvalues = upvalues /\ m.closures = closures /\ m.kept = kept
      /\ Live(closures) = {x \in Closures : closures[x] # None}
      /\ Live(upvalues) = {u \in Upvalues : upvalues[u] # None}
  BY <1>1, LiveAre, MachineParts
<1>3. \A c \in Coroutines : m.frames[c] = <<>> /\ m.values[c] = <<>>
  BY <1>1, <1>2 DEF Queued, Stacked
<1> HIDE DEF m
<1>4. \A o : HeldByPlaces(m, o) = {} /\ HeldByFrames(m, o) = {}
  BY <1>3 DEF HeldByPlaces, HeldByFrames
<1>5. ASSUME NEW o \in Objects, Heap(m, o)[o] # None
      PROVE  Keeps(m, o) > 0 \/ HeldByBoxes(m, o) # {} \/ HeldByClosures(m, o) # {}
  <2>1. Refs(m, o) = Holders(m, o) + Keeps(m, o) + Nothing[o] /\ Nothing[o] = 0 /\ Refs(m, o) >= 1
    BY <1>1, <1>5, NothingInHand DEF Counted, NothingIs
  <2>2. Holders(m, o) \in Nat /\ Keeps(m, o) \in Nat BY <1>1, RefsAre
  <2>3. Holders(m, o) > 0 \/ Keeps(m, o) > 0 BY <2>1, <2>2
  <2>4. Cardinality({}) = 0 BY FS_EmptySet
  <2>5. HeldByBoxes(m, o) = {} /\ HeldByClosures(m, o) = {} => Holders(m, o) = 0
    BY <1>4, <2>4 DEF Holders
  <2>6. QED BY <2>2, <2>3, <2>5
<1>6. ASSUME NEW x \in Closures, NEW j \in 1 .. MaxCaptures, NEW o,
             closures[x] # None, j \in DOMAIN closures[x].upvalues, closures[x].upvalues[j] = o
      PROVE  o \in Upvalues /\ o \in ToSet(closures[x].upvalues)
  <2>1. closures[x].upvalues \in Seq(Upvalues) BY <1>1, <1>2, <1>6, UpsAre DEF UpsOf
  <2> DEFINE us == closures[x].upvalues
  <2>2. us \in Seq(Upvalues) /\ j \in DOMAIN us /\ us[j] = o BY <1>6, <2>1
  <2> HIDE DEF us
  <2>3. o \in Upvalues /\ o \in ToSet(us) BY <2>2 DEF ToSet
  <2>4. QED BY <2>3 DEF us
<1>7. \A o \in Objects : HeldByClosures(m, o) # {} =>
         o \in Upvalues /\ \E x \in Live(closures) : o \in ToSet(closures[x].upvalues)
  BY <1>2, <1>6 DEF HeldByClosures
<1>8. \A o \in Objects : HeldByBoxes(m, o) # {} =>
         o \in Closures /\ \E u \in Live(upvalues) : ~upvalues[u].open /\ upvalues[u].v = o
  <2>1. ASSUME NEW o \in Objects, NEW u \in Live(upvalues), ~upvalues[u].open, upvalues[u].v = o
        PROVE  o \in Closures
    <3>1. upvalues[u].v \in Value BY <1>1, <1>2, <2>1, UpvalueIs
    <3>2. QED BY <2>1, <3>1, ObjectsAssumption DEF Value, Objects
  <2>2. QED BY <1>2, <2>1 DEF HeldByBoxes
<1>9. ASSUME NEW u \in Live(upvalues) PROVE \E x \in Live(closures) : u \in ToSet(closures[x].upvalues)
  <2>1. u \in Upvalues /\ upvalues[u] # None /\ u \in Objects BY <1>2 DEF Objects
  <2>2. u \notin Closures /\ Heap(m, u)[u] # None /\ Keeps(m, u) = 0 BY <1>1, <1>2, <2>1, RefsAre
  <2>3. HeldByClosures(m, u) # {} BY <1>5, <1>8, <2>1, <2>2
  <2>4. QED BY <1>7, <2>1, <2>3
<1>10. ASSUME NEW x \in Live(closures)
       PROVE  kept[x] > 0 \/ \E y \in Live(closures) : \E u \in ToSet(closures[y].upvalues) : ~Open(u) /\ upvalues[u].v = x
  <2>1. x \in Closures /\ closures[x] # None /\ x \in Objects BY <1>2 DEF Objects
  <2>2. x \notin Upvalues /\ Heap(m, x)[x] # None /\ Keeps(m, x) = kept[x]
    BY <1>1, <1>2, <2>1, RefsAre DEF Keeps
  <2>3. CASE kept[x] > 0 BY <2>3
  <2>4. CASE HeldByBoxes(m, x) # {}
    <3>1. PICK u \in Live(upvalues) : ~upvalues[u].open /\ upvalues[u].v = x BY <1>8, <2>1, <2>4
    <3>2. PICK y \in Live(closures) : u \in ToSet(closures[y].upvalues) BY <1>9
    <3>3. QED BY <3>1, <3>2 DEF Open
  <2>5. QED BY <1>5, <1>7, <2>1, <2>2, <2>3, <2>4
<1>11. QED BY <1>9, <1>10 DEF LeftBehindIsHeld

----------------------------------------------------------------------------
(* The theorems.                                                           *)

\* A place is captured just when one up-value aliases it, which the frame that owns the place tracks, on a
\* stack that was not freed: over calls, returns, and coroutines that start and end (lstf-vm-stack.c).
THEOREM TrackingAgrees == Spec => []CapturedIsTracked
<1>1. IInv => CapturedIsTracked BY CapturedIsTrackedHolds
<1>2. QED BY <1>1, Invariance, PTL

\* A closure sees what was last stored in the variables it captured, while they are on a stack and after
\* they were moved into their up-values (lstf_vm_value_uplift()).
THEOREM ClosuresShareVariables == Spec => []ReadsItsVariable
<1>1. IInv => ReadsItsVariable BY ReadsItsVariableHolds
<1>2. QED BY <1>1, Invariance, PTL

\* The count of references of a closure or an up-value is how many hold it and how many were lost
\* (lstf-vm-value.c).
THEOREM CountsAreRight == Spec => []CountsAreHolders
<1>1. IInv => CountsAreHolders BY CountsAreHoldersHolds
<1>2. QED BY <1>1, Invariance, PTL

\* No place, frame, closure or up-value refers to what was freed.
THEOREM NothingIsFreedEarly == Spec => []NothingDangles
<1>1. IInv => NothingDangles BY NothingDanglesHolds
<1>2. QED BY <1>1, Invariance, PTL

\* What is left when the virtual machine has been destroyed was lost, or is in a cycle, or hangs on one of
\* those (lstf_virtualmachine_destroy()).
THEOREM LeaksAreKnown == Spec => []LeftBehindIsHeld
<1>1. IInv => LeftBehindIsHeld BY LeftBehindIsHeldHolds
<1>2. QED BY <1>1, Invariance, PTL

=============================================================================
