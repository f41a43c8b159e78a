-------------------------- MODULE EventListProofs --------------------------
(***************************************************************************)
(* The pointers of event.c are a queue and a stack, for any set of events  *)
(* and any length of the lists: no event leaks, no freed event is linked,  *)
(* and every step is one of EventQueue or changes nothing of it.           *)
(***************************************************************************)
EXTENDS EventList, ListsProofs, TLAPS

----------------------------------------------------------------------------
(* Sequences of events as chains of pointers.                              *)

Pointer == Events \cup {NULL}

FirstOr(s, q) == IF s = <<>> THEN q ELSE s[1]
LastOr(s, q)  == IF s = <<>> THEN q ELSE s[Len(s)]

\* next leads through s, and from its end to q
Links(next, s, q) ==
    \A i \in 1 .. Len(s) : next[s[i]] = IF i < Len(s) THEN s[i + 1] ELSE q

\* What follows the first event of a chain.
LEMMA LinksTail ==
  ASSUME NEW next, NEW s \in Seq(Events), s # <<>>, NEW q, Links(next, s, q)
  PROVE  /\ next[Head(s)] = FirstOr(Tail(s), q)
         /\ Links(next, Tail(s), q)
<1> DEFINE t == Tail(s)
<1>1. /\ Len(s) \in Nat \ {0} /\ t \in Seq(Events) /\ Len(t) = Len(s) - 1
      /\ \A i \in 1 .. Len(t) : t[i] = s[i + 1]
      /\ Head(s) = s[1]
  OBVIOUS
<1>2. t = <<>> <=> Len(t) = 0
  BY ONLY <1>1, EmptyLen
<1> HIDE DEF t
<1>3. \A i \in 1 .. Len(s) : next[s[i]] = IF i < Len(s) THEN s[i + 1] ELSE q
  BY DEF Links
<1>4. next[s[1]] = IF 1 < Len(s) THEN s[2] ELSE q
  BY <1>1, <1>3
<1>5. next[Head(s)] = FirstOr(t, q)
  BY <1>1, <1>2, <1>4 DEF FirstOr
<1>6. ASSUME NEW i \in 1 .. Len(t)
      PROVE  next[t[i]] = IF i < Len(t) THEN t[i + 1] ELSE q
  <2>1. i + 1 \in 1 .. Len(s) /\ (i < Len(t) <=> i + 1 < Len(s)) /\ t[i] = s[i + 1]
    BY <1>1
  <2>2. i < Len(t) => t[i + 1] = s[i + 1 + 1]
    BY <1>1
  <2>3. QED
    BY <1>3, <2>1, <2>2
<1>7. QED
  BY <1>5, <1>6 DEF Links, t

\* One more event at the end of a chain.
LEMMA LinksAppend ==
  ASSUME NEW next, NEW s \in Seq(Events), NEW e \in Events, NEW q,
         Links(next, s, e), next[e] = q
  PROVE  Links(next, Append(s, e), q)
<1> DEFINE t == Append(s, e)
<1>1. /\ Len(s) \in Nat /\ Len(t) = Len(s) + 1
      /\ \A i \in 1 .. Len(s) : t[i] = s[i]
      /\ t[Len(s) + 1] = e
  OBVIOUS
<1> HIDE DEF t
<1>2. \A i \in 1 .. Len(s) : next[s[i]] = IF i < Len(s) THEN s[i + 1] ELSE e
  BY DEF Links
<1>3. ASSUME NEW i \in 1 .. Len(t)
      PROVE  next[t[i]] = IF i < Len(t) THEN t[i + 1] ELSE q
  <2>1. CASE i \in 1 .. Len(s)
    <3>1. next[t[i]] = IF i < Len(s) THEN s[i + 1] ELSE e
      BY <1>1, <1>2, <2>1
    <3>2. i < Len(t) /\ (i < Len(s) => t[i + 1] = s[i + 1]) /\ (~(i < Len(s)) => t[i + 1] = e)
      BY <1>1, <2>1
    <3>3. QED
      BY <3>1, <3>2
  <2>2. CASE i = Len(s) + 1
    BY <1>1, <2>2
  <2>3. QED
    BY <1>1, <2>1, <2>2
<1>4. QED
  BY <1>3 DEF Links, t

\* One more event at the front.
LEMMA LinksPrepend ==
  ASSUME NEW next, NEW s \in Seq(Events), NEW e \in Events, NEW q,
         Links(next, s, q), next[e] = FirstOr(s, q)
  PROVE  Links(next, <<e>> \o s, q)
<1> DEFINE h == <<e>>
           t == h \o s
<1>1. h \in Seq(Events) /\ Len(h) = 1 /\ h[1] = e
  OBVIOUS
<1> HIDE DEF h
<1>1a. /\ Len(s) \in Nat /\ Len(t) = Len(h) + Len(s)
       /\ \A i \in 1 .. Len(h) : t[i] = h[i]
       /\ \A i \in Len(h) + 1 .. Len(t) : t[i] = s[i - Len(h)]
  BY <1>1, JoinPlaces
<1> HIDE DEF t
<1>2. /\ Len(s) \in Nat /\ Len(t) = Len(s) + 1
      /\ t[1] = e
      /\ \A i \in 2 .. Len(t) : t[i] = s[i - 1]
  BY <1>1, <1>1a
<1>3. \A i \in 1 .. Len(s) : next[s[i]] = IF i < Len(s) THEN s[i + 1] ELSE q
  BY DEF Links
<1>4. s = <<>> <=> Len(s) = 0
  OBVIOUS
<1>5. ASSUME NEW i \in 1 .. Len(t)
      PROVE  next[t[i]] = IF i < Len(t) THEN t[i + 1] ELSE q
  <2>1. CASE i = 1
    <3>1. 1 < Len(t) => t[2] = s[1] /\ Len(s) # 0
      BY <1>2
    <3>2. ~(1 < Len(t)) => Len(s) = 0
      BY <1>2
    <3>3. QED
      BY <1>2, <1>4, <2>1, <3>1, <3>2 DEF FirstOr
  <2>2. CASE i \in 2 .. Len(t)
    <3>1. i - 1 \in 1 .. Len(s) /\ t[i] = s[i - 1] /\ (i < Len(t) <=> i - 1 < Len(s))
      BY <1>2, <2>2
    <3>2. i < Len(t) => t[i + 1] = s[i - 1 + 1]
      BY <1>2, <2>2
    <3>3. QED
      BY <1>3, <3>1, <3>2
  <2>3. QED
    BY <1>2, <2>1, <2>2
<1>6. QED
  BY <1>5 DEF Links, t, h

\* Other events may be linked anew.
LEMMA LinksElsewhere ==
  ASSUME NEW next, NEW after, NEW s \in Seq(Events), NEW q, Links(next, s, q),
         \A e \in ToSet(s) : after[e] = next[e]
  PROVE  Links(after, s, q)
<1>1. \A i \in 1 .. Len(s) : s[i] \in ToSet(s)
  BY DEF ToSet
<1>2. QED
  BY <1>1 DEF Links

\* The end of a chain is linked to something else.
LEMMA LinksAnew ==
  ASSUME NEW next, NEW after, NEW s \in Seq(Events), NEW p, NEW q, Links(next, s, p),
         IsInjective(s),
         \A e \in ToSet(s) : after[e] = IF e = LastOr(s, NULL) THEN q ELSE next[e]
  PROVE  Links(after, s, q)
<1>1. \A i \in 1 .. Len(s) : s[i] \in ToSet(s)
  BY DEF ToSet
<1>2. ASSUME NEW i \in 1 .. Len(s)
      PROVE  after[s[i]] = IF i < Len(s) THEN s[i + 1] ELSE q
  <2>1. s # <<>> /\ Len(s) \in 1 .. Len(s) /\ LastOr(s, NULL) = s[Len(s)]
    BY DEF LastOr
  <2>2. s[i] = s[Len(s)] <=> i = Len(s)
    BY <2>1 DEF IsInjective
  <2>3. i < Len(s) <=> i # Len(s)
    OBVIOUS
  <2>4. next[s[i]] = IF i < Len(s) THEN s[i + 1] ELSE p
    BY DEF Links
  <2>5. after[s[i]] = IF s[i] = s[Len(s)] THEN q ELSE next[s[i]]
    BY <1>1, <2>1
  <2>6. QED
    BY ONLY <2>2, <2>3, <2>4, <2>5
<1>3. QED
  BY <1>2 DEF Links

\* The ends of a sequence that grows by an event at its end.
LEMMA AppendEnds ==
  ASSUME NEW s \in Seq(Events), NEW e \in Events, NEW q
  PROVE  LastOr(Append(s, e), q) = e /\ FirstOr(Append(s, e), q) = FirstOr(s, e)
<1> DEFINE t == Append(s, e)
<1>1. /\ t \in Seq(Events) /\ Len(t) = Len(s) + 1 /\ t[Len(s) + 1] = e
      /\ \A i \in 1 .. Len(s) : t[i] = s[i]
      /\ Len(s) \in Nat /\ (s = <<>> <=> Len(s) = 0)
  OBVIOUS
<1> HIDE DEF t
<1>2. Len(s) + 1 # 0 /\ (Len(s) # 0 => 1 \in 1 .. Len(s))
  BY <1>1
<1>3. t # <<>>
  BY ONLY <1>1, <1>2, EmptyLen
<1>4. QED
  BY <1>1, <1>2, <1>3 DEF FirstOr, LastOr, t

\* At its front.
LEMMA PrependEnds ==
  ASSUME NEW s \in Seq(Events), NEW e \in Events, NEW q
  PROVE  FirstOr(<<e>> \o s, q) = e
<1> DEFINE h == <<e>>
           t == h \o s
<1>1. h \in Seq(Events) /\ Len(h) = 1 /\ h[1] = e
  OBVIOUS
<1> HIDE DEF h
<1>2. /\ t \in Seq(Events) /\ Len(t) = Len(h) + Len(s) /\ Len(s) \in Nat
      /\ \A i \in 1 .. Len(h) : t[i] = h[i]
  BY <1>1, JoinPlaces
<1> HIDE DEF t
<1>3. t[1] = e /\ Len(t) # 0
  BY <1>1, <1>2
<1>4. t # <<>>
  BY ONLY <1>2, <1>3, EmptyLen
<1>5. QED
  BY <1>3, <1>4 DEF FirstOr, t, h

\* Or shrinks by its first one.
LEMMA TailEnds ==
  ASSUME NEW s \in Seq(Events), s # <<>>, NEW q
  PROVE  /\ FirstOr(s, q) = Head(s) /\ Head(s) \in ToSet(s)
         /\ LastOr(s, q) \in ToSet(s)
         /\ LastOr(s, q) = LastOr(Tail(s), Head(s))
<1>1. Len(s) \in Nat /\ Len(s) # 0 /\ Len(s) \in 1 .. Len(s) /\ 1 \in 1 .. Len(s) /\ Head(s) = s[1]
  OBVIOUS
<1>2. \A i \in 1 .. Len(s) : s[i] \in ToSet(s)
  BY DEF ToSet
<1> DEFINE t == Tail(s)
<1>3. /\ t \in Seq(Events) /\ Len(t) = Len(s) - 1
      /\ \A i \in 1 .. Len(t) : t[i] = s[i + 1]
  OBVIOUS
<1> HIDE DEF t
<1>4. (t = <<>> <=> Len(t) = 0) /\ Len(t) \in Nat
  BY ONLY <1>3, EmptyLen
<1>5. LastOr(s, q) = s[Len(s)]
  BY DEF LastOr
<1>6. LastOr(t, Head(s)) = s[Len(s)]
  <2>1. CASE Len(s) = 1
    BY <1>1, <1>3, <1>4, <2>1 DEF LastOr
  <2>2. CASE Len(s) # 1
    <3>1. Len(t) \in 1 .. Len(t) /\ Len(t) + 1 = Len(s) /\ Len(t) # 0
      BY <1>1, <1>3, <1>4, <2>2
    <3>2. QED
      BY <1>3, <1>4, <3>1 DEF LastOr
  <2>3. QED
    BY <2>1, <2>2
<1>7. QED
  BY <1>1, <1>2, <1>5, <1>6 DEF FirstOr, t

\* Events are finitely many, and so are those of a list without repeats.
LEMMA LengthBound ==
  ASSUME NEW s \in Seq(Events), IsInjective(s)
  PROVE  Len(s) <= Cardinality(Events) /\ Cardinality(Events) \in Nat
<1>1. Len(s) \in Nat /\ s \in [1 .. Len(s) -> Events]
  OBVIOUS
<1>2. s \in Injection(1 .. Len(s), Events)
  BY <1>1 DEF Injection, IsInjective
<1>3. Cardinality(1 .. Len(s)) <= Cardinality(Events)
  BY <1>2, EventsAssumption, FS_Injection
<1>4. Cardinality(1 .. Len(s)) = Len(s)
  BY <1>1, FS_Interval
<1>5. QED
  BY <1>3, <1>4, EventsAssumption, FS_CardinalityType

\* The pointers of a chain are those of any function that follows next: the
\* first number for which they differ would be preceded by one where they do
\* not.
LEMMA NodeFollows ==
  ASSUME NEW next, NEW p, NEW f,
         f = [n \in Nat |-> IF n = 0 THEN p
                            ELSE IF f[n - 1] = NULL THEN NULL ELSE next[f[n - 1]]]
  PROVE  \A n \in Nat : Node(next, p)[n] = f[n]
<1> DEFINE Def(g) == [n \in Nat |-> IF n = 0 THEN p
                                    ELSE IF g[n - 1] = NULL THEN NULL ELSE next[g[n - 1]]]
           node == Node(next, p)
           differ == {n \in Nat : node[n] # f[n]}
<1>1. node = CHOOSE g : g = Def(g)
  BY DEF Node
<1>2. f = Def(f)
  OBVIOUS
<1> HIDE DEF Def, node
<1>3. node = Def(node)
  BY <1>1, <1>2
<1>4. \A n \in Nat : node[n] = Def(node)[n] /\ f[n] = Def(f)[n]
  BY <1>2, <1>3
<1>5. ASSUME NEW g
      PROVE  \A n \in Nat : Def(g)[n] = IF n = 0 THEN p
                                        ELSE IF g[n - 1] = NULL THEN NULL ELSE next[g[n - 1]]
  BY DEF Def
<1>6. ASSUME differ # {}
      PROVE  FALSE
  <2>1. PICK n \in differ : \A k \in differ : n <= k
    BY <1>6, LeastNumber
  <2>2. n \in Nat /\ node[n] # f[n]
    OBVIOUS
  <2>3. n # 0
    BY <1>4, <1>5, <2>2
  <2>4. n - 1 \in Nat /\ ~(n <= n - 1)
    BY <2>2, <2>3
  <2>5. node[n - 1] = f[n - 1]
    BY <2>1, <2>4
  <2>6. QED
    BY <1>4, <1>5, <2>2, <2>3, <2>5
<1>7. QED
  BY <1>6 DEF node

\* A chain through l to the head of t, and from there to its end, has the
\* events of l in it.
LEMMA ChainIs ==
  ASSUME NEW next, NEW l \in Seq(Events), NEW t \in Seq(Events), NEW p, NEW q,
         IsInjective(l), ToSet(l) \cap ToSet(t) = {},
         q = FirstOr(t, NULL), p = FirstOr(l, q),
         Links(next, l, q), Links(next, t, NULL)
  PROVE  Chain(next, p, q) = l
<1> DEFINE f == [n \in Nat |-> IF n < Len(l) THEN l[n + 1]
                               ELSE IF n < Len(l) + Len(t) THEN t[n - Len(l) + 1] ELSE NULL]
<1>1. /\ Len(l) \in Nat /\ (l = <<>> <=> Len(l) = 0)
      /\ Len(t) \in Nat /\ (t = <<>> <=> Len(t) = 0)
  BY EmptyLen
<1>2. /\ \A i \in 1 .. Len(l) : l[i] \in Events /\ l[i] \in ToSet(l)
      /\ \A i \in 1 .. Len(t) : t[i] \in Events /\ t[i] \in ToSet(t)
  BY DEF ToSet
<1>3. /\ \A i \in 1 .. Len(l) : next[l[i]] = IF i < Len(l) THEN l[i + 1] ELSE q
      /\ \A i \in 1 .. Len(t) : next[t[i]] = IF i < Len(t) THEN t[i + 1] ELSE NULL
  BY DEF Links
<1>4. \A n \in Nat : f[n] = IF n < Len(l) THEN l[n + 1]
                            ELSE IF n < Len(l) + Len(t) THEN t[n - Len(l) + 1] ELSE NULL
  OBVIOUS
<1>5. DOMAIN f = Nat /\ f = [n \in Nat |-> f[n]]
  OBVIOUS
<1> HIDE DEF f
<1>6. q = f[Len(l)] /\ p = f[0]
  BY <1>1, <1>4 DEF FirstOr
<1>7. ASSUME NEW n \in Nat \ {0}
      PROVE  f[n] = IF f[n - 1] = NULL THEN NULL ELSE next[f[n - 1]]
  <2>1. n - 1 \in Nat /\ n - 1 + 1 = n
    OBVIOUS
  <2>2. CASE n - 1 < Len(l)
    <3>1. n \in 1 .. Len(l) /\ f[n - 1] = l[n]
      BY <1>1, <1>4, <2>1, <2>2
    <3>2. f[n - 1] # NULL /\ next[f[n - 1]] = IF n < Len(l) THEN l[n + 1] ELSE q
      BY <1>2, <1>3, <3>1, NullAssumption
    <3>3. n < Len(l) => f[n] = l[n + 1]
      BY <1>4
    <3>4. ~(n < Len(l)) => n = Len(l)
      BY <1>1, <3>1
    <3>5. QED
      BY <1>6, <3>2, <3>3, <3>4
  <2>3. CASE ~(n - 1 < Len(l)) /\ n - 1 < Len(l) + Len(t)
    <3> DEFINE i == n - Len(l)
    <3>1. i \in 1 .. Len(t) /\ n - 1 - Len(l) + 1 = i /\ n - Len(l) + 1 = i + 1
      BY <1>1, <2>1, <2>3
    <3>2. f[n - 1] = t[i]
      BY <1>4, <2>1, <2>3, <3>1
    <3>3. f[n - 1] # NULL /\ next[f[n - 1]] = IF i < Len(t) THEN t[i + 1] ELSE NULL
      BY <1>2, <1>3, <3>1, <3>2, NullAssumption
    <3>4. ~(n < Len(l)) /\ (n < Len(l) + Len(t) <=> i < Len(t))
      BY <1>1, <2>1, <2>3
    <3>5. f[n] = IF i < Len(t) THEN t[i + 1] ELSE NULL
      BY <1>4, <3>1, <3>4
    <3>6. QED
      BY <3>3, <3>5
  <2>4. CASE ~(n - 1 < Len(l)) /\ ~(n - 1 < Len(l) + Len(t))
    <3>1. f[n - 1] = NULL
      BY <1>4, <2>1, <2>4
    <3>2. ~(n < Len(l)) /\ ~(n < Len(l) + Len(t))
      BY <1>1, <2>4
    <3>3. QED
      BY <1>4, <3>1, <3>2
  <2>5. QED
    BY <2>2, <2>3, <2>4
<1>8. \A n \in Nat : Node(next, p)[n] = f[n]
  <2>1. f = [n \in Nat |-> IF n = 0 THEN p
                           ELSE IF f[n - 1] = NULL THEN NULL ELSE next[f[n - 1]]]
    BY <1>5, <1>6, <1>7
  <2>2. QED
    BY <2>1, NodeFollows
<1> DEFINE ends == {n \in 0 .. Cardinality(Events) : Node(next, p)[n] \in {q, NULL}}
<1>9. Len(l) \in ends
  BY <1>1, <1>6, <1>8, LengthBound
<1>10. ASSUME NEW n \in 0 .. Cardinality(Events), n < Len(l)
       PROVE  n \notin ends
  <2>1. n \in Nat /\ n + 1 \in 1 .. Len(l)
    BY <1>1, <1>10, LengthBound
  <2>2. Node(next, p)[n] = l[n + 1]
    BY <1>4, <1>8, <1>10, <2>1
  <2>3. l[n + 1] \in Events /\ l[n + 1] \in ToSet(l)
    BY <1>2, <2>1
  <2>4. q = NULL \/ q \in ToSet(t)
    BY <1>1, <1>2 DEF FirstOr
  <2>5. l[n + 1] \notin {q, NULL}
    BY <2>3, <2>4, NullAssumption
  <2>6. QED
    BY <2>2, <2>5
<1>11. Min(ends) = Len(l)
  <2>1. \A n \in ends : n \in Nat /\ Len(l) <= n
    BY <1>1, <1>10, LengthBound
  <2>2. Len(l) \in ends /\ \A n \in ends : Len(l) <= n
    BY <1>9, <2>1
  <2>3. \A m \in ends : (\A n \in ends : m <= n) => m = Len(l)
    BY <1>1, <1>9, <2>1
  <2> HIDE DEF ends
  <2>4. QED
    BY <2>2, <2>3 DEF Min
<1>12. Chain(next, p, q) = [i \in 1 .. Len(l) |-> Node(next, p)[i - 1]]
  BY <1>9, <1>11 DEF Chain
<1>13. \A i \in 1 .. Len(l) : Node(next, p)[i - 1] = l[i]
  <2>1. ASSUME NEW i \in 1 .. Len(l) PROVE Node(next, p)[i - 1] = l[i]
    <3>1. i - 1 \in Nat /\ i - 1 < Len(l) /\ i - 1 + 1 = i
      BY <1>1
    <3>2. QED
      BY <1>4, <1>8, <3>1
  <2>2. QED
    BY <2>1
<1>14. l = [i \in 1 .. Len(l) |-> l[i]]
  OBVIOUS
<1>15. QED
  BY <1>12, <1>13, <1>14

----------------------------------------------------------------------------
(* The inductive invariant: the pointers hold three sequences, those that  *)
(* the walk has passed, the rest of the list and the ready events.         *)

ListType == [head : Pointer, tail : Pointer, next : [Events -> Pointer]]

Types ==
    /\ list \in ListType /\ ready_events \in Pointer
    /\ walking \in BOOLEAN /\ cur \in Pointer /\ prev \in Pointer

Apart(k, w, r) ==
    /\ IsInjective(k) /\ IsInjective(w) /\ IsInjective(r)
    /\ ToSet(k) \cap ToSet(w) = {} /\ ToSet(k) \cap ToSet(r) = {} /\ ToSet(w) \cap ToSet(r) = {}
    /\ ToSet(k) \cup ToSet(w) \cup ToSet(r) = allocated

Linked(k, w, r) ==
    /\ Links(list.next, k, FirstOr(w, NULL))
    /\ Links(list.next, w, NULL)
    /\ Links(list.next, r, NULL)

PointedTo(k, w, r) ==
    /\ list.head = FirstOr(k, FirstOr(w, NULL))
    /\ list.tail = LastOr(w, LastOr(k, NULL))
    /\ ready_events = FirstOr(r, NULL)
    /\ walking => cur = FirstOr(w, NULL) /\ prev = LastOr(k, NULL)
    /\ ~walking => k = <<>>

Represents(k, w, r) ==
    /\ k \in Seq(Events) /\ w \in Seq(Events) /\ r \in Seq(Events)
    /\ Types /\ Apart(k, w, r) /\ Linked(k, w, r) /\ PointedTo(k, w, r)

IInv == \E k, w, r \in Seq(Events) : Represents(k, w, r)

\* The pointers lead through exactly these sequences.
LEMMA Reads ==
  \A k, w, r : Represents(k, w, r) => kept = k /\ pending = w /\ ready = r
<1> SUFFICES ASSUME NEW k, NEW w, NEW r, Represents(k, w, r)
             PROVE  kept = k /\ pending = w /\ ready = r
  OBVIOUS
<1> DEFINE none == <<>>
<1>1. /\ k \in Seq(Events) /\ w \in Seq(Events) /\ r \in Seq(Events)
      /\ Apart(k, w, r) /\ Linked(k, w, r) /\ PointedTo(k, w, r)
  BY DEF Represents
<1>2. none \in Seq(Events) /\ ToSet(none) = {} /\ IsInjective(none)
  BY EmptyElems
<1>3. FirstOr(none, NULL) = NULL /\ Links(list.next, none, NULL)
  BY DEF FirstOr, Links
<1>4. k = none \/ walking
  BY <1>1 DEF PointedTo
<1> HIDE DEF none
<1>5. ASSUME NEW s \in Seq(Events), IsInjective(s), Links(list.next, s, NULL)
      PROVE  Chain(list.next, FirstOr(s, NULL), NULL) = s
  <2>1. ToSet(s) \cap ToSet(none) = {}
    BY <1>2
  <2>2. QED
    BY <1>2, <1>3, <1>5, <2>1, ChainIs
<1>6. ready = r
  BY <1>1, <1>5 DEF ready, Apart, Linked, PointedTo
<1>7. pending = w
  <2>1. (IF walking THEN cur ELSE list.head) = FirstOr(w, NULL)
    BY <1>1 DEF PointedTo, FirstOr
  <2>2. QED
    BY <1>1, <1>5, <2>1 DEF pending, Apart, Linked
<1>8. kept = k
  <2>1. CASE walking
    <3>1. Chain(list.next, FirstOr(k, FirstOr(w, NULL)), FirstOr(w, NULL)) = k
      BY <1>1, ChainIs DEF Apart, Linked
    <3>2. QED
      BY <1>1, <2>1, <3>1 DEF kept, PointedTo
  <2>2. CASE ~walking
    BY <1>1, <2>2 DEF kept, PointedTo
  <2>3. QED
    BY <2>1, <2>2
<1>9. QED
  BY <1>6, <1>7, <1>8

\* They do so after a step as well as before.
LEMMA ReadsAfter ==
  (\A k, w, r : Represents(k, w, r) => kept = k /\ pending = w /\ ready = r)'
BY Reads, PTL

\* An event is appended behind the tail.
LEMMA AddEventIs ==
  ASSUME NEW l \in ListType, NEW e \in Events, l.head # NULL => l.tail # NULL
  PROVE  LET m == AddEvent(l, e)
         IN  /\ m \in ListType
             /\ m.head = IF l.head = NULL THEN e ELSE l.head
             /\ m.tail = e
             /\ \A x \in Events : m.next[x] = IF l.head # NULL /\ x = l.tail THEN e ELSE l.next[x]
BY NullAssumption DEF AddEvent, ListType, Pointer

\* An event is unlinked from its predecessor, or from the head.
LEMMA RemoveEventIs ==
  ASSUME NEW l \in ListType, NEW e \in Events, NEW p \in Pointer, p = NULL => l.head = e, p # e
  PROVE  LET m == RemoveEvent(l, e, p)
         IN  /\ m \in ListType
             /\ m.head = IF p = NULL THEN l.next[e] ELSE l.head
             /\ l.next[e] # e =>
                    m.tail = IF l.tail # e THEN l.tail ELSE IF p = NULL THEN l.next[e] ELSE p
             /\ \A x \in Events : m.next[x] = IF x = e THEN NULL
                                              ELSE IF x = p THEN l.next[e] ELSE l.next[x]
<1> DEFINE u == Unlink(l, e, p)
           m == RemoveEvent(l, e, p)
<1>1. /\ u \in ListType
      /\ u.head = IF p = NULL THEN l.next[e] ELSE l.head
      /\ u.tail = IF p = NULL /\ l.tail = e THEN l.next[e] ELSE l.tail
      /\ \A x \in Events : u.next[x] = IF x = p THEN l.next[e] ELSE l.next[x]
  BY NullAssumption DEF Unlink, ListType, Pointer
<1>2. m = [u EXCEPT !.tail = IF u.tail = e THEN p ELSE u.tail, !.next[e] = NULL]
  BY DEF RemoveEvent
<1> HIDE DEF u, m
<1>3. /\ m \in ListType
      /\ m.head = u.head /\ m.tail = IF u.tail = e THEN p ELSE u.tail
      /\ \A x \in Events : m.next[x] = IF x = e THEN NULL ELSE u.next[x]
  BY <1>1, <1>2 DEF ListType, Pointer
<1>4. QED
  BY <1>1, <1>3, NullAssumption DEF Pointer, m

----------------------------------------------------------------------------
(* One lemma per action: the sequences after it, and the step of           *)
(* EventQueue that it is.                                                  *)

\* What each lemma needs of the sequences it has.
LEMMA Held ==
  ASSUME NEW k, NEW w, NEW r, Represents(k, w, r)
  PROVE  /\ k \in Seq(Events) /\ w \in Seq(Events) /\ r \in Seq(Events)
         /\ Types /\ list.next \in [Events -> Pointer]
         /\ kept = k /\ pending = w /\ ready = r
         /\ FirstOr(k, FirstOr(w, NULL)) \in Pointer
         /\ LastOr(w, NULL) \in Pointer /\ LastOr(k, NULL) \in Pointer
         /\ ToSet(k) \subseteq Events /\ ToSet(w) \subseteq Events /\ ToSet(r) \subseteq Events
         /\ NULL \notin Events
<1>1. /\ k \in Seq(Events) /\ w \in Seq(Events) /\ r \in Seq(Events) /\ Types
  BY DEF Represents
<1>2. list.next \in [Events -> Pointer]
  BY <1>1 DEF Types, ListType
<1>3. kept = k /\ pending = w /\ ready = r
  BY Reads
<1>4. \A s \in Seq(Events), q \in Pointer : FirstOr(s, q) \in Pointer /\ LastOr(s, q) \in Pointer
  BY EmptyLen DEF FirstOr, LastOr, Pointer
<1>5. \A s \in Seq(Events) : ToSet(s) \subseteq Events
  BY DEF ToSet
<1>6. NULL \in Pointer
  BY DEF Pointer
<1>7. QED
  BY <1>1, <1>2, <1>3, <1>4, <1>5, <1>6, NullAssumption

\* A chain is empty where its pointer is NULL, and else begins with it.
LEMMA FirstIs ==
  ASSUME NEW s \in Seq(Events)
  PROVE  /\ FirstOr(s, NULL) = NULL <=> s = <<>>
         /\ LastOr(s, NULL) = NULL <=> s = <<>>
         /\ s # <<>> => /\ FirstOr(s, NULL) = Head(s) /\ Head(s) \in Events
                        /\ LastOr(s, NULL) \in Events /\ LastOr(s, NULL) \in ToSet(s)
                        /\ \A q : LastOr(s, q) = LastOr(s, NULL) /\ FirstOr(s, q) = Head(s)
<1>1. s # <<>> => /\ FirstOr(s, NULL) = Head(s) /\ Head(s) \in Events
                  /\ LastOr(s, NULL) \in ToSet(s) /\ ToSet(s) \subseteq Events
  <2>1. ToSet(s) \subseteq Events
    BY DEF ToSet
  <2>2. s # <<>> => FirstOr(s, NULL) = Head(s) /\ LastOr(s, NULL) \in ToSet(s)
    BY TailEnds
  <2>3. s # <<>> => Head(s) \in Events
    BY HeadTailElems
  <2>4. QED
    BY <2>1, <2>2, <2>3
<1>2. s # <<>> => \A q : LastOr(s, q) = LastOr(s, NULL) /\ FirstOr(s, q) = FirstOr(s, NULL)
  BY DEF LastOr, FirstOr
<1>3. s = <<>> => FirstOr(s, NULL) = NULL /\ LastOr(s, NULL) = NULL
  BY DEF LastOr, FirstOr
<1>4. QED
  BY <1>1, <1>2, <1>3, NullAssumption

\* Init: the three are empty.
LEMMA InitIInv == Init => IInv /\ Queue!Init
<1> SUFFICES ASSUME Init PROVE IInv /\ Queue!Init
  OBVIOUS
<1> DEFINE none == <<>>
<1>1. none \in Seq(Events) /\ ToSet(none) = {} /\ IsInjective(none)
  BY EmptyElems
<1>2. /\ FirstOr(none, NULL) = NULL /\ LastOr(none, NULL) = NULL
      /\ Links(list.next, none, NULL)
  BY DEF FirstOr, LastOr, Links
<1>3. Types
  BY DEF Init, Types, ListType, Pointer
<1> HIDE DEF none
<1>4. Apart(none, none, none)
  BY <1>1 DEF Apart, Init
<1>5. Linked(none, none, none) /\ PointedTo(none, none, none)
  <2>1. list.head = NULL /\ list.tail = NULL /\ ready_events = NULL /\ ~walking
    BY DEF Init
  <2>2. PointedTo(none, none, none)
    BY <1>2, <2>1 DEF PointedTo, none
  <2>3. QED
    BY <1>2, <2>2 DEF Linked
<1>6. Represents(none, none, none)
  BY <1>1, <1>3, <1>4, <1>5 DEF Represents
<1>7. kept = none /\ pending = none /\ ready = none
  BY <1>6, Reads
<1>8. IInv
  BY <1>1, <1>6 DEF IInv
<1>9. QED
  BY <1>7, <1>8 DEF Queue!Init, Init, none

\* Links in the list after an event that is in none of its chains is cleared.
LEMMA AddKeeps ==
  ASSUME IInv, NEW e \in Events, Add(e)
  PROVE  IInv' /\ Queue!Add(e)
<1>1. PICK k, w, r \in Seq(Events) : Represents(k, w, r)
  BY DEF IInv
<1> DEFINE l == [list EXCEPT !.next[e] = NULL]
           v == Append(w, e)
<1>2. /\ ~walking /\ walking' = walking /\ e \notin allocated /\ allocated' = allocated \cup {e}
      /\ list' = AddEvent(l, e) /\ UNCHANGED <<ready_events, cur, prev>>
  BY DEF Add
<1>3. /\ Types /\ kept = k /\ pending = w /\ ready = r /\ NULL \notin Events
      /\ Apart(k, w, r) /\ Linked(k, w, r) /\ PointedTo(k, w, r)
      /\ ToSet(w) \subseteq Events /\ ToSet(r) \subseteq Events
  BY <1>1, Held DEF Represents
<1>4. k = <<>>
  BY <1>2, <1>3 DEF PointedTo
<1>5. list.head = FirstOr(w, NULL) /\ list.tail = LastOr(w, NULL)
  BY <1>3, <1>4 DEF PointedTo, FirstOr, LastOr
<1>6. /\ l \in ListType /\ l.head = list.head /\ l.tail = list.tail
      /\ \A x \in Events : l.next[x] = IF x = e THEN NULL ELSE list.next[x]
  BY <1>3 DEF Types, ListType, Pointer
<1>7. l.head # NULL => l.tail # NULL
  BY <1>5, <1>6, FirstIs
<1> HIDE DEF l
<1>8. /\ list' \in ListType
      /\ list'.head = (IF list.head = NULL THEN e ELSE list.head)
      /\ list'.tail = e
      /\ \A x \in Events : list'.next[x] = IF list.head # NULL /\ x = list.tail THEN e ELSE l.next[x]
  BY <1>2, <1>6, <1>7, AddEventIs
<1>9. e \notin ToSet(k) /\ e \notin ToSet(w) /\ e \notin ToSet(r)
  BY <1>2, <1>3 DEF Apart
<1>10. v \in Seq(Events) /\ ToSet(v) = ToSet(w) \cup {e} /\ IsInjective(v)
  BY <1>3, <1>9, AppendElems DEF Apart
<1>11. /\ LastOr(v, LastOr(k, NULL)) = e /\ FirstOr(v, NULL) = FirstOr(w, e)
  BY AppendEnds
<1>12. FirstOr(w, e) = IF list.head = NULL THEN e ELSE list.head
  <2>1. w = <<>> => FirstOr(w, e) = e
    BY DEF FirstOr
  <2>2. QED
    BY <1>5, <2>1, FirstIs
<1>13. Links(list'.next, v, NULL)
  <2>1. \A x \in ToSet(w) : list'.next[x] = IF x = LastOr(w, NULL) THEN e ELSE list.next[x]
    <3>1. ToSet(w) # {} => w # <<>>
      BY EmptyElems
    <3>2. ToSet(w) # {} => list.head # NULL
      BY <1>5, <3>1, FirstIs
    <3>3. QED
      BY <1>3, <1>5, <1>6, <1>8, <1>9, <3>2
  <2>2. Links(list'.next, w, e)
    <3>1. Links(list.next, w, NULL) /\ IsInjective(w) /\ w \in Seq(Events)
      BY <1>3 DEF Apart, Linked
    <3> DEFINE after == list'.next
    <3>2. \A x \in ToSet(w) : after[x] = IF x = LastOr(w, NULL) THEN e ELSE list.next[x]
      BY <2>1
    <3> HIDE DEF after
    <3>3. Links(after, w, e)
      BY <3>1, <3>2, LinksAnew
    <3>4. QED
      BY <3>3 DEF after
  <2>3. list'.next[e] = NULL
    <3>1. list.head # NULL => list.tail # e
      BY <1>5, <1>9, FirstIs
    <3>2. QED
      BY <1>6, <1>8, <3>1
  <2>4. QED
    BY <2>2, <2>3, LinksAppend
<1>14. Links(list'.next, r, NULL)
  <2>1. ToSet(w) \cap ToSet(r) = {}
    BY <1>3 DEF Apart
  <2>2. list.head # NULL => list.tail \in ToSet(w)
    BY <1>5, FirstIs
  <2>3. \A x \in ToSet(r) : list'.next[x] = list.next[x]
    BY <1>3, <1>6, <1>8, <1>9, <2>1, <2>2
  <2>4. QED
    BY <1>3, <2>3, LinksElsewhere DEF Linked
<1> HIDE DEF v
<1>15. Represents(k, v, r)'
  <2>1. Types'
    BY <1>2, <1>3, <1>8 DEF Types
  <2>2. Apart(k, v, r)'
    BY <1>2, <1>3, <1>9, <1>10 DEF Apart
  <2>3. Linked(k, v, r)'
    BY <1>4, <1>13, <1>14 DEF Linked, Links
  <2>4. PointedTo(k, v, r)'
    <3>1. FirstOr(k, FirstOr(v, NULL)) = FirstOr(v, NULL)
      BY <1>4 DEF FirstOr
    <3>2. QED
      BY <1>2, <1>3, <1>4, <1>8, <1>11, <1>12, <3>1 DEF PointedTo
  <2>5. QED
    BY <1>10, <2>1, <2>2, <2>3, <2>4 DEF Represents
<1>16. kept' = k /\ pending' = v /\ ready' = r
  BY <1>15, ReadsAfter
<1>17. QED
  BY <1>1, <1>2, <1>3, <1>10, <1>15, <1>16 DEF IInv, Queue!Add, v

\* An event whose thread cannot be created is appended and removed again: the
\* pointers of the others are what they were.
LEMMA AddFailsKeeps ==
  ASSUME IInv, NEW e \in Events, AddFails(e)
  PROVE  IInv' /\ UNCHANGED Queue!vars
<1>1. PICK k, w, r \in Seq(Events) : Represents(k, w, r)
  BY DEF IInv
<1> DEFINE l == [list EXCEPT !.next[e] = NULL]
           m == AddEvent(l, e)
<1>2. /\ ~walking /\ e \notin allocated
      /\ list' = RemoveEvent(m, e, list.tail)
      /\ UNCHANGED <<walking, ready_events, cur, prev, allocated>>
  BY DEF AddFails
<1>3. /\ Types /\ kept = k /\ pending = w /\ ready = r /\ NULL \notin Events
      /\ Apart(k, w, r) /\ Linked(k, w, r) /\ PointedTo(k, w, r)
      /\ ToSet(w) \subseteq Events /\ ToSet(r) \subseteq Events
  BY <1>1, Held DEF Represents
<1>4. k = <<>>
  BY <1>2, <1>3 DEF PointedTo
<1>5. list.head = FirstOr(w, NULL) /\ list.tail = LastOr(w, NULL)
  BY <1>3, <1>4 DEF PointedTo, FirstOr, LastOr
<1>6. /\ l \in ListType /\ l.head = list.head /\ l.tail = list.tail
      /\ \A x \in Events : l.next[x] = IF x = e THEN NULL ELSE list.next[x]
  BY <1>3 DEF Types, ListType, Pointer
<1>7. e \notin ToSet(w) /\ e \notin ToSet(r) /\ ToSet(w) \cap ToSet(r) = {}
  BY <1>2, <1>3 DEF Apart
<1>8. /\ list.head = NULL <=> list.tail = NULL
      /\ list.tail # NULL => list.tail \in ToSet(w) /\ list.tail # e
      /\ list.tail \in Pointer
  BY <1>3, <1>5, <1>7, FirstIs DEF Types, ListType
<1> HIDE DEF l
<1>9. /\ m \in ListType
      /\ m.head = IF list.head = NULL THEN e ELSE list.head
      /\ m.tail = e
      /\ \A x \in Events : m.next[x] = IF list.head # NULL /\ x = list.tail THEN e ELSE l.next[x]
  BY <1>6, <1>8, AddEventIs
<1> HIDE DEF m
<1>10. m.next[e] = NULL /\ e # NULL
  BY <1>3, <1>6, <1>8, <1>9
<1>11. /\ list' \in ListType
       /\ list'.head = IF list.tail = NULL THEN m.next[e] ELSE m.head
       /\ list'.tail = IF list.tail = NULL THEN m.next[e] ELSE list.tail
       /\ \A x \in Events : list'.next[x] = IF x = e THEN NULL
                                            ELSE IF x = list.tail THEN m.next[e] ELSE m.next[x]
  <2>1. (list.tail = NULL => m.head = e) /\ list.tail # e
    BY <1>8, <1>9, <1>10
  <2>2. QED
    BY <1>2, <1>8, <1>9, <1>10, <2>1, RemoveEventIs
<1>12. /\ list'.head = list.head /\ list'.tail = list.tail
       /\ \A x \in Events : list'.next[x] = IF x = e \/ x = list.tail THEN NULL ELSE list.next[x]
  BY <1>6, <1>8, <1>9, <1>10, <1>11
<1> DEFINE after == list'.next
<1>13. \A x \in Events : after[x] = IF x = e \/ x = list.tail THEN NULL ELSE list.next[x]
  BY <1>12
<1> HIDE DEF after
<1>14. Links(after, w, NULL)
  <2>1. Links(list.next, w, NULL) /\ IsInjective(w)
    BY <1>3 DEF Apart, Linked
  <2>2. \A x \in ToSet(w) : after[x] = IF x = LastOr(w, NULL) THEN NULL ELSE list.next[x]
    BY <1>3, <1>5, <1>7, <1>13
  <2>3. QED
    BY <2>1, <2>2, LinksAnew
<1>15. Links(after, r, NULL)
  <2>1. Links(list.next, r, NULL)
    BY <1>3 DEF Linked
  <2>2. \A x \in ToSet(r) : after[x] = list.next[x]
    BY <1>3, <1>7, <1>8, <1>13
  <2>3. QED
    BY <2>1, <2>2, LinksElsewhere
<1>16. Represents(k, w, r)'
  <2>1. Types'
    BY <1>2, <1>3, <1>11 DEF Types
  <2>2. Apart(k, w, r)'
    BY <1>2, <1>3 DEF Apart
  <2>3. Linked(k, w, r)'
    BY <1>4, <1>14, <1>15 DEF Linked, Links, after
  <2>4. PointedTo(k, w, r)'
    BY <1>2, <1>3, <1>12 DEF PointedTo
  <2>5. QED
    BY <2>1, <2>2, <2>3, <2>4 DEF Represents
<1>17. kept' = k /\ pending' = w /\ ready' = r
  BY <1>16, ReadsAfter
<1>18. QED
  BY <1>1, <1>2, <1>3, <1>16, <1>17 DEF IInv, Queue!vars

\* A walk begins at the head.
LEMMA BeginWalkKeeps ==
  ASSUME IInv, BeginWalk
  PROVE  IInv' /\ Queue!Begin
<1>1. PICK k, w, r \in Seq(Events) : Represents(k, w, r)
  BY DEF IInv
<1>2. /\ ~walking /\ walking' = TRUE /\ cur' = list.head /\ prev' = NULL
      /\ UNCHANGED <<list, ready_events, allocated>>
  BY DEF BeginWalk
<1>3. /\ Types /\ kept = k /\ pending = w /\ ready = r
      /\ Apart(k, w, r) /\ Linked(k, w, r) /\ PointedTo(k, w, r)
  BY <1>1, Held DEF Represents
<1>4. k = <<>> /\ list.head = FirstOr(w, NULL) /\ LastOr(k, NULL) = NULL
  BY <1>2, <1>3 DEF PointedTo, FirstOr, LastOr
<1>5. Represents(k, w, r)'
  <2>1. Types'
    BY <1>2, <1>3 DEF Types, ListType, Pointer
  <2>2. Apart(k, w, r)' /\ Linked(k, w, r)'
    BY <1>2, <1>3 DEF Apart, Linked
  <2>3. PointedTo(k, w, r)'
    BY <1>2, <1>3, <1>4 DEF PointedTo
  <2>4. QED
    BY <2>1, <2>2, <2>3 DEF Represents
<1>6. kept' = k /\ pending' = w /\ ready' = r
  BY <1>5, ReadsAfter
<1>7. QED
  BY <1>1, <1>2, <1>3, <1>5, <1>6 DEF IInv, Queue!Begin

\* An event stays, and the walk passes it.
LEMMA KeepEventKeeps ==
  ASSUME IInv, KeepEvent
  PROVE  IInv' /\ Queue!Keep
<1>1. PICK k, w, r \in Seq(Events) : Represents(k, w, r)
  BY DEF IInv
<1>2. /\ walking /\ cur # NULL /\ prev' = cur /\ cur' = list.next[cur]
      /\ UNCHANGED <<list, ready_events, walking, allocated>>
  BY DEF KeepEvent
<1>3. /\ Types /\ kept = k /\ pending = w /\ ready = r /\ list.next \in [Events -> Pointer]
      /\ Apart(k, w, r) /\ Linked(k, w, r) /\ PointedTo(k, w, r)
  BY <1>1, Held DEF Represents
<1>4. w # <<>> /\ cur = Head(w) /\ cur \in Events
  BY <1>2, <1>3, FirstIs DEF PointedTo
<1> DEFINE e == Head(w)
           a == Append(k, e)
           t == Tail(w)
<1>5. /\ e \in Events /\ t \in Seq(Events)
      /\ ToSet(w) = {e} \cup ToSet(t) /\ e \notin ToSet(t) /\ IsInjective(t)
  BY <1>3, <1>4, HeadTailElems DEF Apart
<1>6. e \notin ToSet(k)
  BY <1>3, <1>5 DEF Apart
<1>7. a \in Seq(Events) /\ ToSet(a) = ToSet(k) \cup {e} /\ IsInjective(a)
  BY <1>3, <1>5, <1>6, AppendElems DEF Apart
<1>8. list.next[e] = FirstOr(t, NULL) /\ Links(list.next, t, NULL)
  BY <1>3, <1>4, LinksTail DEF Linked
<1>9. FirstOr(w, NULL) = e /\ LastOr(w, LastOr(k, NULL)) = LastOr(t, e)
  BY <1>4, TailEnds
<1> HIDE DEF e
<1>10. Links(list.next, a, FirstOr(t, NULL))
  BY <1>3, <1>5, <1>8, <1>9, LinksAppend DEF Linked
<1>11. LastOr(a, NULL) = e /\ FirstOr(a, FirstOr(t, NULL)) = FirstOr(k, e)
  BY <1>5, AppendEnds
<1> HIDE DEF a, t
<1>12. Represents(a, t, r)'
  <2>1. Types'
    BY <1>2, <1>3, <1>4 DEF Types
  <2>2. Apart(a, t, r)'
    BY <1>2, <1>3, <1>5, <1>6, <1>7 DEF Apart
  <2>3. Linked(a, t, r)'
    BY <1>2, <1>3, <1>8, <1>10 DEF Linked
  <2>4. PointedTo(a, t, r)'
    BY <1>2, <1>3, <1>4, <1>8, <1>9, <1>11 DEF PointedTo, e
  <2>5. QED
    BY <1>5, <1>7, <2>1, <2>2, <2>3, <2>4 DEF Represents
<1>13. kept' = a /\ pending' = t /\ ready' = r
  BY <1>12, ReadsAfter
<1>14. QED
  BY <1>1, <1>2, <1>3, <1>4, <1>5, <1>7, <1>12, <1>13 DEF IInv, Queue!Keep, a, t, e

\* An event leaves the list, at its front, in its middle or at its end, and is
\* put before the ready ones.
LEMMA TakeEventKeeps ==
  ASSUME IInv, TakeEvent
  PROVE  IInv' /\ Queue!Take
<1>1. PICK k, w, r \in Seq(Events) : Represents(k, w, r)
  BY DEF IInv
<1> DEFINE e == Head(w)
           t == Tail(w)
           b == <<e>> \o r
           m == RemoveEvent(list, cur, prev)
<1>2. /\ walking /\ cur # NULL /\ cur' = list.next[cur] /\ ready_events' = cur
      /\ list' = [m EXCEPT !.next[cur] = ready_events]
      /\ UNCHANGED <<walking, prev, allocated>>
  BY DEF TakeEvent
<1>3. /\ Types /\ kept = k /\ pending = w /\ ready = r /\ list.next \in [Events -> Pointer]
      /\ Apart(k, w, r) /\ Linked(k, w, r) /\ PointedTo(k, w, r)
      /\ ToSet(k) \subseteq Events /\ ToSet(w) \subseteq Events /\ ToSet(r) \subseteq Events
      /\ NULL \notin Events
  BY <1>1, Held DEF Represents
<1>4. w # <<>> /\ cur = e /\ cur \in Events
  BY <1>2, <1>3, FirstIs DEF PointedTo
<1>5. /\ e \in Events /\ t \in Seq(Events)
      /\ ToSet(w) = {e} \cup ToSet(t) /\ e \notin ToSet(t) /\ IsInjective(t)
  BY <1>3, <1>4, HeadTailElems DEF Apart
<1>6. /\ e \notin ToSet(k) /\ e \notin ToSet(r) /\ ToSet(k) \cap ToSet(t) = {}
      /\ ToSet(k) \cap ToSet(r) = {} /\ ToSet(t) \cap ToSet(r) = {}
  BY <1>3, <1>5 DEF Apart
<1>7. /\ b \in Seq(Events) /\ ToSet(b) = ToSet(r) \cup {e}
      /\ IsInjective(r) => IsInjective(b)
  BY <1>5, <1>6, PrependElems
<1>8. list.next[e] = FirstOr(t, NULL) /\ Links(list.next, t, NULL)
  BY <1>3, <1>4, LinksTail DEF Linked
<1>9. FirstOr(w, NULL) = e /\ LastOr(w, LastOr(k, NULL)) = LastOr(t, e)
  BY <1>4, TailEnds
<1>10. FirstOr(b, NULL) = e
  BY <1>5, PrependEnds
<1>11. /\ prev = LastOr(k, NULL) /\ (prev = NULL <=> k = <<>>)
       /\ prev # NULL => prev \in ToSet(k) /\ list.head = FirstOr(k, FirstOr(t, NULL))
       /\ prev = NULL => list.head = e /\ FirstOr(k, FirstOr(t, NULL)) = FirstOr(t, NULL)
       /\ list.tail = LastOr(t, e)
       /\ ready_events = FirstOr(r, NULL)
  <2>1. prev = LastOr(k, NULL) /\ (prev = NULL <=> k = <<>>) /\ (prev # NULL => prev \in ToSet(k))
    BY <1>2, <1>3, FirstIs DEF PointedTo
  <2>2. k # <<>> => FirstOr(k, FirstOr(w, NULL)) = FirstOr(k, FirstOr(t, NULL))
    BY FirstIs
  <2>3. k = <<>> => FirstOr(k, FirstOr(w, NULL)) = e /\ FirstOr(k, FirstOr(t, NULL)) = FirstOr(t, NULL)
    BY <1>9 DEF FirstOr
  <2>4. QED
    BY <1>3, <1>9, <2>1, <2>2, <2>3 DEF PointedTo
<1>12. list.next[e] # e
  <2>1. t # <<>> => FirstOr(t, NULL) \in ToSet(t)
    BY <1>5, TailEnds
  <2>2. t = <<>> => FirstOr(t, NULL) = NULL
    BY DEF FirstOr
  <2>3. QED
    BY <1>3, <1>5, <1>8, <2>1, <2>2
<1> HIDE DEF e, t, b
<1>13. /\ m \in ListType
       /\ m.head = IF prev = NULL THEN list.next[e] ELSE list.head
       /\ m.tail = IF list.tail # e THEN list.tail ELSE IF prev = NULL THEN list.next[e] ELSE prev
       /\ \A x \in Events : m.next[x] = IF x = e THEN NULL
                                        ELSE IF x = prev THEN list.next[e] ELSE list.next[x]
  <2>1. prev \in Pointer /\ list \in ListType /\ prev # e /\ (prev = NULL => list.head = e)
    BY <1>3, <1>5, <1>6, <1>11 DEF Types
  <2>2. QED
    BY <1>4, <1>5, <1>12, <2>1, RemoveEventIs
<1> HIDE DEF m
<1>14. /\ list' \in ListType /\ list'.head = m.head /\ list'.tail = m.tail
       /\ \A x \in Events : list'.next[x] = IF x = e THEN ready_events ELSE m.next[x]
  BY <1>2, <1>3, <1>4, <1>5, <1>13 DEF Types, ListType, Pointer
<1> DEFINE after == list'.next
<1>15. \A x \in Events : after[x] = IF x = e THEN ready_events
                                    ELSE IF x = prev THEN list.next[e] ELSE list.next[x]
  BY <1>13, <1>14
<1> HIDE DEF after
<1>16. list'.head = FirstOr(k, FirstOr(t, NULL))
  BY <1>8, <1>11, <1>13, <1>14
<1>17. list'.tail = LastOr(t, LastOr(k, NULL))
  <2>1. CASE t = <<>>
    <3>1. LastOr(t, e) = e /\ LastOr(t, LastOr(k, NULL)) = LastOr(k, NULL) /\ FirstOr(t, NULL) = NULL
      BY <2>1 DEF LastOr, FirstOr
    <3>2. QED
      BY <1>8, <1>11, <1>13, <1>14, <3>1
  <2>2. CASE t # <<>>
    <3>1. LastOr(t, e) = LastOr(t, LastOr(k, NULL)) /\ LastOr(t, e) \in ToSet(t)
      BY <1>5, <2>2, FirstIs
    <3>2. QED
      BY <1>5, <1>11, <1>13, <1>14, <3>1
  <2>3. QED
    BY <2>1, <2>2
<1>18. Links(after, k, FirstOr(t, NULL))
  <2>1. Links(list.next, k, e) /\ IsInjective(k)
    BY <1>3, <1>9 DEF Apart, Linked
  <2>2. \A x \in ToSet(k) : after[x] = IF x = LastOr(k, NULL) THEN FirstOr(t, NULL) ELSE list.next[x]
    BY <1>3, <1>6, <1>8, <1>11, <1>15
  <2>3. QED
    BY <2>1, <2>2, LinksAnew
<1>19. Links(after, t, NULL)
  <2>1. \A x \in ToSet(t) : after[x] = list.next[x]
    BY <1>3, <1>5, <1>6, <1>11, <1>15
  <2>2. QED
    BY <1>5, <1>8, <2>1, LinksElsewhere
<1>20. Links(after, b, NULL)
  <2>1. Links(list.next, r, NULL)
    BY <1>3 DEF Linked
  <2>2. \A x \in ToSet(r) : after[x] = list.next[x]
    BY <1>3, <1>6, <1>11, <1>15
  <2>3. Links(after, r, NULL)
    BY <2>1, <2>2, LinksElsewhere
  <2>4. after[e] = FirstOr(r, NULL)
    BY <1>5, <1>11, <1>15
  <2>5. QED
    BY <1>5, <2>3, <2>4, LinksPrepend DEF b
<1>21. Represents(k, t, b)'
  <2>1. Types'
    BY <1>2, <1>3, <1>4, <1>14 DEF Types, Pointer
  <2>2. Apart(k, t, b)'
    BY <1>2, <1>3, <1>5, <1>6, <1>7 DEF Apart
  <2>3. Linked(k, t, b)'
    BY <1>18, <1>19, <1>20 DEF Linked, after
  <2>4. PointedTo(k, t, b)'
    BY <1>2, <1>4, <1>8, <1>10, <1>11, <1>16, <1>17 DEF PointedTo
  <2>5. QED
    BY <1>5, <1>7, <2>1, <2>2, <2>3, <2>4 DEF Represents
<1>22. kept' = k /\ pending' = t /\ ready' = b
  BY <1>21, ReadsAfter
<1>23. QED
  BY <1>1, <1>2, <1>3, <1>4, <1>5, <1>7, <1>21, <1>22 DEF IInv, Queue!Take, b, t, e

\* At the end of the walk what it kept is the list.
LEMMA EndWalkKeeps ==
  ASSUME IInv, EndWalk
  PROVE  IInv' /\ Queue!End
<1>1. PICK k, w, r \in Seq(Events) : Represents(k, w, r)
  BY DEF IInv
<1> DEFINE none == <<>>
<1>2. /\ walking /\ cur = NULL /\ walking' = FALSE /\ prev' = NULL
      /\ UNCHANGED <<list, ready_events, cur, allocated>>
  BY DEF EndWalk
<1>3. /\ Types /\ kept = k /\ pending = w /\ ready = r
      /\ Apart(k, w, r) /\ Linked(k, w, r) /\ PointedTo(k, w, r)
  BY <1>1, Held DEF Represents
<1>4. w = none
  BY <1>2, <1>3, FirstIs DEF PointedTo
<1>5. none \in Seq(Events) /\ ToSet(none) = {} /\ IsInjective(none)
  BY EmptyElems
<1>6. \A q : FirstOr(none, q) = q /\ LastOr(none, q) = q /\ Links(list.next, none, q)
  BY DEF FirstOr, LastOr, Links
<1> HIDE DEF none
<1>7. Represents(none, k, r)'
  <2>1. Types'
    BY <1>2, <1>3 DEF Types, Pointer
  <2>2. Apart(none, k, r)'
    BY <1>2, <1>3, <1>4, <1>5 DEF Apart
  <2>3. Linked(none, k, r)'
    BY <1>2, <1>3, <1>4, <1>6 DEF Linked
  <2>4. PointedTo(none, k, r)'
    BY <1>2, <1>3, <1>4, <1>6 DEF PointedTo, none
  <2>5. QED
    BY <1>5, <2>1, <2>2, <2>3, <2>4 DEF Represents
<1>8. kept' = none /\ pending' = k /\ ready' = r
  BY <1>7, ReadsAfter
<1>9. QED
  BY <1>1, <1>2, <1>3, <1>4, <1>5, <1>7, <1>8 DEF IInv, Queue!End, none

\* The first of the ready events has its callback and is freed.
LEMMA DispatchKeeps ==
  ASSUME IInv, Dispatch
  PROVE  IInv' /\ Queue!Dispatch
<1>1. PICK k, w, r \in Seq(Events) : Represents(k, w, r)
  BY DEF IInv
<1> DEFINE e == Head(r)
           t == Tail(r)
           after == list'.next
<1>2. /\ ~walking /\ ready_events # NULL /\ ready_events' = list.next[ready_events]
      /\ list' = [list EXCEPT !.next[ready_events] = NULL]
      /\ allocated' = allocated \ {ready_events}
      /\ UNCHANGED <<walking, cur, prev>>
  BY DEF Dispatch
<1>3. /\ Types /\ kept = k /\ pending = w /\ ready = r /\ list.next \in [Events -> Pointer]
      /\ Apart(k, w, r) /\ Linked(k, w, r) /\ PointedTo(k, w, r)
      /\ ToSet(k) \subseteq Events /\ ToSet(w) \subseteq Events /\ ToSet(r) \subseteq Events
      /\ NULL \notin Events
  BY <1>1, Held DEF Represents
<1>4. r # <<>> /\ ready_events = e /\ e \in Events
  BY <1>2, <1>3, FirstIs DEF PointedTo
<1>5. /\ t \in Seq(Events)
      /\ ToSet(r) = {e} \cup ToSet(t) /\ e \notin ToSet(t) /\ IsInjective(t)
  BY <1>3, <1>4, HeadTailElems DEF Apart
<1>6. e \notin ToSet(k) /\ e \notin ToSet(w)
  BY <1>3, <1>5 DEF Apart
<1>7. list.next[e] = FirstOr(t, NULL) /\ Links(list.next, t, NULL)
  BY <1>3, <1>4, LinksTail DEF Linked
<1> HIDE DEF e, t
<1>8. /\ list' \in ListType /\ list'.head = list.head /\ list'.tail = list.tail
      /\ \A x \in Events : after[x] = IF x = e THEN NULL ELSE list.next[x]
  BY <1>2, <1>3, <1>4 DEF Types, ListType, Pointer
<1> HIDE DEF after
<1>9. Links(after, k, FirstOr(w, NULL)) /\ Links(after, w, NULL) /\ Links(after, t, NULL)
  <2>1. /\ \A x \in ToSet(k) : after[x] = list.next[x]
        /\ \A x \in ToSet(w) : after[x] = list.next[x]
        /\ \A x \in ToSet(t) : after[x] = list.next[x]
    BY <1>3, <1>5, <1>6, <1>8
  <2>2. Links(list.next, k, FirstOr(w, NULL)) /\ Links(list.next, w, NULL)
    BY <1>3 DEF Linked
  <2>3. QED
    BY <1>5, <1>7, <2>1, <2>2, LinksElsewhere
<1>10. Represents(k, w, t)'
  <2>1. Types'
    BY <1>2, <1>3, <1>4, <1>8 DEF Types, ListType
  <2>2. Apart(k, w, t)'
    BY <1>2, <1>3, <1>4, <1>5, <1>6 DEF Apart
  <2>3. Linked(k, w, t)'
    BY <1>9 DEF Linked, after
  <2>4. PointedTo(k, w, t)'
    BY <1>2, <1>3, <1>4, <1>7, <1>8 DEF PointedTo
  <2>5. QED
    BY <1>5, <2>1, <2>2, <2>3, <2>4 DEF Represents
<1>11. kept' = k /\ pending' = w /\ ready' = t
  BY <1>10, ReadsAfter
<1>12. QED
  BY <1>1, <1>2, <1>3, <1>4, <1>5, <1>10, <1>11 DEF IInv, Queue!Dispatch, t

\* The first event of the list is freed with the loop.
LEMMA DestroyFirstKeeps ==
  ASSUME IInv, DestroyFirst
  PROVE  IInv' /\ Queue!Clear
<1>1. PICK k, w, r \in Seq(Events) : Represents(k, w, r)
  BY DEF IInv
<1> DEFINE e == Head(w)
           t == Tail(w)
           after == list'.next
<1>2. /\ ~walking /\ ready_events = NULL /\ list.head # NULL
      /\ list' = RemoveEvent(list, list.head, NULL)
      /\ allocated' = allocated \ {list.head}
      /\ UNCHANGED <<ready_events, walking, cur, prev>>
  BY DEF DestroyFirst
<1>3. /\ Types /\ kept = k /\ pending = w /\ ready = r /\ list.next \in [Events -> Pointer]
      /\ Apart(k, w, r) /\ Linked(k, w, r) /\ PointedTo(k, w, r)
      /\ ToSet(k) \subseteq Events /\ ToSet(w) \subseteq Events /\ ToSet(r) \subseteq Events
      /\ NULL \notin Events
  BY <1>1, Held DEF Represents
<1>4. k = <<>> /\ list.head = FirstOr(w, NULL) /\ list.tail = LastOr(w, NULL)
  BY <1>2, <1>3 DEF PointedTo, FirstOr, LastOr
<1>5. w # <<>> /\ list.head = e /\ e \in Events
  BY <1>2, <1>4, FirstIs
<1>6. /\ t \in Seq(Events)
      /\ ToSet(w) = {e} \cup ToSet(t) /\ e \notin ToSet(t) /\ IsInjective(t)
  BY <1>3, <1>5, HeadTailElems DEF Apart
<1>7. e \notin ToSet(r) /\ e \notin ToSet(k)
  BY <1>3, <1>6 DEF Apart
<1>8. list.next[e] = FirstOr(t, NULL) /\ Links(list.next, t, NULL)
  BY <1>3, <1>5, LinksTail DEF Linked
<1>9. list.tail = LastOr(t, e)
  BY <1>4, <1>5, TailEnds
<1> HIDE DEF e, t
<1>10. /\ t # <<>> => FirstOr(t, NULL) \in ToSet(t) /\ LastOr(t, e) \in ToSet(t)
                      /\ LastOr(t, e) = LastOr(t, NULL)
       /\ t = <<>> => FirstOr(t, NULL) = NULL /\ LastOr(t, e) = e /\ LastOr(t, NULL) = NULL
  <2>1. t # <<>> => FirstOr(t, NULL) \in ToSet(t)
    BY <1>6, TailEnds
  <2>2. t # <<>> => LastOr(t, e) \in ToSet(t) /\ LastOr(t, e) = LastOr(t, NULL)
    BY <1>6, FirstIs
  <2>3. QED
    BY <2>1, <2>2 DEF FirstOr, LastOr
<1>11. list.next[e] # e
  BY <1>3, <1>5, <1>6, <1>8, <1>10
<1>12. /\ list' \in ListType /\ list'.head = list.next[e]
       /\ list'.tail = IF list.tail # e THEN list.tail ELSE list.next[e]
       /\ \A x \in Events : after[x] = IF x = e THEN NULL ELSE list.next[x]
  <2>1. NULL \in Pointer /\ list \in ListType /\ NULL # e
    BY <1>3, <1>5 DEF Types, Pointer
  <2>2. /\ list' \in ListType /\ list'.head = list.next[e]
        /\ list'.tail = IF list.tail # e THEN list.tail ELSE list.next[e]
        /\ \A x \in Events : after[x] = IF x = e THEN NULL
                                        ELSE IF x = NULL THEN list.next[e] ELSE list.next[x]
    BY <1>2, <1>5, <1>11, <2>1, RemoveEventIs
  <2>3. QED
    BY <1>3, <2>2
<1> HIDE DEF after
<1>13. Links(after, t, NULL) /\ Links(after, r, NULL)
  <2>1. /\ \A x \in ToSet(t) : after[x] = list.next[x]
        /\ \A x \in ToSet(r) : after[x] = list.next[x]
    BY <1>3, <1>6, <1>7, <1>12
  <2>2. Links(list.next, r, NULL)
    BY <1>3 DEF Linked
  <2>3. QED
    BY <1>6, <1>8, <2>1, <2>2, LinksElsewhere
<1>14. \A q : FirstOr(k, q) = q /\ LastOr(k, q) = q /\ Links(after, k, q)
  BY <1>4 DEF FirstOr, LastOr, Links
<1>15. Represents(k, t, r)'
  <2>1. Types'
    BY <1>2, <1>3, <1>12 DEF Types
  <2>2. Apart(k, t, r)'
    BY <1>2, <1>3, <1>5, <1>6, <1>7 DEF Apart
  <2>3. Linked(k, t, r)'
    BY <1>13, <1>14 DEF Linked, after
  <2>4. PointedTo(k, t, r)'
    BY <1>2, <1>3, <1>4, <1>6, <1>8, <1>9, <1>10, <1>12, <1>14 DEF PointedTo
  <2>5. QED
    BY <1>6, <2>1, <2>2, <2>3, <2>4 DEF Represents
<1>16. kept' = k /\ pending' = t /\ ready' = r
  BY <1>15, ReadsAfter
<1>17. \E n \in 1 .. Len(pending) : pending' = SubSeq(pending, n + 1, Len(pending))
  <2>1. w \in Seq(Events) /\ w # <<>> /\ t = Tail(w)
    BY <1>1, <1>5 DEF t
  <2>2. 1 \in 1 .. Len(w) /\ Tail(w) = SubSeq(w, 1 + 1, Len(w))
    BY <2>1
  <2>3. QED
    BY <1>3, <1>16, <2>1, <2>2
<1>18. QED
  BY <1>1, <1>2, <1>3, <1>5, <1>6, <1>15, <1>16, <1>17 DEF IInv, Queue!Clear

----------------------------------------------------------------------------
\* Every step keeps the three sequences, and is a step of the queue and the
\* stack or changes nothing of them.
LEMMA StepIs == IInv /\ [Next]_vars => IInv' /\ [Queue!Next]_Queue!vars
<1> SUFFICES ASSUME IInv, [Next]_vars
             PROVE  IInv' /\ [Queue!Next]_Queue!vars
  OBVIOUS
<1>1. ASSUME NEW e \in Events, Add(e)
      PROVE  IInv' /\ [Queue!Next]_Queue!vars
  BY <1>1, AddKeeps DEF Queue!Next
<1>2. ASSUME NEW e \in Events, AddFails(e)
      PROVE  IInv' /\ [Queue!Next]_Queue!vars
  BY <1>2, AddFailsKeeps
<1>3. CASE BeginWalk
  BY <1>3, BeginWalkKeeps DEF Queue!Next
<1>4. CASE KeepEvent
  BY <1>4, KeepEventKeeps DEF Queue!Next
<1>5. CASE TakeEvent
  BY <1>5, TakeEventKeeps DEF Queue!Next
<1>6. CASE EndWalk
  BY <1>6, EndWalkKeeps DEF Queue!Next
<1>7. CASE Dispatch
  BY <1>7, DispatchKeeps DEF Queue!Next
<1>8. CASE DestroyFirst
  BY <1>8, DestroyFirstKeeps DEF Queue!Next
<1>9. CASE UNCHANGED vars
  <2>1. PICK k, w, r \in Seq(Events) : Represents(k, w, r)
    BY DEF IInv
  <2>2. Represents(k, w, r)'
    BY <1>9, <2>1 DEF vars, Represents, Types, Apart, Linked, PointedTo
  <2>3. IInv' /\ UNCHANGED <<kept, pending, ready>>
    BY <2>1, <2>2, Reads, ReadsAfter DEF IInv
  <2>4. QED
    BY <1>9, <2>3 DEF vars, Queue!vars
<1>10. QED
  BY <1>1, <1>2, <1>3, <1>4, <1>5, <1>6, <1>7, <1>8, <1>9 DEF Next

\* Whatever is added, fails to be added, is taken during a walk, dispatched or
\* destroyed (event.c:157-266, 611-684): every allocated event is linked, and
\* no freed one is.
THEOREM NothingLeaks == Spec => []LinkedIsAllocated
<1>1. IInv => LinkedIsAllocated
  <2> SUFFICES ASSUME IInv PROVE LinkedIsAllocated
    OBVIOUS
  <2>1. PICK k, w, r \in Seq(Events) : Represents(k, w, r)
    BY DEF IInv
  <2>2. kept = k /\ pending = w /\ ready = r /\ Apart(k, w, r)
    BY <2>1, Reads DEF Represents
  <2>3. Queue!Held = ToSet(k) \cup ToSet(w) \cup ToSet(r)
    BY <2>2 DEF Queue!Held, Queue!ToSet, ToSet
  <2>4. QED
    BY <2>2, <2>3 DEF LinkedIsAllocated, Apart
<1>2. QED
  BY <1>1, InitIInv, StepIs, PTL DEF Spec

\* The pointers and the events behind them are the queue and the stack of
\* EventQueue: the tail is never left behind, and no link of one list is left
\* over in the other.
THEOREM PointersImplementQueue == Spec => ImplementsQueue
BY InitIInv, StepIs, PTL DEF Spec, ImplementsQueue, Queue!Spec

============================================================================
