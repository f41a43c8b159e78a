---------------------------- MODULE ListsProofs -----------------------------
(***************************************************************************)
(* What the operators of module Lists return, for lists of every length.   *)
(***************************************************************************)
EXTENDS Lists, FiniteSetTheorems, TLAPS, WellFoundedInduction

\* Places are counted by a natural number, and every place has a rank.
LEMMA PlacesFinite ==
  ASSUME NEW T, NEW s \in Seq(T), NEW S
  PROVE  /\ IsFiniteSet(Places(s, S))
         /\ Cardinality(Places(s, S)) \in Nat
         /\ \A i \in Nat : Rank(s, S, i) \in 0 .. Cardinality(Places(s, S))
<1>1. IsFiniteSet(1 .. Len(s))
  BY FS_Interval
<1>2. Places(s, S) \in SUBSET (1 .. Len(s))
  BY DEF Places
<1>3. IsFiniteSet(Places(s, S))
  BY <1>1, <1>2, FS_Subset
<1>4. Cardinality(Places(s, S)) \in Nat
  BY <1>3, FS_CardinalityType
<1>5. ASSUME NEW i \in Nat
      PROVE  Rank(s, S, i) \in 0 .. Cardinality(Places(s, S))
  <2> DEFINE B == {j \in Places(s, S) : j <= i}
  <2>1. B \in SUBSET Places(s, S)
    OBVIOUS
  <2>2. /\ IsFiniteSet(B)
        /\ Cardinality(B) <= Cardinality(Places(s, S))
    BY <1>3, <2>1, FS_Subset
  <2>3. Cardinality(B) \in Nat
    BY <2>2, FS_CardinalityType
  <2>4. QED
    BY <1>4, <2>2, <2>3 DEF Rank
<1>6. QED
  BY <1>3, <1>4, <1>5

\* A later place has a greater rank.
LEMMA RankIncreases ==
  ASSUME NEW T, NEW s \in Seq(T), NEW S,
         NEW i \in Places(s, S), NEW k \in Places(s, S), i < k
  PROVE  Rank(s, S, i) < Rank(s, S, k)
<1> DEFINE Upto(n) == {j \in Places(s, S) : j <= n}
<1>1. /\ i \in Nat /\ k \in Nat
      /\ Places(s, S) \subseteq Nat
  BY DEF Places
<1>2. IsFiniteSet(Upto(k))
  <2>1. Upto(k) \in SUBSET Places(s, S)
    OBVIOUS
  <2>2. QED
    BY <2>1, PlacesFinite, FS_Subset
<1>3. Upto(i) \in SUBSET Upto(k) /\ Upto(i) # Upto(k)
  <2>1. k \in Upto(k) /\ k \notin Upto(i)
    BY <1>1
  <2>2. Upto(i) \subseteq Upto(k)
    BY <1>1
  <2>3. QED
    BY <2>1, <2>2
<1>4. /\ Cardinality(Upto(i)) <= Cardinality(Upto(k))
      /\ Cardinality(Upto(i)) # Cardinality(Upto(k))
  BY <1>2, <1>3, FS_Subset
<1>5. Cardinality(Upto(i)) \in Nat /\ Cardinality(Upto(k)) \in Nat
  BY PlacesFinite, <1>1 DEF Rank
<1>6. QED
  BY <1>4, <1>5 DEF Rank

\* A place has a rank from 1 on.
LEMMA RankIsPositive ==
  ASSUME NEW T, NEW s \in Seq(T), NEW S, NEW i \in Places(s, S)
  PROVE  Rank(s, S, i) \in 1 .. Cardinality(Places(s, S))
<1> DEFINE B == {j \in Places(s, S) : j <= i}
<1>1. i \in Nat
  BY DEF Places
<1>2. Rank(s, S, i) \in 0 .. Cardinality(Places(s, S))
  BY <1>1, PlacesFinite
<1>3. i \in B /\ B \in SUBSET Places(s, S)
  BY <1>1
<1>4. IsFiniteSet(B)
  BY <1>3, PlacesFinite, FS_Subset
<1>5. Rank(s, S, i) # 0
  BY <1>3, <1>4, FS_EmptySet DEF Rank
<1>6. Cardinality(Places(s, S)) \in Nat
  BY PlacesFinite
<1>7. QED
  BY <1>2, <1>5, <1>6

\* No two places have the same.
LEMMA RankIsInjective ==
  ASSUME NEW T, NEW s \in Seq(T), NEW S,
         NEW i \in Places(s, S), NEW k \in Places(s, S),
         Rank(s, S, i) = Rank(s, S, k)
  PROVE  i = k
<1>1. i \in Nat /\ k \in Nat
  BY DEF Places
<1>2. Rank(s, S, i) \in Nat /\ Rank(s, S, k) \in Nat
  BY <1>1, PlacesFinite
<1>3. ~(i < k) /\ ~(k < i)
  BY <1>2, RankIncreases
<1>4. QED
  BY <1>1, <1>3

\* Every rank from 1 on is that of a place: the function that Only inverts is
\* onto.  It takes as many values as there are places, all of them in range.
LEMMA RankIsOnto ==
  ASSUME NEW T, NEW s \in Seq(T), NEW S,
         NEW k \in 1 .. Cardinality(Places(s, S))
  PROVE  \E i \in Places(s, S) : Rank(s, S, i) = k
<1> DEFINE P == Places(s, S)
           n == Cardinality(P)
           rank == [i \in P |-> Rank(s, S, i)]
<1>1. IsFiniteSet(P) /\ n \in Nat /\ P \subseteq Nat
  <2>1. P \subseteq Nat
    BY DEF Places
  <2>2. QED
    BY <2>1, PlacesFinite
<1>2. \A i \in P : Rank(s, S, i) \in 1 .. n
  BY RankIsPositive
<1>3. rank \in Injection(P, 1 .. n)
  <2>1. rank \in [P -> 1 .. n]
    BY <1>2
  <2>2. ASSUME NEW a \in P, NEW b \in P, rank[a] = rank[b]
        PROVE  a = b
    BY <2>2, RankIsInjective
  <2>3. QED
    BY <2>1, <2>2 DEF Injection, IsInjective
<1>4. IsFiniteSet(1 .. n) /\ Cardinality(1 .. n) = n
  BY <1>1, FS_Interval
<1>5. rank \in Surjection(P, 1 .. n)
  BY <1>3, <1>4, FS_Injection
<1>6. PICK i \in P : rank[i] = k
  BY <1>5 DEF Surjection
<1>7. QED
  BY <1>6

\* Only(s, S) takes its members from the places of S, in their order.
LEMMA OnlyPlaces ==
  ASSUME NEW T, NEW s \in Seq(T), NEW S
  PROVE  /\ Only(s, S) \in Seq(T \cap S)
         /\ Len(Only(s, S)) = Cardinality(Places(s, S))
         /\ \E at \in [1 .. Len(Only(s, S)) -> Places(s, S)] :
               /\ \A k \in 1 .. Len(Only(s, S)) : Only(s, S)[k] = s[at[k]]
               /\ \A i \in Places(s, S) : \E k \in 1 .. Len(Only(s, S)) : at[k] = i
               /\ \A k, l \in 1 .. Len(Only(s, S)) : k < l => at[k] < at[l]
<1> DEFINE P == Places(s, S)
           n == Cardinality(P)
           at == [k \in 1 .. n |-> CHOOSE i \in P : Rank(s, S, i) = k]
<1>1. n \in Nat
  BY PlacesFinite
<1>2. ASSUME NEW k \in 1 .. n
      PROVE  at[k] \in P /\ Rank(s, S, at[k]) = k
  BY RankIsOnto
<1>3. Only(s, S) = [k \in 1 .. n |-> s[at[k]]]
  BY DEF Only
<1>4. \A i \in P : i \in 1 .. Len(s) /\ s[i] \in T \cap S
  BY DEF Places
<1>5. Only(s, S) \in Seq(T \cap S) /\ Len(Only(s, S)) = n
  <2> HIDE DEF at
  <2>1. Only(s, S) \in [1 .. n -> T \cap S]
    BY <1>2, <1>3, <1>4
  <2>2. QED
    BY <1>1, <1>3, <2>1
<1>6. at \in [1 .. n -> P]
  BY <1>2
<1>7. \A i \in P : \E k \in 1 .. n : at[k] = i
  <2> TAKE i \in P
  <2>1. Rank(s, S, i) \in 1 .. n
    BY RankIsPositive
  <2>2. /\ at[Rank(s, S, i)] \in P
        /\ Rank(s, S, at[Rank(s, S, i)]) = Rank(s, S, i)
    BY <1>2, <2>1
  <2>3. at[Rank(s, S, i)] = i
    BY <2>1, <2>2, <1>1, RankIsInjective
  <2>4. QED
    BY <2>1, <2>3
<1>8. \A k, l \in 1 .. n : k < l => at[k] < at[l]
  <2> SUFFICES ASSUME NEW k \in 1 .. n, NEW l \in 1 .. n, k < l, ~(at[k] < at[l])
               PROVE  FALSE
    OBVIOUS
  <2>1. /\ at[k] \in P /\ Rank(s, S, at[k]) = k
        /\ at[l] \in P /\ Rank(s, S, at[l]) = l
    BY <1>2
  <2> HIDE DEF at
  <2>2. at[l] < at[k] \/ at[l] = at[k]
    BY <2>1, <1>4
  <2>3. CASE at[l] < at[k]
    BY <2>1, <2>3, RankIncreases
  <2>4. CASE at[l] = at[k]
    BY <2>1, <2>4
  <2>5. QED
    BY <2>2, <2>3, <2>4
<1>9. \A k \in 1 .. n : Only(s, S)[k] = s[at[k]]
  BY <1>3
<1>10. \E f \in [1 .. n -> P] :
          /\ \A k \in 1 .. n : Only(s, S)[k] = s[f[k]]
          /\ \A i \in P : \E k \in 1 .. n : f[k] = i
          /\ \A k, l \in 1 .. n : k < l => f[k] < f[l]
  <2> HIDE DEF at, n, P
  <2> WITNESS at \in [1 .. n -> P]
  <2> QED
    BY <1>7, <1>8, <1>9
<1>11. QED
  BY <1>5, <1>10

\* It links exactly the members of S that are in the list.
LEMMA OnlyElems ==
  ASSUME NEW T, NEW s \in Seq(T), NEW S
  PROVE  ToSet(Only(s, S)) = ToSet(s) \cap S
<1> DEFINE r == Only(s, S)
<1>1. PICK at \in [1 .. Len(r) -> Places(s, S)] :
         /\ \A k \in 1 .. Len(r) : r[k] = s[at[k]]
         /\ \A i \in Places(s, S) : \E k \in 1 .. Len(r) : at[k] = i
         /\ \A k, l \in 1 .. Len(r) : k < l => at[k] < at[l]
  BY OnlyPlaces
<1> HIDE DEF r
<1>2. ToSet(r) \subseteq ToSet(s) \cap S
  BY <1>1 DEF ToSet, Places
<1>3. ASSUME NEW x \in ToSet(s) \cap S
      PROVE  x \in ToSet(r)
  <2>1. PICK i \in Places(s, S) : s[i] = x
    BY DEF ToSet, Places
  <2>2. PICK k \in 1 .. Len(r) : at[k] = i
    BY <1>1, <2>1
  <2>3. r[k] = x
    BY <1>1, <2>1, <2>2
  <2>4. QED
    BY <2>3 DEF ToSet
<1>4. QED
  BY <1>2, <1>3 DEF r

\* What is linked once stays linked once.
LEMMA OnlyNoRepeats ==
  ASSUME NEW T, NEW s \in Seq(T), NEW S, IsInjective(s)
  PROVE  IsInjective(Only(s, S))
<1> DEFINE r == Only(s, S)
<1>1. PICK at \in [1 .. Len(r) -> Places(s, S)] :
         /\ \A k \in 1 .. Len(r) : r[k] = s[at[k]]
         /\ \A k, l \in 1 .. Len(r) : k < l => at[k] < at[l]
  BY OnlyPlaces
<1>2. Len(r) \in Nat
  BY OnlyPlaces
<1> HIDE DEF r
<1>3. SUFFICES ASSUME NEW k \in 1 .. Len(r), NEW l \in 1 .. Len(r), r[k] = r[l]
               PROVE  k = l
  BY DEF IsInjective, r
<1>4. /\ at[k] \in 1 .. Len(s) /\ at[l] \in 1 .. Len(s)
      /\ s[at[k]] = s[at[l]]
  BY <1>1, <1>3 DEF Places
<1>5. at[k] = at[l]
  BY <1>4 DEF IsInjective
<1>6. CASE k < l
  BY <1>1, <1>4, <1>5, <1>6
<1>7. CASE l < k
  BY <1>1, <1>4, <1>5, <1>7
<1>8. QED
  BY <1>2, <1>6, <1>7

\* A list of which every member is selected stays what it is.
LEMMA OnlyAll ==
  ASSUME NEW T, NEW s \in Seq(T), NEW S, ToSet(s) \subseteq S
  PROVE  Only(s, S) = s
<1> DEFINE n == Len(s)
<1>1. n \in Nat /\ s \in [1 .. n -> T]
  OBVIOUS
<1>2. Places(s, S) = 1 .. n
  BY <1>1 DEF Places, ToSet
<1>3. \A i \in 0 .. n : Cardinality(1 .. i) = i
  BY <1>1, FS_Interval
<1>4. Cardinality(Places(s, S)) = n
  BY <1>1, <1>2, <1>3
<1>5. ASSUME NEW i \in 1 .. n
      PROVE  Rank(s, S, i) = i
  <2>1. {j \in Places(s, S) : j <= i} = 1 .. i
    BY <1>1, <1>2
  <2>2. Rank(s, S, i) = Cardinality(1 .. i)
    BY <2>1 DEF Rank
  <2>3. QED
    BY <1>1, <1>3, <2>2
<1> DEFINE at(k) == CHOOSE i \in Places(s, S) : Rank(s, S, i) = k
<1>6. \A k \in 1 .. n : at(k) = k
  BY <1>2, <1>5
<1>7. Only(s, S) = [k \in 1 .. Cardinality(Places(s, S)) |-> s[at(k)]]
  BY DEF Only
<1> HIDE DEF at
<1>8. Only(s, S) = [k \in 1 .. n |-> s[at(k)]]
  BY <1>4, <1>7
<1>9. Only(s, S) = [k \in 1 .. n |-> s[k]]
  BY <1>6, <1>8
<1>10. QED
  BY <1>1, <1>9

\* Lists without a member in common are joined without repetition.
LEMMA JoinElems ==
  ASSUME NEW T, NEW s \in Seq(T), NEW t \in Seq(T)
  PROVE  /\ s \o t \in Seq(T)
         /\ ToSet(s \o t) = ToSet(s) \cup ToSet(t)
         /\ IsInjective(s) /\ IsInjective(t) /\ ToSet(s) \cap ToSet(t) = {}
               => IsInjective(s \o t)
<1> DEFINE u == s \o t
<1>1. /\ u \in Seq(T)
      /\ Len(u) = Len(s) + Len(t)
      /\ \A i \in 1 .. Len(s) : u[i] = s[i]
      /\ \A i \in 1 .. Len(t) : u[i + Len(s)] = t[i]
      /\ DOMAIN u = 1 .. Len(u) /\ DOMAIN s = 1 .. Len(s) /\ DOMAIN t = 1 .. Len(t)
  OBVIOUS
<1>2. Len(s) \in Nat /\ Len(t) \in Nat
  OBVIOUS
<1> HIDE DEF u
<1>3. ToSet(u) \subseteq ToSet(s) \cup ToSet(t)
  <2>1. ASSUME NEW i \in 1 .. Len(u)
        PROVE  u[i] \in ToSet(s) \cup ToSet(t)
    <3>1. CASE i \in 1 .. Len(s)
      BY <1>1, <3>1 DEF ToSet
    <3>2. CASE i \notin 1 .. Len(s)
      <4>1. i - Len(s) \in 1 .. Len(t) /\ (i - Len(s)) + Len(s) = i
        BY <1>1, <1>2, <3>2
      <4>2. QED
        BY <1>1, <4>1 DEF ToSet
    <3>3. QED
      BY <3>1, <3>2
  <2>2. QED
    BY <1>1, <2>1 DEF ToSet
<1>4. ASSUME NEW i \in 1 .. Len(s)
      PROVE  s[i] \in ToSet(u)
  BY <1>1, <1>2 DEF ToSet
<1>5. ASSUME NEW i \in 1 .. Len(t)
      PROVE  t[i] \in ToSet(u)
  <2>1. i + Len(s) \in 1 .. Len(u) /\ u[i + Len(s)] = t[i]
    BY <1>1, <1>2
  <2>2. QED
    BY <2>1 DEF ToSet
<1>6. ToSet(u) = ToSet(s) \cup ToSet(t)
  BY <1>1, <1>3, <1>4, <1>5 DEF ToSet
<1>7. ASSUME IsInjective(s), IsInjective(t), ToSet(s) \cap ToSet(t) = {},
             NEW m \in 1 .. Len(u), NEW n \in 1 .. Len(u), u[m] = u[n]
      PROVE  m = n
  <2>1. CASE m <= Len(s) /\ n <= Len(s)
    BY <1>1, <1>2, <1>7, <2>1 DEF IsInjective
  <2>2. CASE m > Len(s) /\ n > Len(s)
    <3>1. /\ m - Len(s) \in 1 .. Len(t) /\ n - Len(s) \in 1 .. Len(t)
          /\ t[m - Len(s)] = t[n - Len(s)]
      <4>1. /\ m - Len(s) \in 1 .. Len(t) /\ (m - Len(s)) + Len(s) = m
            /\ n - Len(s) \in 1 .. Len(t) /\ (n - Len(s)) + Len(s) = n
        BY <1>1, <1>2, <2>2
      <4>2. QED
        BY <1>1, <1>7, <4>1
    <3>2. m - Len(s) = n - Len(s)
      BY <1>1, <1>7, <3>1 DEF IsInjective
    <3>3. QED
      BY <1>2, <3>2
  <2>3. CASE m <= Len(s) /\ n > Len(s)
    <3>1. m \in 1 .. Len(s) /\ n - Len(s) \in 1 .. Len(t) /\ (n - Len(s)) + Len(s) = n
      BY <1>1, <1>2, <2>3
    <3>2. QED
      BY <1>1, <1>7, <3>1 DEF ToSet
  <2>4. CASE m > Len(s) /\ n <= Len(s)
    <3>1. n \in 1 .. Len(s) /\ m - Len(s) \in 1 .. Len(t) /\ (m - Len(s)) + Len(s) = m
      BY <1>1, <1>2, <2>4
    <3>2. QED
      BY <1>1, <1>7, <3>1 DEF ToSet
  <2>5. QED
    BY <1>1, <1>2, <2>1, <2>2, <2>3, <2>4
<1>8. QED
  BY <1>1, <1>6, <1>7 DEF IsInjective, u

\* Append, Head and Tail.
LEMMA AppendElems ==
  ASSUME NEW T, NEW s \in Seq(T), NEW x \in T
  PROVE  /\ Append(s, x) \in Seq(T)
         /\ ToSet(Append(s, x)) = ToSet(s) \cup {x}
         /\ IsInjective(s) /\ x \notin ToSet(s) => IsInjective(Append(s, x))
<1> DEFINE u == Append(s, x)
<1>1. /\ u \in Seq(T)
      /\ Len(u) = Len(s) + 1
      /\ \A i \in 1 .. Len(s) : u[i] = s[i]
      /\ u[Len(s) + 1] = x
      /\ Len(s) \in Nat
      /\ DOMAIN u = 1 .. Len(u) /\ DOMAIN s = 1 .. Len(s)
  OBVIOUS
<1> HIDE DEF u
<1>2. ToSet(u) = ToSet(s) \cup {x}
  <2>1. \A i \in 1 .. Len(u) : i \in 1 .. Len(s) \/ i = Len(s) + 1
    BY <1>1
  <2>2. 1 .. Len(s) \subseteq 1 .. Len(u) /\ Len(s) + 1 \in 1 .. Len(u)
    BY <1>1
  <2>3. QED
    BY <1>1, <2>1, <2>2 DEF ToSet
<1>3. ASSUME IsInjective(s), x \notin ToSet(s)
      PROVE  IsInjective(u)
  <2>1. \A i \in 1 .. Len(s) : s[i] # x
    BY <1>1, <1>3 DEF ToSet
  <2>2. QED
    BY <1>1, <1>3, <2>1 DEF IsInjective
<1>4. QED
  BY <1>1, <1>2, <1>3 DEF u

\* A list is what it begins with and the rest.
LEMMA HeadTailElems ==
  ASSUME NEW T, NEW s \in Seq(T), s # <<>>
  PROVE  /\ Head(s) \in T /\ Tail(s) \in Seq(T)
         /\ ToSet(s) = {Head(s)} \cup ToSet(Tail(s))
         /\ IsInjective(s) => Head(s) \notin ToSet(Tail(s)) /\ IsInjective(Tail(s))
<1> DEFINE h == Head(s)
           t == Tail(s)
<1>1. /\ h \in T /\ t \in Seq(T)
      /\ Len(s) \in Nat \ {0} /\ Len(t) = Len(s) - 1
      /\ h = s[1]
      /\ \A i \in 1 .. Len(t) : t[i] = s[i + 1]
      /\ DOMAIN s = 1 .. Len(s) /\ DOMAIN t = 1 .. Len(t)
  OBVIOUS
<1> HIDE DEF h, t
<1>2. ToSet(s) = {h} \cup ToSet(t)
  <2>1. ASSUME NEW i \in 1 .. Len(s)
        PROVE  s[i] \in {h} \cup ToSet(t)
    <3>1. CASE i = 1
      BY <1>1, <3>1
    <3>2. CASE i # 1
      <4>1. i - 1 \in 1 .. Len(t) /\ t[i - 1] = s[i]
        BY <1>1, <3>2
      <4>2. QED
        BY <1>1, <4>1 DEF ToSet
    <3>3. QED
      BY <3>1, <3>2
  <2>2. ASSUME NEW i \in 1 .. Len(t)
        PROVE  t[i] \in ToSet(s)
    <3>1. i + 1 \in 1 .. Len(s)
      BY <1>1
    <3>2. QED
      BY <1>1, <3>1 DEF ToSet
  <2>3. h \in ToSet(s)
    BY <1>1 DEF ToSet
  <2>4. QED
    BY <1>1, <2>1, <2>2, <2>3 DEF ToSet
<1>3. ASSUME IsInjective(s)
      PROVE  h \notin ToSet(t) /\ IsInjective(t)
  <2>1. \A i \in 1 .. Len(t) : i + 1 \in 1 .. Len(s) /\ i + 1 # 1
    BY <1>1
  <2>2. 1 \in 1 .. Len(s)
    BY <1>1
  <2>3. h \notin ToSet(t)
    BY <1>1, <1>3, <2>1, <2>2 DEF ToSet, IsInjective
  <2>4. ASSUME NEW m \in 1 .. Len(t), NEW n \in 1 .. Len(t), t[m] = t[n]
        PROVE  m = n
    <3>1. m + 1 = n + 1
      BY <1>1, <1>3, <2>1, <2>4 DEF IsInjective
    <3>2. QED
      BY <1>1, <3>1
  <2>5. QED
    BY <2>3, <2>4 DEF IsInjective
<1>4. QED
  BY <1>1, <1>2, <1>3 DEF h, t

\* A list walked from its end.
LEMMA ReverseElems ==
  ASSUME NEW T, NEW s \in Seq(T)
  PROVE  /\ Reverse(s) \in Seq(T)
         /\ ToSet(Reverse(s)) = ToSet(s)
         /\ IsInjective(s) => IsInjective(Reverse(s))
<1> DEFINE u == Reverse(s)
           from(i) == (Len(s) - i) + 1
<1>1. /\ Len(s) \in Nat /\ DOMAIN s = 1 .. Len(s) /\ DOMAIN u = 1 .. Len(s)
      /\ \A i \in 1 .. Len(s) : from(i) \in 1 .. Len(s) /\ u[i] = s[from(i)]
      /\ \A i \in 1 .. Len(s) : from(from(i)) = i
  BY DEF Reverse
<1>2. u \in Seq(T)
  <2>1. u \in [1 .. Len(s) -> T]
    BY <1>1 DEF Reverse
  <2>2. QED
    BY <1>1, <2>1
<1>3. \A i, j \in 1 .. Len(s) : from(i) = from(j) => i = j
  BY <1>1
<1> HIDE DEF u, from
<1>4. ToSet(u) = ToSet(s)
  BY <1>1 DEF ToSet
<1>5. IsInjective(s) => IsInjective(u)
  BY <1>1, <1>3 DEF IsInjective
<1>6. QED
  BY <1>2, <1>4, <1>5 DEF u

\* The list of no member.
LEMMA EmptyElems ==
  ASSUME NEW T
  PROVE  <<>> \in Seq(T) /\ ToSet(<<>>) = {} /\ IsInjective(<<>>)
<1>1. <<>> \in Seq(T)
  OBVIOUS
<1>2. QED
  BY <1>1 DEF ToSet, IsInjective

\* The list of one member.
LEMMA SingleElems ==
  ASSUME NEW T, NEW x \in T
  PROVE  <<x>> \in Seq(T) /\ ToSet(<<x>>) = {x} /\ IsInjective(<<x>>)
<1> DEFINE u == <<x>>
<1>1. u \in Seq(T) /\ DOMAIN u = {1} /\ u[1] = x
  OBVIOUS
<1> HIDE DEF u
<1>2. ToSet(u) = {x} /\ IsInjective(u)
  BY <1>1 DEF ToSet, IsInjective
<1>3. QED
  BY <1>1, <1>2 DEF u

\* The list of two members.
LEMMA PairElems ==
  ASSUME NEW T, NEW x \in T, NEW y \in T, x # y
  PROVE  <<x, y>> \in Seq(T) /\ ToSet(<<x, y>>) = {x, y} /\ IsInjective(<<x, y>>)
<1> DEFINE u == <<x, y>>
<1>1. u \in Seq(T) /\ DOMAIN u = 1 .. 2 /\ u[1] = x /\ u[2] = y
  OBVIOUS
<1>2. \A i \in 1 .. 2 : i = 1 \/ i = 2
  OBVIOUS
<1> HIDE DEF u
<1>3. ToSet(u) = {x, y} /\ IsInjective(u)
  BY <1>1, <1>2 DEF ToSet, IsInjective
<1>4. QED
  BY <1>1, <1>3 DEF u

\* The places of a joined list.
LEMMA JoinPlaces ==
  ASSUME NEW T, NEW s \in Seq(T), NEW t \in Seq(T)
  PROVE  /\ s \o t \in Seq(T)
         /\ Len(s) \in Nat /\ Len(t) \in Nat /\ Len(s \o t) = Len(s) + Len(t)
         /\ \A i \in 1 .. Len(s) : (s \o t)[i] = s[i]
         /\ \A i \in Len(s) + 1 .. Len(s \o t) : (s \o t)[i] = t[i - Len(s)]
OBVIOUS

\* It does not matter in which order lists are joined.
LEMMA JoinAssociates ==
  ASSUME NEW T, NEW s \in Seq(T), NEW t \in Seq(T), NEW u \in Seq(T)
  PROVE  (s \o t) \o u = s \o (t \o u)
<1> DEFINE l == (s \o t) \o u
           r == s \o (t \o u)
<1>1. /\ s \o t \in Seq(T) /\ t \o u \in Seq(T)
      /\ Len(s) \in Nat /\ Len(t) \in Nat /\ Len(u) \in Nat
      /\ Len(s \o t) = Len(s) + Len(t) /\ Len(t \o u) = Len(t) + Len(u)
  OBVIOUS
<1>2. /\ l \in Seq(T) /\ r \in Seq(T)
      /\ Len(l) = Len(s) + Len(t) + Len(u) /\ Len(r) = Len(s) + Len(t) + Len(u)
  BY <1>1
<1>3. ASSUME NEW i \in 1 .. Len(l)
      PROVE  l[i] = r[i]
  <2>1. CASE i <= Len(s)
    <3>1. l[i] = (s \o t)[i] /\ (s \o t)[i] = s[i] /\ r[i] = s[i]
      BY <1>1, <1>2, <2>1
    <3>2. QED
      BY <3>1
  <2>2. CASE i > Len(s) /\ i <= Len(s) + Len(t)
    <3>1. l[i] = (s \o t)[i] /\ (s \o t)[i] = t[i - Len(s)]
      BY <1>1, <1>2, <2>2
    <3>2. r[i] = (t \o u)[i - Len(s)] /\ (t \o u)[i - Len(s)] = t[i - Len(s)]
      BY <1>1, <1>2, <2>2
    <3>3. QED
      BY <3>1, <3>2
  <2>3. CASE i > Len(s) + Len(t)
    <3>1. l[i] = u[i - (Len(s) + Len(t))]
      BY <1>1, <1>2, <2>3
    <3>2. r[i] = (t \o u)[i - Len(s)]
      BY <1>1, <1>2, <2>3
    <3>3. (t \o u)[i - Len(s)] = u[(i - Len(s)) - Len(t)]
      BY <1>1, <1>2, <2>3
    <3>4. (i - Len(s)) - Len(t) = i - (Len(s) + Len(t))
      BY <1>1, <1>2
    <3>5. QED
      BY <3>1, <3>2, <3>3, <3>4
  <2>4. QED
    BY <1>1, <1>2, <2>1, <2>2, <2>3
<1> HIDE DEF l, r
<1>4. l = r
  BY <1>2, <1>3
<1>5. QED
  BY <1>4 DEF l, r

\* The beginning of a list that is joined to another one,
LEMMA JoinBegins ==
  ASSUME NEW T, NEW s \in Seq(T), NEW t \in Seq(T), s # <<>>
  PROVE  /\ s \o t # <<>> /\ Head(s \o t) = Head(s)
         /\ Tail(s \o t) = Tail(s) \o t
<1> DEFINE l == Tail(s \o t)
           r == Tail(s) \o t
<1>1. /\ Len(s) \in Nat \ {0} /\ Len(t) \in Nat
      /\ s \o t \in Seq(T) /\ Len(s \o t) = Len(s) + Len(t)
      /\ Tail(s) \in Seq(T) /\ Len(Tail(s)) = Len(s) - 1
      /\ Head(s \o t) = (s \o t)[1] /\ (s \o t)[1] = s[1] /\ Head(s) = s[1]
  OBVIOUS
<1>2. s \o t # <<>>
  BY <1>1
<1>3. /\ l \in Seq(T) /\ r \in Seq(T)
      /\ Len(l) = Len(s) + Len(t) - 1 /\ Len(r) = Len(s) + Len(t) - 1
  BY <1>1, <1>2
<1>4. ASSUME NEW i \in 1 .. Len(l)
      PROVE  l[i] = r[i]
  <2>1. l[i] = (s \o t)[i + 1]
    BY <1>1, <1>2, <1>3
  <2>2. CASE i < Len(s)
    <3>1. (s \o t)[i + 1] = s[i + 1]
      BY <1>1, <2>2
    <3>2. r[i] = Tail(s)[i] /\ Tail(s)[i] = s[i + 1]
      BY <1>1, <2>2
    <3>3. QED
      BY <2>1, <3>1, <3>2
  <2>3. CASE i >= Len(s)
    <3>1. (s \o t)[i + 1] = t[(i + 1) - Len(s)]
      BY <1>1, <1>3, <2>3
    <3>2. r[i] = t[i - (Len(s) - 1)]
      BY <1>1, <1>3, <2>3
    <3>3. (i + 1) - Len(s) = i - (Len(s) - 1)
      BY <1>1
    <3>4. QED
      BY <2>1, <3>1, <3>2, <3>3
  <2>4. QED
    BY <1>1, <2>2, <2>3
<1> HIDE DEF l, r
<1>5. l = r
  BY <1>3, <1>4
<1>6. QED
  BY <1>1, <1>2, <1>5 DEF l, r

\* and two lists of which the first takes the head of the second.
LEMMA MoveHead ==
  ASSUME NEW T, NEW s \in Seq(T), NEW t \in Seq(T), t # <<>>
  PROVE  Append(s, Head(t)) \o Tail(t) = s \o t
<1> DEFINE l == Append(s, Head(t)) \o Tail(t)
           r == s \o t
<1>1. /\ Len(s) \in Nat /\ Len(t) \in Nat \ {0}
      /\ Head(t) = t[1] /\ Head(t) \in T
      /\ Tail(t) \in Seq(T) /\ Len(Tail(t)) = Len(t) - 1
      /\ Append(s, Head(t)) \in Seq(T) /\ Len(Append(s, Head(t))) = Len(s) + 1
  OBVIOUS
<1>2. /\ l \in Seq(T) /\ r \in Seq(T)
      /\ Len(l) = Len(s) + Len(t) /\ Len(r) = Len(s) + Len(t)
  BY <1>1
<1>3. ASSUME NEW i \in 1 .. Len(l)
      PROVE  l[i] = r[i]
  <2>1. CASE i <= Len(s)
    <3>1. l[i] = Append(s, Head(t))[i] /\ Append(s, Head(t))[i] = s[i] /\ r[i] = s[i]
      BY <1>1, <1>2, <2>1
    <3>2. QED
      BY <3>1
  <2>2. CASE i = Len(s) + 1
    <3>1. l[i] = Append(s, Head(t))[i] /\ Append(s, Head(t))[i] = Head(t)
      BY <1>1, <1>2, <2>2
    <3>2. r[i] = t[i - Len(s)] /\ i - Len(s) = 1
      BY <1>1, <1>2, <2>2
    <3>3. QED
      BY <1>1, <3>1, <3>2
  <2>3. CASE i > Len(s) + 1
    <3>1. l[i] = Tail(t)[i - (Len(s) + 1)]
      BY <1>1, <1>2, <2>3
    <3>2. Tail(t)[i - (Len(s) + 1)] = t[(i - (Len(s) + 1)) + 1]
      BY <1>1, <1>2, <2>3
    <3>3. r[i] = t[i - Len(s)] /\ (i - (Len(s) + 1)) + 1 = i - Len(s)
      BY <1>1, <1>2, <2>3
    <3>4. QED
      BY <3>1, <3>2, <3>3
  <2>4. QED
    BY <1>1, <2>1, <2>2, <2>3
<1> HIDE DEF l, r
<1>4. l = r
  BY <1>2, <1>3
<1>5. QED
  BY <1>4 DEF l, r

\* What a concatenation with one event does.
LEMMA PrependElems ==
  ASSUME NEW T, NEW s \in Seq(T), NEW x \in T
  PROVE  /\ <<x>> \o s \in Seq(T)
         /\ ToSet(<<x>> \o s) = ToSet(s) \cup {x}
         /\ IsInjective(s) /\ x \notin ToSet(s) => IsInjective(<<x>> \o s)
         /\ Head(<<x>> \o s) = x /\ Tail(<<x>> \o s) = s
<1> DEFINE h == <<x>>
<1>1. h \in Seq(T) /\ ToSet(h) = {x} /\ IsInjective(h)
  BY SingleElems
<1>2. h # <<>> /\ Head(h) = x /\ Tail(h) = <<>> /\ <<>> \o s = s
  OBVIOUS
<1> HIDE DEF h
<1>3. x \notin ToSet(s) => {x} \cap ToSet(s) = {}
  OBVIOUS
<1>4. /\ h \o s \in Seq(T)
      /\ ToSet(h \o s) = {x} \cup ToSet(s)
      /\ IsInjective(s) /\ x \notin ToSet(s) => IsInjective(h \o s)
  BY <1>1, <1>3, JoinElems
<1>5. Head(h \o s) = Head(h) /\ Tail(h \o s) = Tail(h) \o s
  BY <1>1, <1>2, JoinBegins
<1>6. QED
  BY <1>2, <1>4, <1>5 DEF h

\* Only the empty list has no length.
LEMMA EmptyLen ==
  ASSUME NEW T, NEW s \in Seq(T)
  PROVE  Len(s) \in Nat /\ (s = <<>> <=> Len(s) = 0)
OBVIOUS

\* A set of natural numbers has a least member: a proof by induction looks at
\* the least number for which something fails.
LEMMA LeastNumber ==
  ASSUME NEW T, T \subseteq Nat, T # {}
  PROVE  \E x \in T : \A y \in T : x <= y
<1>1. IsWellFoundedOn(OpToRel(<, Nat), Nat)
  BY NatLessThanWellFounded
<1>2. PICK x \in T : \A y \in T : ~(<<y, x>> \in OpToRel(<, Nat))
  BY <1>1, WFMin
<1>3. \A y \in T : <<y, x>> \in OpToRel(<, Nat) <=> y < x
  BY DEF OpToRel
<1>4. \A y \in T : ~(y < x)
  BY <1>2, <1>3
<1>5. x \in Nat /\ \A y \in T : y \in Nat
  OBVIOUS
<1>6. \A y \in T : x <= y
  BY ONLY <1>4, <1>5
<1>7. QED
  BY <1>6

-----------------------------------------------------------------------------
(* Counting.                                                               *)

\* Sets whose members correspond to each other have the same size.
LEMMA SameSize ==
  ASSUME NEW S, NEW T, IsFiniteSet(S), NEW f \in [S -> T],
         \A x, y \in S : f[x] = f[y] => x = y,
         \A t \in T : \E x \in S : f[x] = t
  PROVE  IsFiniteSet(T) /\ Cardinality(T) = Cardinality(S)
<1>1. f \in Bijection(S, T)
  BY DEF Bijection, Injection, Surjection, IsInjective
<1>2. QED
  BY <1>1, FS_Bijection DEF ExistsBijection

\* What is in neither of two sets counts for itself.
LEMMA DisjointSize ==
  ASSUME NEW S, NEW T, IsFiniteSet(S), IsFiniteSet(T), S \cap T = {}
  PROVE  /\ IsFiniteSet(S \cup T)
         /\ Cardinality(S \cup T) = Cardinality(S) + Cardinality(T)
         /\ Cardinality(S) \in Nat /\ Cardinality(T) \in Nat
<1>1. Cardinality(S \cap T) = 0
  BY FS_EmptySet
<1>2. Cardinality(S) \in Nat /\ Cardinality(T) \in Nat
  BY FS_CardinalityType
<1>3. /\ IsFiniteSet(S \cup T)
      /\ Cardinality(S \cup T) = Cardinality(S) + Cardinality(T) - Cardinality(S \cap T)
  BY FS_Union
<1>4. QED
  BY <1>1, <1>2, <1>3

\* How often something occurs in a list is a number; it is 0 for what is not there.
LEMMA OccurrencesIs ==
  ASSUME NEW T, NEW s \in Seq(T), NEW x
  PROVE  /\ Occurrences(s, x) \in Nat
         /\ Occurrences(s, x) = 0 <=> x \notin ToSet(s)
<1>1. IsFiniteSet(Places(s, {x})) /\ Cardinality(Places(s, {x})) \in Nat
  BY PlacesFinite
<1>2. Occurrences(s, x) = 0 <=> Places(s, {x}) = {}
  BY <1>1, FS_EmptySet DEF Occurrences
<1>3. Places(s, {x}) = {} <=> x \notin ToSet(s)
  BY DEF Places, ToSet
<1>4. QED
  BY <1>1, <1>2, <1>3 DEF Occurrences

\* Nothing occurs in the empty list.
LEMMA OccurrencesNone ==
  ASSUME NEW x
  PROVE  Occurrences(<<>>, x) = 0
<1>1. Places(<<>>, {x}) = {}
  BY DEF Places
<1>2. QED
  BY <1>1, FS_EmptySet DEF Occurrences

\* In a list of one thing that one occurs once.
LEMMA OccurrencesOne ==
  ASSUME NEW x, NEW y
  PROVE  Occurrences(<<y>>, x) = IF x = y THEN 1 ELSE 0
<1>1. CASE x = y
  <2>1. Places(<<y>>, {x}) = {1}
    BY <1>1 DEF Places
  <2>2. QED
    BY <1>1, <2>1, FS_Singleton DEF Occurrences
<1>2. CASE x # y
  <2>1. Places(<<y>>, {x}) = {}
    BY <1>2 DEF Places
  <2>2. QED
    BY <1>2, <2>1, FS_EmptySet DEF Occurrences
<1>3. QED
  BY <1>1, <1>2

\* Joining lists adds up what occurs in them.
LEMMA OccurrencesJoin ==
  ASSUME NEW T, NEW s \in Seq(T), NEW t \in Seq(T), NEW x
  PROVE  Occurrences(s \o t, x) = Occurrences(s, x) + Occurrences(t, x)
<1> DEFINE P == Places(s, {x})
           Q == Places(t, {x})
           R == {i \in Len(s) + 1 .. Len(s) + Len(t) : i - Len(s) \in Q}
           shift == [i \in Q |-> i + Len(s)]
<1>1. /\ Len(s) \in Nat /\ Len(t) \in Nat /\ Len(s \o t) = Len(s) + Len(t)
      /\ \A i \in 1 .. Len(s) : (s \o t)[i] = s[i]
      /\ \A i \in Len(s) + 1 .. Len(s \o t) : (s \o t)[i] = t[i - Len(s)]
  BY JoinPlaces
<1>2. IsFiniteSet(P) /\ IsFiniteSet(Q)
  BY PlacesFinite
<1>3. IsFiniteSet(R) /\ Cardinality(R) = Cardinality(Q)
  <2>1. Q \subseteq 1 .. Len(t)
    BY DEF Places
  <2>2. shift \in [Q -> R]
    <3>1. ASSUME NEW i \in Q PROVE i + Len(s) \in R
      <4>1. i \in 1 .. Len(t)
        BY <2>1
      <4>2. /\ i + Len(s) \in Len(s) + 1 .. Len(s) + Len(t)
            /\ (i + Len(s)) - Len(s) = i
        BY <1>1, <4>1
      <4>3. QED
        BY <4>2
    <3>2. QED
      BY <3>1
  <2>3. \A i, j \in Q : shift[i] = shift[j] => i = j
    BY <1>1, <2>1
  <2>4. \A k \in R : \E i \in Q : shift[i] = k
    <3>1. ASSUME NEW k \in R PROVE \E i \in Q : shift[i] = k
      <4>1. k - Len(s) \in Q /\ shift[k - Len(s)] = k
        BY <1>1
      <4>2. QED
        BY <4>1
    <3>2. QED
      BY <3>1
  <2> HIDE DEF Q, R, shift
  <2>5. QED
    BY <1>2, <2>2, <2>3, <2>4, SameSize
<1>4. P \cap R = {}
  BY <1>1 DEF Places
<1>5. Places(s \o t, {x}) = P \cup R
  <2>1. ASSUME NEW i \in 1 .. Len(s) PROVE i \in Places(s \o t, {x}) <=> i \in P \cup R
    BY <1>1, <2>1 DEF Places
  <2>2. ASSUME NEW i \in Len(s) + 1 .. Len(s \o t) PROVE i \in Places(s \o t, {x}) <=> i \in P \cup R
    <3>1. i - Len(s) \in 1 .. Len(t) /\ i \notin 1 .. Len(s) /\ i \in 1 .. Len(s \o t)
      BY <1>1
    <3>2. (s \o t)[i] = t[i - Len(s)]
      BY <1>1
    <3>3. QED
      BY <1>1, <3>1, <3>2 DEF Places
  <2>3. \A i : i \in Places(s \o t, {x}) \/ i \in P \cup R => i \in 1 .. Len(s \o t)
    BY <1>1 DEF Places
  <2>4. \A i \in 1 .. Len(s \o t) : i \in 1 .. Len(s) \/ i \in Len(s) + 1 .. Len(s \o t)
    BY <1>1
  <2>5. QED
    BY <2>1, <2>2, <2>3, <2>4
<1>6. QED
  BY <1>2, <1>3, <1>4, <1>5, DisjointSize DEF Occurrences

\* Another thing at one place of a list.
LEMMA OccurrencesPut ==
  ASSUME NEW T, NEW s \in Seq(T), NEW t \in Seq(T), Len(t) = Len(s), NEW p \in 1 .. Len(s),
         \A i \in 1 .. Len(s) : i # p => t[i] = s[i], NEW x
  PROVE  Occurrences(t, x) + Occurrences(<<s[p]>>, x) = Occurrences(s, x) + Occurrences(<<t[p]>>, x)
<1> DEFINE R == Places(s, {x}) \ {p}
<1>1. IsFiniteSet(Places(s, {x})) /\ IsFiniteSet(Places(t, {x}))
  BY PlacesFinite
<1>2. R = Places(t, {x}) \ {p}
  BY DEF Places
<1>3. IsFiniteSet(R) /\ Cardinality(R) \in Nat
  BY <1>1, FS_Subset, FS_CardinalityType
<1>4. ASSUME NEW q \in {s, t}
      PROVE  Cardinality(Places(q, {x})) = Cardinality(R) + Occurrences(<<q[p]>>, x)
  <2>1. Occurrences(<<q[p]>>, x) = IF x = q[p] THEN 1 ELSE 0
    BY OccurrencesOne
  <2>2. p \in Places(q, {x}) <=> q[p] = x
    BY <1>4 DEF Places
  <2>3. CASE q[p] = x
    <3>1. Places(q, {x}) = R \cup {p} /\ p \notin R
      BY <1>2, <1>4, <2>2, <2>3
    <3>2. Cardinality(R \cup {p}) = Cardinality(R) + 1
      BY <1>3, <3>1, FS_AddElement
    <3>3. QED
      BY <2>1, <2>3, <3>1, <3>2
  <2>4. CASE q[p] # x
    <3>1. Places(q, {x}) = R
      BY <1>2, <1>4, <2>2, <2>4
    <3>2. Occurrences(<<q[p]>>, x) = 0 /\ Cardinality(Places(q, {x})) = Cardinality(R)
      BY <2>1, <2>4, <3>1
    <3> DEFINE r == Cardinality(R)
    <3>3. r \in Nat /\ Cardinality(Places(q, {x})) = r
      BY <1>3, <3>2
    <3> HIDE DEF r
    <3>4. Cardinality(Places(q, {x})) = r + Occurrences(<<q[p]>>, x)
      BY <3>2, <3>3
    <3>5. QED
      BY <3>4 DEF r
  <2>5. QED
    BY <2>3, <2>4
<1>5. /\ Occurrences(s, x) = Cardinality(R) + Occurrences(<<s[p]>>, x)
      /\ Occurrences(t, x) = Cardinality(R) + Occurrences(<<t[p]>>, x)
  BY <1>4 DEF Occurrences
<1>6. Occurrences(<<s[p]>>, x) \in Nat /\ Occurrences(<<t[p]>>, x) \in Nat
  BY OccurrencesOne
<1> DEFINE a == Occurrences(<<s[p]>>, x)
           b == Occurrences(<<t[p]>>, x)
           r == Cardinality(R)
<1>7. /\ Occurrences(s, x) = r + a /\ Occurrences(t, x) = r + b
      /\ r \in Nat /\ a \in Nat /\ b \in Nat
  BY <1>3, <1>5, <1>6
<1> HIDE DEF a, b, r
<1>8. Occurrences(t, x) + a = Occurrences(s, x) + b
  BY <1>7
<1>9. QED
  BY <1>8 DEF a, b

-----------------------------------------------------------------------------
(* Finite sets.                                                            *)

\* A row of a table is as large as the set of its columns.
LEMMA RowSize ==
  ASSUME NEW a, NEW J, IsFiniteSet(J)
  PROVE  IsFiniteSet({a} \X J) /\ Cardinality({a} \X J) = Cardinality(J)
<1>1. IsFiniteSet({a}) /\ Cardinality({a}) = 1
  BY FS_Singleton
<1>2. Cardinality({a} \X J) = Cardinality({a}) * Cardinality(J) /\ IsFiniteSet({a} \X J)
  BY <1>1, FS_Product
<1>3. Cardinality(J) \in Nat
  BY FS_CardinalityType
<1>4. QED
  BY <1>1, <1>2, <1>3

\* A list of all that is in a finite set.
LEMMA SetToSeqIs ==
  ASSUME NEW S, IsFiniteSet(S)
  PROVE  /\ Cardinality(S) \in Nat
         /\ SetToSeq(S) \in [1 .. Cardinality(S) -> S]
         /\ \A i, j \in 1 .. Cardinality(S) : SetToSeq(S)[i] = SetToSeq(S)[j] => i = j
         /\ \A x \in S : \E i \in 1 .. Cardinality(S) : SetToSeq(S)[i] = x
<1> DEFINE D == 1 .. Cardinality(S)
<1>1. Cardinality(S) \in Nat /\ ExistsBijection(D, S)
  BY FS_CardinalityType
<1>2. IsFiniteSet(D) /\ Cardinality(D) = Cardinality(S)
  BY <1>1, FS_Interval
<1>3. PICK b \in Bijection(D, S) : TRUE
  BY <1>1 DEF ExistsBijection
<1>4. b \in [D -> S] /\ IsInjective(b)
  BY <1>3 DEF Bijection, Injection, IsInjective
<1>5. SetToSeq(S) \in [D -> S] /\ IsInjective(SetToSeq(S))
  BY <1>4 DEF SetToSeq
<1>6. SetToSeq(S) \in Injection(D, S)
  BY <1>5 DEF Injection, IsInjective
<1>7. SetToSeq(S) \in Surjection(D, S)
  BY <1>2, <1>6, FS_Injection
<1>8. QED
  BY <1>1, <1>5, <1>7 DEF Surjection, IsInjective

\* A set fits into one that is not smaller.
LEMMA FitsInto ==
  ASSUME NEW S, NEW T, IsFiniteSet(S), IsFiniteSet(T), Cardinality(S) <= Cardinality(T)
  PROVE  \E b \in [S -> T] : IsInjective(b)
<1> DEFINE s == SetToSeq(S)
           t == SetToSeq(T)
           k == Cardinality(S)
           l == Cardinality(T)
<1>1. /\ k \in Nat /\ s \in [1 .. k -> S]
      /\ \A i, j \in 1 .. k : s[i] = s[j] => i = j
      /\ \A x \in S : \E i \in 1 .. k : s[i] = x
  BY SetToSeqIs
<1>2. /\ l \in Nat /\ t \in [1 .. l -> T]
      /\ \A i, j \in 1 .. l : t[i] = t[j] => i = j
  BY SetToSeqIs
<1>3. k <= l
  OBVIOUS
<1> HIDE DEF s, t, k, l
<1> DEFINE At(x) == CHOOSE i \in 1 .. k : s[i] = x
           b == [x \in S |-> t[At(x)]]
<1>4. \A x \in S : At(x) \in 1 .. k /\ s[At(x)] = x
  BY <1>1
<1>5. \A x \in S : At(x) \in 1 .. l
  BY <1>1, <1>2, <1>3, <1>4
<1> HIDE DEF At
<1>6. b \in [S -> T]
  BY <1>2, <1>5
<1>7. IsInjective(b)
  <2>1. ASSUME NEW x \in S, NEW y \in S, b[x] = b[y] PROVE x = y
    <3>1. t[At(x)] = t[At(y)]
      BY <2>1
    <3>2. At(x) = At(y)
      BY <1>2, <1>5, <3>1
    <3>3. QED
      BY <1>4, <3>2
  <2>2. QED
    BY <2>1 DEF IsInjective
<1>8. QED
  BY <1>6, <1>7
============================================================================
