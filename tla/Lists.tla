------------------------------- MODULE Lists --------------------------------
(***************************************************************************)
(* The lists of the program that are walked and unlinked from at once: the *)
(* run queue and the suspended list of the virtual machine, the list of    *)
(* pending events of an event loop.  They are sequences; Only(s, S) is     *)
(* SelectSeq(s, LAMBDA x : x \in S) without its recursion, so that the     *)
(* modules that use it can be reasoned about for lists of every length.    *)
(***************************************************************************)
EXTENDS Naturals, Sequences, FiniteSets, SequencesExt

\* where a member of S is linked, and how many are up to a place
Places(s, S) == {i \in 1 .. Len(s) : s[i] \in S}
Rank(s, S, i) == Cardinality({j \in Places(s, S) : j <= i})

\* the members of S that are linked, in the order of the list
Only(s, S) ==
    [k \in 1 .. Cardinality(Places(s, S)) |->
        s[CHOOSE i \in Places(s, S) : Rank(s, S, i) = k]]

\* how often x is in the list
Occurrences(s, x) == Cardinality(Places(s, {x}))
============================================================================
