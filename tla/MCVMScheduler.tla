--------------------------- MODULE MCVMScheduler ---------------------------
(* Small instances of VMScheduler for TLC.                                 *)
EXTENDS VMScheduler

CONSTANTS m, c1, c2, o1, o2

TwoCoroutines == {m, c1}
ThreeCoroutines == {m, c1, c2}
TwoOps == {o1, o2}
OneOp == {o1}

\* Only is SelectSeq, on every list of up to four members.
ASSUME OnlySelects ==
    \A s \in SeqOf({1, 2, 3}, 4), S \in SUBSET {1, 2, 3} :
        Only(s, S) = SelectSeq(s, LAMBDA x : x \in S)
============================================================================
