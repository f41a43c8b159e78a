---------------------------- MODULE MCLspClient -----------------------------
(* Small instances of LspClient for TLC.                                   *)
EXTENDS LspClient

CONSTANTS w1, w2, w3, d1, d2

\* two waits for one document and one for another
ThreeWaits == {w1, w2, w3}
TwoDocuments == {d1, d2}
WantsOfThree == [w \in ThreeWaits |-> IF w = w3 THEN d2 ELSE d1]
============================================================================
