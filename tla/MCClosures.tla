---------------------------- MODULE MCClosures -----------------------------
(* Small instances of Closures for TLC: the machine's main coroutine and   *)
(* one that it schedules.                                                  *)
EXTENDS Closures

CONSTANTS main, scheduled

TwoCoroutines == {main, scheduled}

\* the bounds on the instance: two variables are captured at a time, or one when there is a second coroutine;
\* there are three frames at a time
Small == /\ Cardinality(created) + Cardinality(Live(upvalues)) <= 3
         /\ Len(frames[main]) + Len(frames[scheduled]) <= 3
============================================================================
