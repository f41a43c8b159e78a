---------------------------- MODULE MCEventLoop ----------------------------
(* Small instances of EventLoop for TLC.                                   *)
EXTENDS EventLoop

CONSTANTS d, b, s, i

\* one event of each type
OneOfEach == [e \in {d, b, s, i} |-> CASE e = d -> "default"
                                      [] e = b -> "bg_task"
                                      [] e = s -> "subprocess"
                                      [] OTHER -> "io"]
FourEvents == {d, b, s, i}

\* an event of each way to be completed, and only one descriptor
NoSubprocess == [e \in {d, b, i} |-> OneOfEach[e]]
ThreeKinds == {d, b, i}
============================================================================
