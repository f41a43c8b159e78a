----------------------------- MODULE Coroutines -----------------------------
(***************************************************************************)
(* What the virtual machine promises about the coroutines of a program     *)
(* (src/src/vm/lstf-virtualmachine.c, lstf-vm-coroutine.h): instructions   *)
(* run one at a time, never those of a coroutine that has outstanding I/O, *)
(* and I/O completes only between two instructions.                        *)
(***************************************************************************)
EXTENDS Naturals

CONSTANTS Coroutine, Main, None

VARIABLES
    phase,      \* of each coroutine
    running,    \* the coroutine whose instruction is being executed
    machine     \* "on", or "off" once the virtual machine has stopped

vars == <<phase, running, machine>>

Phases == {"none", "runnable", "waiting", "finished"}

Init ==
    /\ phase = [c \in Coroutine |-> "none"]
    /\ running = None
    /\ machine = "on"

Start ==
    /\ machine = "on" /\ phase[Main] = "none"
    /\ phase' = [phase EXCEPT ![Main] = "runnable"]
    /\ UNCHANGED <<running, machine>>

Begin(c) ==
    /\ machine = "on" /\ running = None /\ phase[c] = "runnable"
    /\ running' = c
    /\ UNCHANGED <<phase, machine>>

\* the instruction of c ends: c goes on, waits for I/O or is finished, new
\* coroutines may have been scheduled, and the machine may stop
End(c) ==
    /\ machine = "on" /\ running = c
    /\ running' = None
    /\ \E p \in {"runnable", "waiting", "finished"}, new \in SUBSET {d \in Coroutine : phase[d] = "none"} :
          phase' = [d \in Coroutine |-> IF d = c THEN p ELSE IF d \in new THEN "runnable" ELSE phase[d]]
    /\ machine' \in {"on", "off"}

\* I/O completes; the error of a completion may stop the machine
Wake(S) ==
    /\ machine = "on" /\ running = None
    /\ S \subseteq {c \in Coroutine : phase[c] = "waiting"}
    /\ phase' = [c \in Coroutine |-> IF c \in S THEN "runnable" ELSE phase[c]]
    /\ machine' \in {"on", "off"}
    /\ UNCHANGED running

Halt ==
    /\ machine = "on"
    /\ machine' = "off"
    /\ UNCHANGED <<phase, running>>

Next ==
    \/ Start \/ Halt
    \/ \E c \in Coroutine : Begin(c) \/ End(c)
    \/ \E S \in SUBSET Coroutine : Wake(S)

Spec == Init /\ [][Next]_vars
=============================================================================
