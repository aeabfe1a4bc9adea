--------------------------- MODULE MCNodeMaintenance ---------------------------
(* Three nodes: a fleet reboot takes a and b in turn, and a person finishes    *)
(* the maintenance of a, or resumes it, after the run's command has ended.     *)
EXTENDS NodeMaintenance

CONSTANTS a, b, c, first, second, finish

ThreeNodes == {a, b, c}
ThreeCommands == {first, second, finish}
Targets == [o \in Op |-> IF o = second THEN b ELSE a]

With(act, resume, drain, leave) == [act |-> act, resume |-> resume, drain |-> drain, leave |-> leave]

RunOptions == [o \in Op |->
    CASE o = first  -> {With("reboot", FALSE, TRUE, FALSE), With("off", FALSE, TRUE, FALSE),
                        With("reboot", FALSE, TRUE, TRUE)}
      [] o = second -> {With("reboot", FALSE, FALSE, FALSE)}
      [] OTHER      -> {With("on", FALSE, TRUE, FALSE), With("reboot", TRUE, TRUE, FALSE)}]

\* The first command finds the database primary and Pods on its node, the
\* second, which skips the drain, may find its node empty.
BusyNode == Init /\ primary = a /\ load = {a, c}
\* The run reaches a before b.
InOrder == op[first].at = "idle" => op[second].at = "idle"

MCSpec == BusyNode /\ [][Next]_vars
================================================================================
