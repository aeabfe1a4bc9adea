------------------------------ MODULE DeskSession ------------------------------
(***************************************************************************)
(* desk (src/tools/desk/main.go): a session opens a tunnel through the     *)
(* first route that answers, turns a host's remote desk on (its displays   *)
(* go dark), views it, and turns it off again, through every route if need *)
(* be; `desk off' does only the last.  Connections are lost, while what    *)
(* was started on the host may go on there, and the user interrupts.       *)
(***************************************************************************)
EXTENDS Integers, Sequences

CONSTANTS RouteCount, MaxCommands

VARIABLES host,  \* its displays, and the remote-desk commands at work on it
          cmd    \* the desk command at work, or the last one

vars == <<host, cmd>>

\* o.routes: the names of the host, the last of which is the one given.
Routes == [i \in 1 .. RouteCount |-> i]
\* retry: the route that served before, then the others.
Order(first) == IF first = 0 THEN Routes ELSE <<first>> \o SelectSeq(Routes, LAMBDA r : r # first)

Init ==
    /\ host = [dark |-> FALSE, on |-> "none", off |-> FALSE]
    /\ cmd = [count |-> 0, mode |-> "none", at |-> "over", routes |-> <<>>, route |-> 0, master |-> FALSE,
              interrupted |-> FALSE, begun |-> FALSE, on |-> "none", cut |-> FALSE,
              viewed |-> FALSE, off |-> "none", beside |-> FALSE, hint |-> FALSE, exit |-> "none"]

TypeOK ==
    /\ host.dark \in BOOLEAN /\ host.off \in BOOLEAN /\ host.on \in {"none", "running", "done", "failed"}
    /\ cmd.count \in 0 .. MaxCommands /\ cmd.mode \in {"none", "session", "off"}
    /\ cmd.at \in {"tunnel", "forward", "on", "wait", "view", "off", "close", "over"}
    /\ cmd.route \in 0 .. RouteCount /\ Len(cmd.routes) <= RouteCount
    /\ cmd.on \in {"none", "ok", "failed"} /\ cmd.off \in {"none", "ok", "failed"}
    /\ cmd.exit \in {"none", "ok", "error", "killed"}

-----------------------------------------------------------------------------
(* The command *)

Goto(c, at) == cmd' = [c EXCEPT !.at = at]
Exit(c, code) == cmd' = [c EXCEPT !.at = "over", !.exit = code]

\* run: a session needs a viewer and a free port.  No session begins while the
\* host still turns the desk on for an earlier one.
Begin(mode) ==
    LET new == [cmd EXCEPT !.count = @ + 1, !.mode = mode, !.routes = Routes, !.route = 0, !.master = FALSE,
                           !.interrupted = FALSE, !.begun = FALSE, !.on = "none", !.cut = FALSE,
                           !.viewed = FALSE, !.off = "none", !.beside = host.on = "running", !.hint = FALSE, !.exit = "none"]
    IN
    /\ cmd.at = "over" /\ cmd.count < MaxCommands
    /\ IF mode = "off" THEN Goto(new, "off")
       ELSE host.on # "running" /\ (Goto(new, "tunnel") \/ Exit(new, "error"))
    /\ UNCHANGED host

\* openTunnel: an interrupted ssh may have started the master all the same.
openTunnel ==
    /\ cmd.at = "tunnel"
    /\ \/ cmd.interrupted /\ \E master \in BOOLEAN : Goto([cmd EXCEPT !.master = master], "close")
       \/ Goto([cmd EXCEPT !.master = TRUE, !.route = Head(cmd.routes)], "forward")
       \/ /\ ~ cmd.interrupted
          /\ IF Len(cmd.routes) > 1 THEN cmd' = [cmd EXCEPT !.routes = Tail(@)] ELSE Goto(cmd, "close")
    /\ UNCHANGED host

\* forward and vncTarget, over the master.
forward == cmd.at = "forward" /\ (Goto(cmd, "on") \/ Goto(cmd, "close")) /\ UNCHANGED host

TurnOff(c) == Goto([c EXCEPT !.routes = Order(c.route)], "off")

\* remoteDesk "on", once, through the tunnel's route: an interrupted command is
\* not started, a connection may fail.
StartOn ==
    /\ cmd.at = "on"
    /\ \/ TurnOff([cmd EXCEPT !.on = "failed"]) /\ UNCHANGED host
       \/ /\ ~ cmd.interrupted
          /\ Goto([cmd EXCEPT !.begun = TRUE], "wait")
          /\ host' = [host EXCEPT !.on = "running"]

\* It returns with remote-desk's status, or for a lost connection.
ReturnOn ==
    /\ cmd.at = "wait"
    /\ \/ /\ host.on = "done"
          /\ IF cmd.interrupted THEN TurnOff([cmd EXCEPT !.on = "ok", !.cut = TRUE]) ELSE Goto([cmd EXCEPT !.on = "ok"], "view")
       \/ TurnOff([cmd EXCEPT !.on = "failed"])
    /\ UNCHANGED host

\* The viewer exits, does not start, or is ended by an interrupt.
view ==
    /\ cmd.at = "view"
    /\ \E viewed \in BOOLEAN : TurnOff([cmd EXCEPT !.viewed = viewed])
    /\ UNCHANGED host

\* What follows the last attempt to turn the desk off: the user is told that the
\* displays may stay off.
Hint(c) == [c EXCEPT !.hint = c.off = "failed" \/ c.on = "failed" \/ c.cut]
Decided(c) ==
    IF c.mode = "off" THEN Exit(c, IF c.off = "ok" THEN "ok" ELSE "error")
    ELSE Goto(Hint(c), "close")

\* retry: an attempt fails for its connection and the next route is tried, or
\* remote-desk itself fails, which is not repeated.
OffDone == host' = [host EXCEPT !.dark = FALSE] /\ Decided([cmd EXCEPT !.off = "ok"])
OffRefused == Decided([cmd EXCEPT !.off = "failed"]) /\ UNCHANGED host
OffLost ==
    /\ IF Len(cmd.routes) > 1 THEN cmd' = [cmd EXCEPT !.routes = Tail(@)] ELSE Decided([cmd EXCEPT !.off = "failed"])
    /\ \/ UNCHANGED host
       \/ host' = [host EXCEPT !.dark = FALSE]
       \/ host' = [host EXCEPT !.off = TRUE]
retry == cmd.at = "off" /\ (OffDone \/ OffRefused \/ OffLost)

closeTunnel ==
    /\ cmd.at = "close"
    /\ \E master \in BOOLEAN :
         Exit([cmd EXCEPT !.master = cmd.master /\ master],
              IF cmd.off = "ok" /\ cmd.viewed /\ ~ cmd.interrupted THEN "ok" ELSE "error")
    /\ UNCHANGED host

Interrupt ==
    /\ cmd.at # "over" /\ cmd.mode = "session" /\ ~ cmd.interrupted
    /\ cmd' = [cmd EXCEPT !.interrupted = TRUE] /\ UNCHANGED host
Kill == cmd.at # "over" /\ Exit(cmd, "killed") /\ UNCHANGED host

-----------------------------------------------------------------------------
(* The host *)

Darkens == host.on = "running" /\ host' = [host EXCEPT !.dark = TRUE] /\ UNCHANGED cmd
OnEnds(status) ==
    /\ host.on = "running" /\ (status = "done" => host.dark)
    /\ host' = [host EXCEPT !.on = status] /\ UNCHANGED cmd
OffEnds == host.off /\ (\E dark \in {FALSE, host.dark} : host' = [host EXCEPT !.off = FALSE, !.dark = dark]) /\ UNCHANGED cmd

Next ==
    \/ \E mode \in {"session", "off"} : Begin(mode)
    \/ openTunnel \/ forward \/ StartOn \/ ReturnOn \/ view \/ retry \/ closeTunnel \/ Interrupt \/ Kill
    \/ Darkens \/ OffEnds \/ \E status \in {"done", "failed"} : OnEnds(status)

Spec == Init /\ [][Next]_vars

-----------------------------------------------------------------------------
(* Properties *)

\* A session that turned the desk on ends with the displays lit and nothing left
\* that darkens them, or tells the user what to run.
DarkIsTold ==
    (cmd.mode = "session" /\ cmd.at = "over" /\ cmd.exit # "killed" /\ cmd.begun) =>
        cmd.hint \/ (~ host.dark /\ host.on # "running")

\* `desk off' that succeeds lights them, unless an on was still at work.
OffLights == (cmd.mode = "off" /\ cmd.exit = "ok" /\ ~ cmd.beside) => ~ host.dark

DisplaysAreTold == DarkIsTold /\ OffLights
================================================================================
