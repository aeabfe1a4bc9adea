------------------------------- MODULE Recording -------------------------------
(***************************************************************************)
(* wcap (src/tools/wcap/main.go): `start' routes a stream to a sink of its *)
(* own, starts a recorder and leaves a state file; `stop' ends what the    *)
(* file names; `monitor' adds a loopback.  start rolls back on a failure   *)
(* or an interrupt, while a stop or a monitor may already have read what   *)
(* it left, and streams and recorders end by themselves.                   *)
(***************************************************************************)
EXTENDS Integers, FiniteSets

CONSTANTS MaxCommands

VARIABLES audio,  \* sinks, the stream, recorders and loopbacks that run
          file,   \* state.json
          start,  \* the last `start', at work or not
          other,  \* the last `stop' or `monitor'
          count

vars == <<audio, file, start, other, count>>

NoFile == [is |-> "none", recorder |-> 0, loop |-> 0, module |-> 0]

\* foreign: a sink of wcap's name that wcap did not make.
Init ==
    /\ audio \in [foreign : BOOLEAN, module : {0}, stream : {"none", "home"}, stuck : {FALSE},
                  recorders : {{}}, loops : {{}}, unsaved : {FALSE}]
    /\ file \in {NoFile, [NoFile EXCEPT !.is = "invalid"]}
    /\ start = [at |-> "over", module |-> 0, id |-> 0, saved |-> FALSE, interrupted |-> FALSE, started |-> FALSE]
    /\ other = [at |-> "over", state |-> NoFile, id |-> 0]
    /\ count = 0

TypeOK ==
    /\ audio.module \in 0 .. MaxCommands /\ audio.stream \in {"none", "home", "sink"}
    /\ audio.recorders \subseteq 1 .. MaxCommands /\ audio.loops \subseteq 1 .. MaxCommands
    /\ \A f \in {file, other.state} : /\ f.is \in {"none", "state", "invalid"}
                                      /\ {f.recorder, f.loop, f.module} \subseteq 0 .. MaxCommands
    /\ start.at \in {"load", "sink", "list", "pick", "move", "record", "wait", "save", "commit", "kill", "unsave",
                     "back", "unload", "over"}
    /\ other.at \in {"stop", "loop", "end", "back", "unload", "remove", "monitor", "save", "over"}

-----------------------------------------------------------------------------
(* Steps that both commands take *)

Unloaded(a, module) ==
    IF module = 0 \/ a.module # module THEN a
    ELSE [a EXCEPT !.module = 0, !.stream = IF @ = "sink" /\ ~ a.foreign THEN "home" ELSE @]
\* A stream that has ended cannot be moved, another move may fail.
MovedBack == {[audio EXCEPT !.stream = IF @ = "sink" THEN "home" ELSE @],
              [audio EXCEPT !.stuck = @ \/ audio.stream = "sink"]}
Goto(at) == start' = [start EXCEPT !.at = at]
Then(at) == other' = [other EXCEPT !.at = at]

-----------------------------------------------------------------------------
(* runStart *)

Start ==
    /\ start.at = "over" /\ other.at = "over" /\ count < MaxCommands
    /\ count' = count + 1
    /\ start' = [at |-> "load", module |-> 0, id |-> count + 1, saved |-> FALSE, interrupted |-> FALSE, started |-> FALSE]
    /\ UNCHANGED <<audio, file, other>>

load == start.at = "load" /\ Goto(IF file.is = "none" THEN "sink" ELSE "over") /\ UNCHANGED <<audio, file, other, count>>

\* A sink that is there is used; one that was just made and is not found is unloaded.
ensureWcapSink ==
    /\ start.at = "sink"
    /\ \/ (audio.foreign \/ audio.module # 0) /\ Goto("list") /\ UNCHANGED audio
       \/ /\ ~ audio.foreign /\ audio.module = 0
          /\ audio' = [audio EXCEPT !.module = start.id]
          /\ start' = [start EXCEPT !.at = "list", !.module = start.id]
       \/ ~ audio.foreign /\ audio.module = 0 /\ Goto("over") /\ UNCHANGED audio
    /\ UNCHANGED <<file, other, count>>

listSinkInputs ==
    /\ start.at = "list"
    /\ \/ audio.stream # "none" /\ Goto("pick")
       \/ Goto("unload")
    /\ UNCHANGED <<audio, file, other, count>>

fuzzelPick ==
    /\ start.at = "pick"
    /\ \/ ~ start.interrupted /\ Goto("move")
       \/ Goto("unload")
    /\ UNCHANGED <<audio, file, other, count>>

\* From here on every failure or interrupt rolls back.
RollBack(s) == start' = [s EXCEPT !.at = IF s.started THEN "kill" ELSE "back"]

moveSinkInput ==
    /\ start.at = "move"
    /\ \/ audio.stream # "none" /\ audio' = [audio EXCEPT !.stream = "sink"] /\ Goto("record")
       \/ RollBack(start) /\ UNCHANGED audio
    /\ UNCHANGED <<file, other, count>>

Record ==
    /\ start.at = "record"
    /\ \/ /\ ~ start.interrupted
          /\ audio' = [audio EXCEPT !.recorders = @ \cup {start.id}]
          /\ start' = [start EXCEPT !.at = "wait", !.started = TRUE]
       \/ RollBack(start) /\ UNCHANGED audio
    /\ UNCHANGED <<file, other, count>>

Alive == start.id \in audio.recorders
\* The two seconds may be over as the recorder ends or the interrupt comes.
Wait ==
    /\ start.at = "wait"
    /\ \/ Goto("save")
       \/ (~ Alive \/ start.interrupted) /\ RollBack(start)
    /\ UNCHANGED <<audio, file, other, count>>

saveState ==
    /\ start.at = "save"
    /\ \/ /\ file' = [is |-> "state", recorder |-> start.id, loop |-> 0, module |-> start.module]
          /\ start' = [start EXCEPT !.at = "commit", !.saved = TRUE]
       \/ RollBack(start) /\ UNCHANGED file
    /\ UNCHANGED <<audio, other, count>>

Commit ==
    /\ start.at = "commit"
    /\ IF Alive /\ ~ start.interrupted THEN Goto("over") ELSE RollBack(start)
    /\ UNCHANGED <<audio, file, other, count>>

KillRecorder ==
    /\ start.at = "kill"
    /\ audio' = [audio EXCEPT !.recorders = @ \ {start.id}] /\ Goto(IF start.saved THEN "unsave" ELSE "back")
    /\ UNCHANGED <<file, other, count>>
Unsave == start.at = "unsave" /\ file' = NoFile /\ Goto("back") /\ UNCHANGED <<audio, other, count>>
Back == start.at = "back" /\ audio' \in MovedBack /\ Goto("unload") /\ UNCHANGED <<file, other, count>>
Unload ==
    /\ start.at = "unload" /\ audio' = Unloaded(audio, start.module) /\ Goto("over")
    /\ UNCHANGED <<file, other, count>>

Interrupt ==
    /\ start.at # "over" /\ ~ start.interrupted /\ start' = [start EXCEPT !.interrupted = TRUE]
    /\ UNCHANGED <<audio, file, other, count>>

-----------------------------------------------------------------------------
(* runStop, which may begin while a start is at work, and runMonitor, which *)
(* a person runs when there is a recording                                  *)

Begin(at) ==
    /\ other.at = "over" /\ count < MaxCommands /\ (at = "monitor" => start.at = "over")
    /\ count' = count + 1 /\ other' = [at |-> at, state |-> NoFile, id |-> count + 1]
    /\ UNCHANGED <<audio, file, start>>

Stop ==
    /\ other.at = "stop"
    /\ other' = [other EXCEPT !.state = file, !.at = IF file.is = "state" THEN "loop" ELSE "over"]
    /\ file' = IF file.is = "invalid" THEN NoFile ELSE file
    /\ UNCHANGED <<audio, start, count>>
StopLoop ==
    /\ other.at = "loop" /\ Then("end")
    /\ audio' = [audio EXCEPT !.loops = @ \ {other.state.loop}] /\ UNCHANGED <<file, start, count>>
StopRecorder ==
    /\ other.at = "end" /\ Then("back")
    /\ audio' = [audio EXCEPT !.recorders = @ \ {other.state.recorder}] /\ UNCHANGED <<file, start, count>>
StopBack == other.at = "back" /\ audio' \in MovedBack /\ Then("unload") /\ UNCHANGED <<file, start, count>>
StopUnload ==
    /\ other.at = "unload" /\ audio' = Unloaded(audio, other.state.module) /\ Then("remove")
    /\ UNCHANGED <<file, start, count>>
removeState == other.at = "remove" /\ file' = NoFile /\ Then("over") /\ UNCHANGED <<audio, start, count>>
\* A stop that is interrupted ends where it is.
Cut == other.at \notin {"over", "monitor", "save"} /\ Then("over") /\ UNCHANGED <<audio, file, start, count>>

Toggled(s) == IF s.loop \in audio.loops /\ s.loop # 0 THEN 0 ELSE other.id
Monitor ==
    /\ other.at = "monitor"
    /\ \/ /\ file.is = "state"
          /\ other' = [other EXCEPT !.at = "save", !.state = [file EXCEPT !.loop = Toggled(file)]]
          /\ audio' = [audio EXCEPT !.loops = IF Toggled(file) = 0 THEN @ \ {file.loop} ELSE @ \cup {other.id}]
       \/ Then("over") /\ UNCHANGED audio
    /\ UNCHANGED <<file, start, count>>
\* Whether the file could be written is not looked at.
MonitorSave ==
    /\ other.at = "save" /\ Then("over")
    /\ \/ file' = other.state /\ UNCHANGED audio
       \/ audio' = [audio EXCEPT !.unsaved = TRUE] /\ UNCHANGED file
    /\ UNCHANGED <<start, count>>

-----------------------------------------------------------------------------
(* The desktop *)

RecorderEnds(r) == r \in audio.recorders /\ audio' = [audio EXCEPT !.recorders = @ \ {r}] /\ UNCHANGED <<file, start, other, count>>
StreamEnds == audio.stream # "none" /\ audio' = [audio EXCEPT !.stream = "none"] /\ UNCHANGED <<file, start, other, count>>
Idle == start.at = "over" /\ other.at = "over"
StreamBegins ==
    /\ Idle /\ file.is = "none" /\ audio.stream = "none" /\ audio' = [audio EXCEPT !.stream = "home"]
    /\ UNCHANGED <<file, start, other, count>>

Next ==
    \/ Start \/ load \/ ensureWcapSink \/ listSinkInputs \/ fuzzelPick \/ moveSinkInput \/ Record \/ Wait
    \/ saveState \/ Commit \/ KillRecorder \/ Unsave \/ Back \/ Unload \/ Interrupt
    \/ \E at \in {"stop", "monitor"} : Begin(at)
    \/ Stop \/ StopLoop \/ StopRecorder \/ StopBack \/ StopUnload \/ removeState \/ Cut \/ Monitor \/ MonitorSave
    \/ StreamEnds \/ StreamBegins \/ \E r \in audio.recorders : RecorderEnds(r)

Spec == Init /\ [][Next]_vars

-----------------------------------------------------------------------------
(* Properties *)

\* Between commands, what runs or is rerouted is what the state file names, so that
\* a stop puts it back: no recorder, no sink of wcap's making and no stream without
\* a file, but for a stream that could not be moved.
NothingLeftBehind ==
    Idle =>
        /\ audio.recorders \subseteq {file.recorder}
        /\ audio.module # 0 => file.is = "state" /\ file.module = audio.module
        /\ audio.stream = "sink" => file.is = "state" \/ audio.stuck
        /\ audio.loops \subseteq {file.loop} \/ audio.unsaved
================================================================================
