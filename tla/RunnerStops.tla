----------------------------- MODULE RunnerStops -----------------------------
(***************************************************************************)
(* The runner units of one host around a reboot (tools/nix-deploy, reboot.go *)
(* and runner_resume.go).  A reboot run stops the active units, publishing *)
(* a stop record in /run first, sends the reboot command, waits for the    *)
(* host, and starts the units again when the host is known not to reboot.  *)
(* What it leaves stopped an operator starts with `runners resume`.        *)
(*                                                                         *)
(* Stop and start are scripts under one flock on the host.  They go on     *)
(* when the ssh client that sent them is gone.                             *)
(***************************************************************************)
EXTENDS Integers, FiniteSets

CONSTANTS
    Run,          \* reboot runs with the host in their plan
    Resume,       \* operators who run `runners resume`, again and again
    Unit,         \* the host's runner units
    Planned,      \* Planned[i]: the units run i's plan saw active
    Controller,   \* Controller[i]: the machine run i runs on
    Faults,       \* which of the faults below may happen
    Budget,       \* how many dropped connections and failures may happen
    None          \* no record, or nobody

AllFaults ==
    { "interrupt",   \* a run gets a signal
      "crash",       \* a run or a resume is killed; its ssh children go on
      "drop",        \* a connection is lost, or a command's time is up
      "fails",       \* a unit does not start or stop well, a command is refused
      "started" }    \* somebody else starts a unit

ASSUME RunnerStopsAssumption ==
    /\ Run \cap Resume = {}
    /\ Planned \in [Run -> SUBSET Unit]
    /\ Faults \subseteq AllFaults
    /\ Budget \in Nat
    /\ None \notin Run \cup Resume

VARIABLES
    run,       \* each reboot run
    res,       \* each resume command
    cmd,       \* where each run's reboot command is
    script,    \* the scripts sent to the host
    lock,      \* the script that holds the host's flock
    record,    \* the stop record in /run, or None
    unit,      \* what the host reports of each unit
    stopped,   \* units a stop script stopped in this boot, not started again
    host,      \* the host's boot, whether it is up, and going down
    reserved,  \* who holds the host's shared reservation
    left       \* how many dropped connections and failures are left

vars == <<run, res, cmd, script, lock, record, unit, stopped, host, reserved, left>>
onHost == <<lock, record, unit, stopped, host>>

-----------------------------------------------------------------------------
(* State *)

Script == (Run \X {"stop", "start"}) \cup (Resume \X {"start"})
\* None stands for no script and for no record either.
ASSUME NoneAssumption ==
    None \notin Script \cup [owner : Run, units : SUBSET Unit]

Results == {"ok", "refused", "lost"}

RunState == [pc : {"idle", "stop", "command", "sending", "waitDown", "waitUp",
                   "restart", "ended", "dead"},
             boot : Nat, stopped : BOOLEAN, interrupted : BOOLEAN]
Nothing == [pc |-> "idle", owner |-> None]
ResumeState == {Nothing}
          \cup [pc : {"reserve", "inspect", "start", "retained"}, owner : Run]
ScriptState == [pc : {"none", "waiting", "locked", "stop", "drain", "start", "go"} \cup Results,
                owner : Run \cup {None}, todo : SUBSET Unit, client : BOOLEAN]

\* A unit that the host reports as neither running nor plainly stopped: failed,
\* about to be restarted, or held back by a gate.  It is not started again.
Failed == "failed"
UnitState == {"active", "stopping", "inactive", Failed}

TypeOK ==
    /\ run \in [Run -> RunState]
    /\ res \in [Resume -> ResumeState]
    /\ cmd \in [Run -> {"none", "sent", "remote"}]
    /\ script \in [Script -> ScriptState]
    /\ lock \in Script \cup {None}
    /\ record \in [owner : Run, units : SUBSET Unit] \cup {None}
    /\ unit \in [Unit -> UnitState]
    /\ stopped \subseteq Unit
    /\ host \in [boot : Nat, up : BOOLEAN, halting : BOOLEAN]
    /\ reserved \in Resume \cup {None}
    /\ left \in 0..Budget

NoScript == [pc |-> "none", owner |-> None, todo |-> {}, client |-> FALSE]

Init ==
    /\ run = [i \in Run |-> [pc |-> "idle", boot |-> 0, stopped |-> FALSE, interrupted |-> FALSE]]
    /\ res = [o \in Resume |-> Nothing]
    /\ cmd = [i \in Run |-> "none"]
    /\ script = [s \in Script |-> NoScript]
    /\ lock = None /\ record = None
    /\ unit = [u \in Unit |-> "active"] /\ stopped = {}
    /\ host = [boot |-> 1, up |-> TRUE, halting |-> FALSE]
    /\ reserved = None
    /\ left = Budget

Happens(fault) == fault \in Faults /\ left > 0 /\ left' = left - 1

Exited(i) == run[i].pc \in {"ended", "dead"}

OnHost(s) == script[s].pc \in {"locked", "stop", "drain", "start", "go"}
Sent(s) == script[s].pc = "waiting" \/ OnHost(s)

Launch(s, owner) ==
    script' = [script EXCEPT ![s] =
                 [pc |-> "waiting", owner |-> owner, todo |-> {}, client |-> TRUE]]

\* The caller stops listening: the client is gone, the script may go on.
GiveUp(s) ==
    script' = [script EXCEPT ![s] = IF Sent(s) THEN [@ EXCEPT !.client = FALSE] ELSE NoScript]

Forget(c) ==
    script' = [s \in Script |-> IF s[1] = c /\ ~Sent(s) THEN NoScript ELSE script[s]]

Read(s) == script' = [script EXCEPT ![s] = NoScript]

Waits(s) == IF s[1] \in Run THEN run[s[1]].pc \in {"stop", "restart"}
                           ELSE res[s[1]].pc = "start"

\* What is left of a script that is over: the status its caller will see.
Status(s, result) ==
    IF script[s].client /\ Waits(s) THEN [script[s] EXCEPT !.pc = result, !.todo = {}]
                                    ELSE NoScript

\* A script exits and drops the flock.
Exit(s, result) ==
    /\ script' = [script EXCEPT ![s] = Status(s, result)]
    /\ lock' = None

\* What the shutdown check sees: scheduled shutdowns, system jobs, and a
\* reboot command that has yet to queue one.
ShutdownSeen ==
    \/ host.halting
    \/ \E u \in Unit : unit[u] = "stopping"
    \/ \E i \in Run : cmd[i] = "remote"

-----------------------------------------------------------------------------
(* Scripts on the host *)

callers == <<run, res, cmd, reserved>>

\* flock -w 10
Enter(s) ==
    /\ script[s].pc = "waiting" /\ host.up /\ lock = None
    /\ lock' = s
    /\ script' = [script EXCEPT ![s].pc = "locked"]
    /\ UNCHANGED <<callers, record, unit, stopped, host, left>>

LockTimesOut(s) ==
    /\ script[s].pc = "waiting" /\ host.up /\ lock # None
    /\ script' = [script EXCEPT ![s] = Status(s, "refused")]
    /\ UNCHANGED <<callers, onHost, left>>

Unreachable(s) ==
    /\ script[s].pc = "waiting" /\ ~host.up
    /\ script' = [script EXCEPT ![s] = Status(s, "lost")]
    /\ UNCHANGED <<callers, onHost, left>>

\* A script whose client is gone may be hung up, wherever it is.
HungUp(s) ==
    /\ Sent(s) /\ ~script[s].client
    /\ "drop" \in Faults
    /\ script' = [script EXCEPT ![s] = NoScript]
    /\ lock' = IF lock = s THEN None ELSE lock
    /\ UNCHANGED <<callers, record, unit, stopped, host, left>>

Stops(s) == s[2] = "stop"

\* Mutant: an outstanding record does not keep a second reboot from stopping.
PublishOver(s) ==
    /\ Stops(s) /\ script[s].pc = "locked"
    /\ LET units == {u \in Planned[s[1]] : unit[u] = "active"} IN
         /\ record' = [owner |-> s[1], units |-> units]
         /\ script' = [script EXCEPT ![s].pc = "stop", ![s].todo = units]
    /\ UNCHANGED <<callers, lock, unit, stopped, host, left>>

\* runnerStopScript: without a record of an earlier run, publish the active
\* units before any of them is stopped.  A plan without units only checks.
Publish(s) ==
    /\ Stops(s) /\ script[s].pc = "locked"
    /\ record = None
    /\ \A u \in Planned[s[1]] : unit[u] # "stopping"
    /\ IF Planned[s[1]] = {}
       THEN Exit(s, "ok") /\ UNCHANGED record
       ELSE LET units == {u \in Planned[s[1]] : unit[u] = "active"} IN
              /\ record' = [owner |-> s[1], units |-> units]
              /\ script' = [script EXCEPT ![s].pc = "stop", ![s].todo = units]
              /\ UNCHANGED lock
    /\ UNCHANGED <<callers, unit, stopped, host, left>>

\* A record, a unit in transition, or a host without a working status report.
StopRefused(s) ==
    /\ Stops(s) /\ script[s].pc = "locked"
    /\ Exit(s, "refused")
    /\ UNCHANGED <<callers, record, unit, stopped, host, left>>

\* systemctl stop queues all the stop jobs and waits for them.
StopUnits(s) ==
    /\ script[s].pc = "stop"
    /\ unit' = [u \in Unit |-> IF u \in script[s].todo /\ unit[u] = "active"
                               THEN "stopping" ELSE unit[u]]
    /\ stopped' = stopped \cup script[s].todo
    /\ script' = [script EXCEPT ![s].pc = "drain"]
    /\ UNCHANGED <<callers, lock, record, host, left>>

Drained(s) ==
    /\ script[s].pc = "drain"
    /\ \A u \in script[s].todo : unit[u] # "stopping"
    /\ \/ Exit(s, "ok") /\ UNCHANGED left
       \/ Happens("fails") /\ Exit(s, "refused")
    /\ UNCHANGED <<callers, record, unit, stopped, host>>

\* runnerStartScript without anything to start.
StartNothing(s) ==
    /\ ~Stops(s) /\ script[s].pc = "locked"
    /\ record = None
    /\ Exit(s, "ok")
    /\ UNCHANGED <<callers, record, unit, stopped, host, left>>

Owner(s) == record # None /\ record.owner = script[s].owner

\* A recorded unit that failed bars the start of all of them.
Barred == record # None /\ \E u \in record.units : unit[u] = Failed

\* The record is someone else's, a shutdown may be coming, a recorded unit is
\* neither active nor plainly stopped, or the runners are held or the report is
\* not readable.
StartRefused(s) ==
    /\ ~Stops(s) /\ script[s].pc = "locked"
    /\ record # None
    /\ \/ (~Owner(s) \/ ShutdownSeen \/ Barred) /\ UNCHANGED left
       \/ Happens("fails")
    /\ Exit(s, "refused")
    /\ UNCHANGED <<callers, record, unit, stopped, host>>

StartBegins(s) ==
    /\ ~Stops(s) /\ script[s].pc = "locked"
    /\ Owner(s) /\ ~ShutdownSeen /\ ~Barred
    /\ script' = [script EXCEPT ![s].pc = "start", ![s].todo = record.units]
    /\ UNCHANGED <<callers, onHost, left>>

NextUnit(s) == CHOOSE u \in script[s].todo : TRUE

\* Before each start: an active unit is left alone, a failed one ends it, and the
\* shutdown check is made again.
CheckUnit(s) ==
    /\ script[s].pc = "start" /\ script[s].todo # {}
    /\ IF unit[NextUnit(s)] = "active"
       THEN /\ script' = [script EXCEPT ![s].todo = @ \ {NextUnit(s)}]
            /\ stopped' = stopped \ {NextUnit(s)}
            /\ UNCHANGED lock
       ELSE /\ IF unit[NextUnit(s)] = Failed \/ ShutdownSeen THEN Exit(s, "refused")
               ELSE script' = [script EXCEPT ![s].pc = "go"] /\ UNCHANGED lock
            /\ UNCHANGED stopped
    /\ UNCHANGED <<callers, record, unit, host, left>>

\* A start gate skips the unit, or it fails.
DoesNotStart(u) == \E after \in {"inactive", Failed} : unit' = [unit EXCEPT ![u] = after]

\* Mutant: a unit that does not start is skipped.
StartUnitSkips(s) ==
    /\ script[s].pc = "go"
    /\ \/ /\ unit' = [unit EXCEPT ![NextUnit(s)] = "active"]
          /\ stopped' = stopped \ {NextUnit(s)}
          /\ UNCHANGED left
       \/ /\ Happens("fails")
          /\ DoesNotStart(NextUnit(s))
          /\ UNCHANGED stopped
    /\ script' = [script EXCEPT ![s].pc = "start", ![s].todo = @ \ {NextUnit(s)}]
    /\ UNCHANGED <<callers, lock, record, host>>

\* systemctl start, and the unit's state after it.
StartUnit(s) ==
    /\ script[s].pc = "go"
    /\ \/ /\ unit' = [unit EXCEPT ![NextUnit(s)] = "active"]
          /\ stopped' = stopped \ {NextUnit(s)}
          /\ script' = [script EXCEPT ![s].pc = "start", ![s].todo = @ \ {NextUnit(s)}]
          /\ UNCHANGED <<lock, left>>
       \/ /\ Happens("fails")
          /\ Exit(s, "refused")
          /\ DoesNotStart(NextUnit(s))
          /\ UNCHANGED stopped
    /\ UNCHANGED <<callers, record, host>>

\* The record goes only when every unit in it was started.
Retire(s) ==
    /\ script[s].pc = "start" /\ script[s].todo = {}
    /\ record' = None
    /\ Exit(s, "ok")
    /\ UNCHANGED <<callers, unit, stopped, host, left>>

ScriptStep(s) ==
    \/ Enter(s) \/ LockTimesOut(s) \/ Unreachable(s)
    \/ Publish(s) \/ StopRefused(s) \/ StopUnits(s) \/ Drained(s)
    \/ StartNothing(s) \/ StartRefused(s) \/ StartBegins(s) \/ CheckUnit(s)
    \/ StartUnit(s) \/ Retire(s)

-----------------------------------------------------------------------------
(* A reboot run *)

Over == {"restart", "ended", "dead"}

\* What is over no longer looks at its context.
Goto(i, pc) ==
    run' = [run EXCEPT ![i].pc = pc, ![i].interrupted = @ /\ pc \notin Over]

\* startRunners, after a failure that leaves the host as it is.
StartRunners(i) ==
    /\ run' = [run EXCEPT ![i].pc = IF run[i].stopped THEN "restart" ELSE "ended",
                          ![i].stopped = FALSE, ![i].interrupted = FALSE]
    /\ script' = [s \in Script |->
                    IF s = <<i, "start">> /\ run[i].stopped
                    THEN [pc |-> "waiting", owner |-> i, todo |-> {}, client |-> TRUE]
                    ELSE IF s = <<i, "stop">>
                    THEN IF Sent(s) THEN [script[s] EXCEPT !.client = FALSE] ELSE NoScript
                    ELSE script[s]]

\* The boot ID is read, and the stop script sent.
Begin(i) ==
    /\ run[i].pc = "idle"
    /\ IF host.up /\ ~run[i].interrupted
       THEN /\ run' = [run EXCEPT ![i].pc = "stop", ![i].boot = host.boot,
                                  ![i].stopped = Planned[i] # {}]
            /\ Launch(<<i, "stop">>, i)
       ELSE Goto(i, "ended") /\ UNCHANGED script
    /\ UNCHANGED <<res, cmd, onHost, reserved, left>>

\* stopRunners returns: the units have stopped, or an error starts them again.
StopReturns(i) ==
    LET s == <<i, "stop">> IN
    /\ run[i].pc = "stop"
    /\ \/ /\ script[s].pc = "ok" /\ ~run[i].interrupted
          /\ Goto(i, "command") /\ Read(s) /\ UNCHANGED left
       \/ /\ script[s].pc \in {"refused", "lost"} \/ run[i].interrupted
          /\ StartRunners(i) /\ UNCHANGED left
       \/ Happens("drop") /\ StartRunners(i)
    /\ UNCHANGED <<res, cmd, onHost, reserved>>

\* systemctl reboot --no-block over ssh; not sent once the run is interrupted.
SendReboot(i) ==
    /\ run[i].pc = "command"
    /\ IF run[i].interrupted THEN StartRunners(i) /\ UNCHANGED cmd
       ELSE Goto(i, "sending") /\ cmd' = [cmd EXCEPT ![i] = "sent"] /\ UNCHANGED script
    /\ UNCHANGED <<res, onHost, reserved, left>>

\* A command that did not reach the host is gone with its client.
Dropped(i) == cmd' = [cmd EXCEPT ![i] = IF @ = "sent" THEN "none" ELSE @]

\* Its status: 0 or a lost connection (255) goes on to wait; a refusal starts
\* the runners; a timeout, a signal or an interrupt leaves them stopped.
RebootReturns(i) ==
    /\ run[i].pc = "sending"
    /\ \/ /\ cmd[i] = "none" \/ ~host.up
          /\ Goto(i, "waitDown") /\ Dropped(i) /\ UNCHANGED <<script, left>>
       \/ /\ Happens("drop")
          /\ Goto(i, "waitDown") \/ Goto(i, "ended")
          /\ Dropped(i) /\ UNCHANGED script
       \/ /\ cmd[i] = "sent" /\ Happens("fails")
          /\ cmd' = [cmd EXCEPT ![i] = "none"] /\ StartRunners(i)
       \/ /\ run[i].interrupted
          /\ Goto(i, "ended") /\ Dropped(i) /\ UNCHANGED <<script, left>>
    /\ UNCHANGED <<res, onHost, reserved>>

OldBoot(i) == host.up /\ host.boot = run[i].boot

\* Polling until ssh drops or the boot ID changes.
WaitDown(i) ==
    /\ run[i].pc = "waitDown"
    /\ \/ ~OldBoot(i) /\ Goto(i, "waitUp") /\ UNCHANGED <<script, left>>
       \/ Happens("drop") /\ Goto(i, "waitUp") /\ UNCHANGED script
       \/ OldBoot(i) /\ StartRunners(i) /\ UNCHANGED left
       \/ run[i].interrupted /\ Goto(i, "ended") /\ UNCHANGED <<script, left>>
    /\ UNCHANGED <<res, cmd, onHost, reserved>>

\* Polling until the host answers with a new boot ID; what verify reads after
\* it changes nothing.
WaitUp(i) ==
    /\ run[i].pc = "waitUp"
    /\ \/ (~OldBoot(i) \/ run[i].interrupted) /\ Goto(i, "ended") /\ UNCHANGED <<script, left>>
       \/ Happens("drop") /\ Goto(i, "ended") /\ UNCHANGED script
       \/ OldBoot(i) /\ ~run[i].interrupted /\ StartRunners(i) /\ UNCHANGED left
    /\ UNCHANGED <<res, cmd, onHost, reserved>>

\* startRunners returns, whatever its status.
StartReturns(i) ==
    LET s == <<i, "start">> IN
    /\ run[i].pc = "restart"
    /\ \/ script[s].pc \in Results /\ Read(s) /\ UNCHANGED left
       \/ Happens("drop") /\ GiveUp(s)
    /\ Goto(i, "ended")
    /\ UNCHANGED <<res, cmd, onHost, reserved>>

RunStep(i) ==
    \/ Begin(i) \/ StopReturns(i) \/ SendReboot(i) \/ RebootReturns(i)
    \/ WaitDown(i) \/ WaitUp(i) \/ StartReturns(i)

Interrupt(i) ==
    /\ "interrupt" \in Faults
    /\ run[i].pc \notin Over /\ ~run[i].interrupted
    /\ run' = [run EXCEPT ![i].interrupted = TRUE]
    /\ UNCHANGED <<res, cmd, script, onHost, reserved, left>>

\* Its ssh children are in process groups of their own and go on.
Crash(i) ==
    /\ "crash" \in Faults
    /\ ~Exited(i)
    /\ Goto(i, "dead") /\ Forget(i)
    /\ UNCHANGED <<res, cmd, onHost, reserved, left>>

\* The reboot command reaches the host, and queues the shutdown.
Arrives(i) ==
    /\ cmd[i] = "sent" /\ host.up
    /\ cmd' = [cmd EXCEPT ![i] = "remote"]
    /\ UNCHANGED <<run, res, script, onHost, reserved, left>>

Queues(i) ==
    /\ cmd[i] = "remote" /\ host.up
    /\ cmd' = [cmd EXCEPT ![i] = "none"]
    /\ host' = [host EXCEPT !.halting = TRUE]
    /\ UNCHANGED <<run, res, script, lock, record, unit, stopped, reserved, left>>

-----------------------------------------------------------------------------
(* runners resume *)

\* Mutant: a host without a stop record is not left alone.
ResumeReadAnyway(o) ==
    /\ res[o].pc = "idle"
    /\ host.up
    /\ res' = [res EXCEPT ![o] = [pc |-> "reserve",
                                 owner |-> IF record = None THEN None ELSE record.owner]]
    /\ UNCHANGED <<run, cmd, script, onHost, reserved, left>>

\* The host's state is read, with the stop record.
ResumeRead(o) ==
    /\ res[o].pc = "idle"
    /\ host.up /\ record # None
    /\ res' = [res EXCEPT ![o] = [pc |-> "reserve", owner |-> record.owner]]
    /\ UNCHANGED <<run, cmd, script, onHost, reserved, left>>

ResumeReserve(o) ==
    /\ res[o].pc = "reserve"
    /\ IF reserved = None
       THEN reserved' = o /\ res' = [res EXCEPT ![o].pc = "inspect"]
       ELSE UNCHANGED reserved /\ res' = [res EXCEPT ![o] = Nothing]
    /\ UNCHANGED <<run, cmd, script, onHost, left>>

\* Reboot runs, and ssh children with a script or a reboot command for the host.
ControllerBusy(c) ==
    \E i \in Run :
        /\ Controller[i] = c
        /\ \/ ~Exited(i) /\ run[i].pc # "idle"
           \/ cmd[i] = "sent"
           \/ \E k \in {"stop", "start"} : Sent(<<i, k>>) /\ script[<<i, k>>].client

\* Mutant: the run that stopped the units need not be gone.
OwnerAnywhere(o) == TRUE

OwnerGone(o) ==
    Exited(res[o].owner) /\ ~ControllerBusy(Controller[res[o].owner])

\* Mutant: a refusal keeps the reservation.
ResumeInspectKeeping(o) ==
    /\ res[o].pc = "inspect"
    /\ IF OwnerGone(o)
       THEN /\ Launch(<<o, "start">>, res[o].owner)
            /\ res' = [res EXCEPT ![o].pc = "start"]
       ELSE res' = [res EXCEPT ![o] = Nothing] /\ UNCHANGED script
    /\ UNCHANGED <<run, cmd, onHost, reserved, left>>

\* The owner must be gone and nothing of it left on its controller.
ResumeInspect(o) ==
    /\ res[o].pc = "inspect"
    /\ IF OwnerGone(o)
       THEN /\ Launch(<<o, "start">>, res[o].owner)
            /\ res' = [res EXCEPT ![o].pc = "start"]
            /\ UNCHANGED reserved
       ELSE /\ res' = [res EXCEPT ![o] = Nothing]
            /\ reserved' = None
            /\ UNCHANGED script
    /\ UNCHANGED <<run, cmd, onHost, left>>

\* Mutant: the reservation is released however the script ended.
ResumeReturnsReleasing(o) ==
    LET s == <<o, "start">> IN
    /\ res[o].pc = "start"
    /\ \/ script[s].pc \in Results /\ UNCHANGED left
       \/ Happens("drop")
    /\ GiveUp(s)
    /\ res' = [res EXCEPT ![o] = Nothing]
    /\ reserved' = None
    /\ UNCHANGED <<run, cmd, onHost>>

\* Only an acknowledged or a definite result releases the reservation.
ResumeReturns(o) ==
    LET s == <<o, "start">> IN
    /\ res[o].pc = "start"
    /\ \/ /\ script[s].pc \in {"ok", "refused"}
          /\ Read(s)
          /\ res' = [res EXCEPT ![o] = Nothing]
          /\ reserved' = None
          /\ UNCHANGED left
       \/ /\ (script[s].pc = "lost" /\ UNCHANGED left) \/ Happens("drop")
          /\ GiveUp(s)
          /\ res' = [res EXCEPT ![o].pc = "retained"]
          /\ UNCHANGED reserved
    /\ UNCHANGED <<run, cmd, onHost>>

ResumeCrash(o) ==
    /\ res[o].pc \in {"inspect", "start"}
    /\ Happens("crash")
    /\ res' = [res EXCEPT ![o].pc = "retained"] /\ Forget(o)
    /\ UNCHANGED <<run, cmd, onHost, reserved>>

\* `reservations release`: refused while a script is on the host, while the
\* resume's ssh is at the operator's, and while a job or a reboot is pending.
ReleaseRetained(o) ==
    /\ res[o].pc = "retained"
    /\ host.up
    /\ ~Sent(<<o, "start">>) /\ ~ShutdownSeen /\ \A s \in Script : ~OnHost(s)
    /\ res' = [res EXCEPT ![o] = Nothing]
    /\ reserved' = None
    /\ UNCHANGED <<run, cmd, script, onHost, left>>

ResumeStep(o) ==
    \/ ResumeRead(o) \/ ResumeReserve(o) \/ ResumeInspect(o) \/ ResumeReturns(o)
    \/ ReleaseRetained(o)

-----------------------------------------------------------------------------
(* The host *)

\* /run, the units' jobs, the flock and every script end with the boot.
GoesDown ==
    /\ host.up /\ host.halting
    /\ host' = [host EXCEPT !.up = FALSE, !.halting = FALSE]
    /\ record' = None
    /\ unit' = [u \in Unit |-> "inactive"] /\ stopped' = {}
    /\ lock' = None
    /\ script' = [s \in Script |->
                    IF Sent(s) THEN Status(s, "lost") ELSE script[s]]
    /\ cmd' = [i \in Run |-> IF cmd[i] = "remote" THEN "none" ELSE cmd[i]]
    /\ UNCHANGED <<run, res, reserved, left>>

\* Normal boot startup starts the units.
ComesUp ==
    /\ ~host.up
    /\ host' = [host EXCEPT !.boot = @ + 1, !.up = TRUE]
    /\ unit' = [u \in Unit |-> "active"]
    /\ UNCHANGED <<run, res, cmd, script, lock, record, stopped, reserved, left>>

\* A unit that has to be killed has failed.
UnitStops(u) ==
    /\ unit[u] = "stopping"
    /\ \/ unit' = [unit EXCEPT ![u] = "inactive"] /\ UNCHANGED left
       \/ unit' = [unit EXCEPT ![u] = Failed] /\ Happens("fails")
    /\ UNCHANGED <<run, res, cmd, script, lock, record, stopped, host, reserved>>

\* Somebody resets a failed unit, or opens the gate that holds it back.
Mended(u) ==
    /\ unit[u] = Failed /\ host.up
    /\ unit' = [unit EXCEPT ![u] = "inactive"]
    /\ UNCHANGED <<run, res, cmd, script, lock, record, stopped, host, reserved, left>>

StartedByOther(u) ==
    /\ unit[u] \in {"inactive", Failed} /\ host.up /\ ~host.halting
    /\ Happens("started")
    /\ unit' = [unit EXCEPT ![u] = "active"]
    /\ UNCHANGED <<run, res, cmd, script, lock, record, stopped, host, reserved>>

HostStep == GoesDown \/ ComesUp \/ \E u \in Unit : UnitStops(u)

-----------------------------------------------------------------------------
(* Specification *)

Next ==
    \/ \E s \in Script : ScriptStep(s) \/ HungUp(s)
    \/ \E i \in Run : RunStep(i) \/ Interrupt(i) \/ Crash(i) \/ Arrives(i) \/ Queues(i)
    \/ \E o \in Resume : ResumeStep(o) \/ ResumeCrash(o)
    \/ HostStep
    \/ \E u \in Unit : Mended(u) \/ StartedByOther(u)

Spec == Init /\ [][Next]_vars

\* Commands return, scripts under the flock go on, the host shuts down and
\* boots, and an operator keeps resuming.
Fairness ==
    /\ \A s \in Script : WF_vars(ScriptStep(s))
    /\ \A i \in Run : WF_vars(RunStep(i)) /\ WF_vars(Arrives(i) \/ Queues(i))
    /\ \A o \in Resume : WF_vars(ResumeStep(o))
    /\ WF_vars(HostStep)

FairSpec == Spec /\ Fairness

-----------------------------------------------------------------------------
(* Properties *)

(* A unit that a reboot run stopped, or is about to, is in a stop record until *)
(* it runs again: no crash, lost connection, refused start, second run or     *)
(* resume loses it (runnerStopScript publishes first, runnerStartScript       *)
(* retires last).                                                             *)
StoppedIsRecorded ==
    \A u \in stopped : record # None /\ u \in record.units

(* A reboot command is on its way only under its own run's stop record: a     *)
(* second reboot cannot overwrite or clear the ownership of the first, and a  *)
(* resume cannot clear it either while the command may still arrive.          *)
CommandOwnsRecord ==
    \A i \in Run :
        cmd[i] # "none" /\ Planned[i] # {} /\ OldBoot(i) => record # None /\ record.owner = i

(* No reboot command is on its way behind somebody else's stop record, even   *)
(* from a run whose plan saw no active runner (stopRunners).                  *)
NotBehindResume ==
    \A i \in Run : cmd[i] # "none" /\ OldBoot(i) => record = None \/ record.owner = i

(* Stopped runners are never started while a reboot command is on its way or  *)
(* a shutdown is queued, so no admitted job is killed by a reboot that nixfleet *)
(* itself asked for.                                                          *)
NoStartBeforeReboot ==
    [][\A u \in Unit :
         u \in stopped /\ unit[u] # "active" /\ unit'[u] = "active" /\ u \notin stopped'
           => ~host.halting /\ \A i \in Run : cmd[i] = "none"]_vars

(* A resume's start script runs on the host only while that resume holds the  *)
(* host's shared reservation, its operator's connection or life lost or not.  *)
ResumeIsReserved ==
    \A o \in Resume : Sent(<<o, "start">>) => reserved = o

(* What a reboot run has stopped comes back, by the reboot, by the run, or by  *)
(* a resume, unless a unit of the record failed: that one bars the start of   *)
(* all of them until somebody mends it (runnerStartScript), and from then on  *)
(* they come back again.  The record itself never blocks a resume for good.   *)
Recovered == \A u \in Unit : u \in stopped ~> (u \notin stopped \/ Barred)
=============================================================================
