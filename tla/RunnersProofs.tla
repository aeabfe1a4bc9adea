--------------------------- MODULE RunnersProofs ---------------------------
(***************************************************************************)
(* Proofs about RunnerStops for any runs, resumes, units, plans, faults    *)
(* and budget.  The invariants build on one another: RecordInv is about    *)
(* the scripts on the host and the stop record, CommandInv about the       *)
(* reboot commands and the record, BootInv about the shutdown and the      *)
(* boot, and ReservedInv about a resume's reservation alone.               *)
(*                                                                         *)
(* The last part is about RunnerRestart, as the instance T: a              *)
(* specification of its own.                                               *)
(***************************************************************************)
EXTENDS RunnerStops, TLAPS

-----------------------------------------------------------------------------
(* The invariants *)

\* The script under the flock is the only one past it.
LockHeld == \A s \in Script : OnHost(s) => lock = s

\* A stop script works on the units of its own run's record.
StopPhase ==
    \A s \in Script : script[s].pc \in {"stop", "drain"} =>
        /\ Stops(s)
        /\ record # None /\ record.owner = s[1] /\ script[s].todo \subseteq record.units

\* A start script has what is still stopped before it.
StartPhase ==
    \A s \in Script : script[s].pc \in {"start", "go"} =>
        ~Stops(s) /\ record # None /\ stopped \subseteq script[s].todo

RecordInv == TypeOK /\ LockHeld /\ StopPhase /\ StartPhase /\ StoppedIsRecorded

\* A resume past its reservation holds it.
Reserved ==
    \A o \in Resume :
        /\ res[o].pc \in {"inspect", "start", "retained"} => reserved = o
        /\ Sent(<<o, "start">>) => res[o].pc \in {"start", "retained"}

ReservedInv == TypeOK /\ Reserved

\* A run's stop script; a run that is between its stop and its command's end.
OfRun(i) == <<i, "stop">>
Stopped(i) == script[OfRun(i)].pc = "ok" \/ run[i].pc = "command" \/ cmd[i] # "none"

\* Where each run is.
Phases ==
    \A i \in Run :
        /\ run[i].boot <= host.boot
        /\ run[i].pc \in {"idle", "stop", "command"} => cmd[i] = "none"
        /\ run[i].pc \notin {"sending", "dead"} => cmd[i] # "sent"
        /\ Sent(OfRun(i)) /\ script[OfRun(i)].client => run[i].pc \in {"stop", "dead"}
        /\ script[OfRun(i)].pc \in Results => run[i].pc = "stop"

\* A start script is of a run that sends no command any more.
StartOwners ==
    \A s \in Script :
        /\ ~Stops(s) /\ Sent(s) => /\ script[s].owner \in Run
                                   /\ run[script[s].owner].pc \in Over
                                   /\ cmd[script[s].owner] # "sent"
        /\ script[s].pc \in {"start", "go"} => Owner(s) /\ cmd[script[s].owner] = "none"

\* Such a run has the record, while the host is the one it stopped.
StoppedOwns ==
    \A i \in Run : Stopped(i) /\ Planned[i] # {} /\ OldBoot(i) => record # None /\ record.owner = i

CommandInv == RecordInv /\ Phases /\ StartOwners /\ StoppedOwns

\* Nothing of a run outlives the boot it began in.
ThisBoot == \A i \in Run : Sent(OfRun(i)) \/ Stopped(i) => OldBoot(i)

\* Once the shutdown is queued its run's record stays and no command is left.
Halting ==
    host.halting =>
        /\ host.up /\ record # None
        /\ run[record.owner].pc \notin {"idle", "stop", "command"} /\ cmd[record.owner] = "none"
        /\ \A s \in Script : script[s].pc \notin {"start", "go"}

BootInv == CommandInv /\ ThisBoot /\ Halting

-----------------------------------------------------------------------------
(* Lemmas *)

(* None stands for nobody: it is no run, no resume and no script. *)
LEMMA NobodyIsNone == None \notin Run /\ None \notin Resume /\ None \notin Script
BY RunnerStopsAssumption, NoneAssumption

(* None stands for the absence of a stop record: it is no record. *)
LEMMA NoneIsNoRecord == None \notin [owner : Run, units : SUBSET Unit]
BY NoneAssumption

(* The stop and start scripts of a run and the start script of a resume. *)
LEMMA Names ==
    /\ \A i \in Run : <<i, "stop">> \in Script /\ <<i, "start">> \in Script
    /\ \A o \in Resume : <<o, "start">> \in Script
    /\ \A s \in Script : \/ s[1] \in Run /\ s[2] \in {"stop", "start"} /\ s = <<s[1], s[2]>>
                         \/ s[1] \in Resume /\ s[2] = "start" /\ s = <<s[1], s[2]>>
BY DEF Script

(* Goto changes one run's place. *)
LEMMA Gone ==
    ASSUME run \in [Run -> RunState], NEW i \in Run, NEW pc, Goto(i, pc),
           pc \in {"command", "sending", "waitDown", "waitUp", "ended", "dead"}
    PROVE  /\ run' \in [Run -> RunState]
           /\ run'[i].pc = pc /\ run'[i].boot = run[i].boot
           /\ \A j \in Run : j # i => run'[j] = run[j]
<1> DEFINE r == [run[i] EXCEPT !.pc = pc, !.interrupted = @ /\ pc \notin Over]
<1>1. run[i] \in RunState
  OBVIOUS
<1>2. r \in RunState /\ r.pc = pc /\ r.boot = run[i].boot
  BY <1>1 DEF RunState
<1>3. run' = [run EXCEPT ![i] = r]
  BY DEF Goto
<1> HIDE DEF r
<1> QED BY <1>2, <1>3

(* What a script that ends leaves. *)
LEMMA Leaves ==
    ASSUME script \in [Script -> ScriptState], NEW s \in Script, NEW result \in Results
    PROVE  /\ Status(s, result) \in ScriptState
           /\ Status(s, result).pc \in {"none", result}
           /\ Status(s, result).pc = result => script[s].client /\ Waits(s)
BY DEF Status, ScriptState, NoScript, Results

(* An unsent script is a script's state. *)
LEMMA NoScriptTyped == NoScript \in ScriptState /\ NoScript.pc = "none"
BY DEF NoScript, ScriptState

(* A script changed alone. *)
LEMMA Changed ==
    ASSUME script \in [Script -> ScriptState], NEW s \in Script, NEW r \in ScriptState,
           script' = [script EXCEPT ![s] = r]
    PROVE  /\ script' \in [Script -> ScriptState]
           /\ script'[s] = r /\ \A t \in Script : t # s => script'[t] = script[t]
OBVIOUS

(* A script's place and what it has to do. *)
LEMMA Advanced ==
    ASSUME script \in [Script -> ScriptState], NEW s \in Script, NEW todo \in SUBSET Unit,
           NEW pc \in {"locked", "stop", "drain", "start", "go"},
           script' = [script EXCEPT ![s].pc = pc, ![s].todo = todo]
    PROVE  /\ script' \in [Script -> ScriptState]
           /\ script'[s].pc = pc /\ script'[s].todo = todo
           /\ script'[s].owner = script[s].owner /\ script'[s].client = script[s].client
           /\ \A t \in Script : t # s => script'[t] = script[t]
<1> DEFINE r == [script[s] EXCEPT !.pc = pc, !.todo = todo]
<1>1. script[s] \in ScriptState
  OBVIOUS
<1>2. /\ r \in ScriptState /\ r.pc = pc /\ r.todo = todo
      /\ r.owner = script[s].owner /\ r.client = script[s].client
  BY <1>1 DEF ScriptState
<1>3. script' = [script EXCEPT ![s] = r]
  OBVIOUS
<1> HIDE DEF r
<1> QED BY <1>2, <1>3, Changed

(* A script that moves on and keeps what it has to do. *)
LEMMA MovedOn ==
    ASSUME script \in [Script -> ScriptState], NEW s \in Script,
           NEW pc \in {"locked", "stop", "drain", "start", "go"},
           script' = [script EXCEPT ![s].pc = pc]
    PROVE  /\ script' \in [Script -> ScriptState]
           /\ script'[s].pc = pc /\ script'[s].todo = script[s].todo
           /\ script'[s].owner = script[s].owner /\ script'[s].client = script[s].client
           /\ \A t \in Script : t # s => script'[t] = script[t]
<1> DEFINE r == [script[s] EXCEPT !.pc = pc]
<1>1. script[s] \in ScriptState
  OBVIOUS
<1>2. /\ r \in ScriptState /\ r.pc = pc /\ r.todo = script[s].todo
      /\ r.owner = script[s].owner /\ r.client = script[s].client
  BY <1>1 DEF ScriptState
<1>3. script' = [script EXCEPT ![s] = r]
  OBVIOUS
<1> HIDE DEF r
<1> QED BY <1>2, <1>3, Changed

(* A script that exits. *)
LEMMA Exits ==
    ASSUME script \in [Script -> ScriptState], NEW s \in Script, NEW result \in Results, Exit(s, result)
    PROVE  /\ script' \in [Script -> ScriptState] /\ lock' = None
           /\ script'[s] = Status(s, result) /\ script'[s].pc \in {"none", result}
           /\ \A t \in Script : t # s => script'[t] = script[t]
BY Leaves, Changed DEF Exit

(* A script sent to the host. *)
LEMMA Launched ==
    ASSUME script \in [Script -> ScriptState], NEW s \in Script, NEW owner \in Run, Launch(s, owner)
    PROVE  /\ script' \in [Script -> ScriptState]
           /\ script'[s].pc = "waiting" /\ script'[s].owner = owner /\ script'[s].client = TRUE
           /\ \A t \in Script : t # s => script'[t] = script[t]
<1> DEFINE r == [pc |-> "waiting", owner |-> owner, todo |-> {}, client |-> TRUE]
<1>1. r \in ScriptState /\ r.pc = "waiting" /\ r.owner = owner /\ r.client = TRUE
  BY DEF ScriptState
<1>2. script' = [script EXCEPT ![s] = r]
  BY DEF Launch
<1> HIDE DEF r
<1> QED BY <1>1, <1>2, Changed

(* A caller that no longer listens: its script is gone or goes on as it was. *)
LEMMA GivenUp ==
    ASSUME script \in [Script -> ScriptState], NEW s \in Script, GiveUp(s)
    PROVE  /\ script' \in [Script -> ScriptState]
           /\ \/ Sent(s) /\ script'[s].pc = script[s].pc /\ script'[s].todo = script[s].todo
                 /\ script'[s].owner = script[s].owner /\ script'[s].client = FALSE
              \/ ~Sent(s) /\ script'[s] = NoScript
           /\ \A t \in Script : t # s => script'[t] = script[t]
<1> DEFINE r == [script[s] EXCEPT !.client = FALSE]
<1>1. /\ r \in ScriptState /\ r.pc = script[s].pc /\ r.todo = script[s].todo
      /\ r.owner = script[s].owner /\ r.client = FALSE
  BY DEF ScriptState
<1>2. CASE Sent(s)
  <2>1. script' = [script EXCEPT ![s] = r]
    BY <1>2 DEF GiveUp
  <2> HIDE DEF r
  <2> QED BY <1>1, <1>2, <2>1, Changed
<1>3. CASE ~Sent(s)
  BY <1>3, NoScriptTyped, Changed DEF GiveUp
<1> QED BY <1>2, <1>3

(* What a client forgets: only its own scripts, and all of those no host has. *)
LEMMA Forgotten ==
    ASSUME script \in [Script -> ScriptState], NEW c, Forget(c)
    PROVE  /\ script' \in [Script -> ScriptState]
           /\ \A s \in Script : \/ script'[s] = script[s]
                                \/ s[1] = c /\ ~Sent(s) /\ script'[s] = NoScript
           /\ \A s \in Script : s[1] = c /\ ~Sent(s) => script'[s] = NoScript
BY NoScriptTyped DEF Forget

(* What startRunners does to its run and to the scripts. *)
LEMMA RunnersStarted ==
    ASSUME run \in [Run -> RunState], script \in [Script -> ScriptState], NEW i \in Run, StartRunners(i)
    PROVE  /\ run' \in [Run -> RunState] /\ script' \in [Script -> ScriptState]
           /\ run'[i].pc \in {"restart", "ended"} /\ run'[i].boot = run[i].boot
           /\ \A j \in Run : j # i => run'[j] = run[j]
           /\ \A s \in Script : \/ script'[s] = script[s] /\ s # <<i, "stop">>
                                \/ s = <<i, "start">> /\ script'[s].pc = "waiting" /\ script'[s].owner = i
                                \/ s = <<i, "stop">> /\ ~Sent(s) /\ script'[s] = NoScript
                                \/ /\ s = <<i, "stop">> /\ Sent(s) /\ script'[s].client = FALSE
                                   /\ script'[s].pc = script[s].pc /\ script'[s].todo = script[s].todo
                                   /\ script'[s].owner = script[s].owner
<1> DEFINE pc == IF run[i].stopped THEN "restart" ELSE "ended"
           r == [run[i] EXCEPT !.pc = pc, !.stopped = FALSE, !.interrupted = FALSE]
<1>1. run[i] \in RunState
  OBVIOUS
<1>2. r \in RunState /\ r.pc \in {"restart", "ended"} /\ r.boot = run[i].boot
  BY <1>1 DEF RunState
<1>3. run' = [run EXCEPT ![i] = r]
  BY DEF StartRunners
<1> HIDE DEF r
<1>4. /\ run' \in [Run -> RunState]
      /\ run'[i].pc \in {"restart", "ended"} /\ run'[i].boot = run[i].boot
      /\ \A j \in Run : j # i => run'[j] = run[j]
  BY <1>2, <1>3
<1>5. script' \in [Script -> ScriptState]
  <2>1. [pc |-> "waiting", owner |-> i, todo |-> {}, client |-> TRUE] \in ScriptState
    BY DEF ScriptState
  <2>2. \A s \in Script : [script[s] EXCEPT !.client = FALSE] \in ScriptState
    BY DEF ScriptState
  <2> QED BY <2>1, <2>2, NoScriptTyped DEF StartRunners
<1>6. \A s \in Script : \/ script'[s] = script[s] /\ s # <<i, "stop">>
                        \/ s = <<i, "start">> /\ script'[s].pc = "waiting" /\ script'[s].owner = i
                        \/ s = <<i, "stop">> /\ ~Sent(s) /\ script'[s] = NoScript
                        \/ /\ s = <<i, "stop">> /\ Sent(s) /\ script'[s].client = FALSE
                           /\ script'[s].pc = script[s].pc /\ script'[s].todo = script[s].todo
                           /\ script'[s].owner = script[s].owner
  <2> TAKE s \in Script
  <2>1. script[s] \in ScriptState
    OBVIOUS
  <2> QED BY <2>1 DEF StartRunners, ScriptState
<1> QED BY <1>4, <1>5, <1>6

(* The stop script of a run that goes on after a failure is out of the run's *)
(* hands: forgotten, or left to itself on the host.                          *)
LEMMA StopLeft ==
    ASSUME run \in [Run -> RunState], script \in [Script -> ScriptState], NEW i \in Run, StartRunners(i)
    PROVE  \/ script'[<<i, "stop">>] = NoScript
           \/ /\ script'[<<i, "stop">>].pc = script[<<i, "stop">>].pc
              /\ Sent(<<i, "stop">>) /\ script'[<<i, "stop">>].client = FALSE
<1> DEFINE s == <<i, "stop">>
<1>1. s \in Script /\ s # <<i, "start">>
  BY Names
<1>2. \/ script'[s] = script[s] /\ s # <<i, "stop">>
      \/ s = <<i, "start">> /\ script'[s].pc = "waiting" /\ script'[s].owner = i
      \/ s = <<i, "stop">> /\ ~Sent(s) /\ script'[s] = NoScript
      \/ /\ s = <<i, "stop">> /\ Sent(s) /\ script'[s].client = FALSE
         /\ script'[s].pc = script[s].pc /\ script'[s].todo = script[s].todo
         /\ script'[s].owner = script[s].owner
  <2> HIDE DEF s
  <2> QED BY <1>1, RunnersStarted
<1> QED BY <1>1, <1>2

(* A fault leaves the budget in its range. *)
LEMMA Spent == ASSUME TypeOK, NEW fault, Happens(fault) PROVE left' \in 0 .. Budget
BY RunnerStopsAssumption DEF Happens, TypeOK

-----------------------------------------------------------------------------
(* Types *)

(* Every step of a script keeps the types. *)
LEMMA ScriptStepTyped ==
    ASSUME TypeOK, NEW s \in Script, ScriptStep(s) \/ HungUp(s)
    PROVE  TypeOK'
<1> USE DEF callers, onHost
<1>0. script \in [Script -> ScriptState] /\ script[s] \in ScriptState
  BY DEF TypeOK
<1>1. CASE Enter(s)
  <2>1. script' \in [Script -> ScriptState]
    BY <1>0, <1>1, MovedOn DEF Enter
  <2> QED BY <1>1, <2>1 DEF Enter, TypeOK
<1>2. CASE LockTimesOut(s)
  <2>1. script' \in [Script -> ScriptState]
    BY <1>0, <1>2, Leaves, Changed DEF LockTimesOut, Results
  <2> QED BY <1>2, <2>1 DEF LockTimesOut, TypeOK
<1>3. CASE Unreachable(s)
  <2>1. script' \in [Script -> ScriptState]
    BY <1>0, <1>3, Leaves, Changed DEF Unreachable, Results
  <2> QED BY <1>3, <2>1 DEF Unreachable, TypeOK
<1>4. CASE Publish(s)
  <2> DEFINE units == {u \in Planned[s[1]] : unit[u] = "active"}
  <2>1. s[1] \in Run /\ units \in SUBSET Unit
    BY <1>4, Names, RunnerStopsAssumption DEF Publish, Stops
  <2>2. CASE Exit(s, "ok") /\ UNCHANGED record
    BY <1>0, <1>4, <2>2, Exits DEF Publish, Results, TypeOK
  <2>3. CASE /\ record' = [owner |-> s[1], units |-> units]
             /\ script' = [script EXCEPT ![s].pc = "stop", ![s].todo = units]
             /\ UNCHANGED lock
    <3>1. script' \in [Script -> ScriptState]
      BY <1>0, <2>1, <2>3, Advanced
    <3> QED BY <1>4, <2>1, <2>3, <3>1 DEF Publish, TypeOK
  <2> QED BY <1>4, <2>2, <2>3 DEF Publish
<1>5. CASE StopRefused(s)
  BY <1>0, <1>5, Exits DEF StopRefused, Results, TypeOK
<1>6. CASE StopUnits(s)
  <2>1. script' \in [Script -> ScriptState]
    BY <1>0, <1>6, MovedOn DEF StopUnits
  <2>2. script[s].todo \subseteq Unit
    BY <1>0 DEF ScriptState
  <2> QED BY <1>6, <2>1, <2>2 DEF StopUnits, UnitState, TypeOK
<1>7. CASE Drained(s)
  BY <1>0, <1>7, Exits, Spent DEF Drained, Results, TypeOK
<1>8. CASE StartNothing(s)
  BY <1>0, <1>8, Exits DEF StartNothing, Results, TypeOK
<1>9. CASE StartRefused(s)
  BY <1>0, <1>9, Exits, Spent DEF StartRefused, Results, TypeOK
<1>10. CASE StartBegins(s)
  <2>1. record.units \in SUBSET Unit
    BY <1>10 DEF StartBegins, Owner, TypeOK
  <2>2. script' \in [Script -> ScriptState]
    BY <1>0, <1>10, <2>1, Advanced DEF StartBegins
  <2> QED BY <1>10, <2>2 DEF StartBegins, TypeOK
<1>11. CASE CheckUnit(s)
  <2>1. CASE script' = [script EXCEPT ![s].todo = @ \ {NextUnit(s)}]
    <3>1. script[s].todo \ {NextUnit(s)} \in SUBSET Unit
      BY <1>0 DEF ScriptState
    <3>2. script' \in [Script -> ScriptState]
      BY <1>0, <2>1, <3>1 DEF ScriptState
    <3> QED BY <1>11, <2>1, <3>2, <1>0, Exits DEF CheckUnit, Results, TypeOK
  <2>2. CASE Exit(s, "refused") /\ UNCHANGED stopped
    BY <1>0, <1>11, <2>2, Exits DEF CheckUnit, Results, TypeOK
  <2>3. CASE script' = [script EXCEPT ![s].pc = "go"] /\ UNCHANGED <<lock, stopped>>
    <3>1. script' \in [Script -> ScriptState]
      BY <1>0, <2>3, MovedOn
    <3> QED BY <1>11, <2>3, <3>1 DEF CheckUnit, TypeOK
  <2> QED BY <1>11, <2>1, <2>2, <2>3 DEF CheckUnit
<1>12. CASE StartUnit(s)
  <2>1. CASE Happens("fails") /\ Exit(s, "refused") /\ DoesNotStart(NextUnit(s)) /\ UNCHANGED stopped
    <3>1. unit' \in [Unit -> UnitState]
      BY <2>1 DEF DoesNotStart, UnitState, TypeOK
    <3> QED BY <1>0, <1>12, <2>1, <3>1, Exits, Spent DEF StartUnit, Results, TypeOK
  <2>2. CASE /\ unit' = [unit EXCEPT ![NextUnit(s)] = "active"]
             /\ stopped' = stopped \ {NextUnit(s)}
             /\ script' = [script EXCEPT ![s].pc = "start", ![s].todo = @ \ {NextUnit(s)}]
             /\ UNCHANGED <<lock, left>>
    <3>1. script[s].todo \ {NextUnit(s)} \in SUBSET Unit
      BY <1>0 DEF ScriptState
    <3>2. script' \in [Script -> ScriptState]
      BY <1>0, <2>2, <3>1, Advanced
    <3> QED BY <1>12, <2>2, <3>2 DEF StartUnit, UnitState, TypeOK
  <2> QED BY <1>12, <2>1, <2>2 DEF StartUnit
<1>13. CASE Retire(s)
  BY <1>0, <1>13, Exits DEF Retire, Results, TypeOK
<1>14. CASE HungUp(s)
  <2>1. script' \in [Script -> ScriptState]
    BY <1>0, <1>14, NoScriptTyped, Changed DEF HungUp
  <2> QED BY <1>14, <2>1 DEF HungUp, TypeOK
<1> QED BY <1>1, <1>2, <1>3, <1>4, <1>5, <1>6, <1>7, <1>8, <1>9, <1>10, <1>11, <1>12, <1>13, <1>14
        DEF ScriptStep

(* A caller's step leaves what is on the host as it is, and no script further *)
(* than its caller sent it.                                                   *)
SameOnHost(s) ==
    /\ script'[s].pc = script[s].pc /\ script'[s].todo = script[s].todo
    /\ script'[s].owner = script[s].owner

Calls ==
    /\ TypeOK' /\ UNCHANGED onHost
    /\ \A s \in Script : \/ SameOnHost(s)
                         \/ script'[s].pc \in {"none", "waiting"}

(* The steps of a run. *)
LEMMA RunCalls ==
    ASSUME TypeOK, NEW i \in Run, RunStep(i)
    PROVE  Calls
<1> USE DEF SameOnHost
<1>0. /\ run \in [Run -> RunState] /\ script \in [Script -> ScriptState]
      /\ <<i, "stop">> \in Script /\ <<i, "start">> \in Script
  BY Names DEF TypeOK
<1>a. ASSUME StartRunners(i), cmd' \in [Run -> {"none", "sent", "remote"}], left' \in 0 .. Budget,
             UNCHANGED <<res, onHost, reserved>>
      PROVE  Calls
  BY <1>0, <1>a, RunnersStarted, NoScriptTyped DEF onHost, Calls, TypeOK
<1>b. ASSUME NEW pc \in {"command", "sending", "waitDown", "waitUp", "ended", "dead"}, Goto(i, pc),
             cmd' \in [Run -> {"none", "sent", "remote"}], left' \in 0 .. Budget,
             UNCHANGED <<res, onHost, reserved>>,
             \/ UNCHANGED script
             \/ \E s \in {<<i, "stop">>, <<i, "start">>} : Read(s) \/ GiveUp(s)
      PROVE  Calls
  <2>1. run' \in [Run -> RunState]
    BY <1>0, <1>b, Gone
  <2>2. ASSUME NEW s \in Script, Read(s) \/ GiveUp(s)
        PROVE  /\ script' \in [Script -> ScriptState]
               /\ \A t \in Script : SameOnHost(t) \/ script'[t].pc \in {"none", "waiting"}
    <3>1. CASE Read(s)
      BY <1>0, <3>1, NoScriptTyped, Changed DEF Read
    <3>2. CASE GiveUp(s)
      BY <1>0, <3>2, NoScriptTyped, GivenUp
    <3> QED BY <2>2, <3>1, <3>2
  <2>3. /\ script' \in [Script -> ScriptState]
        /\ \A t \in Script : SameOnHost(t) \/ script'[t].pc \in {"none", "waiting"}
    BY <1>0, <1>b, <2>2
  <2> QED BY <1>b, <2>1, <2>3 DEF onHost, Calls, TypeOK
<1>1. CASE Begin(i)
  <2>1. CASE Goto(i, "ended") /\ UNCHANGED script
    BY <1>1, <1>b, <2>1 DEF Begin, TypeOK
  <2>2. CASE /\ run' = [run EXCEPT ![i].pc = "stop", ![i].boot = host.boot,
                                  ![i].stopped = Planned[i] # {}]
             /\ Launch(<<i, "stop">>, i)
    <3> DEFINE r == [run[i] EXCEPT !.pc = "stop", !.boot = host.boot, !.stopped = Planned[i] # {}]
    <3>1. run[i] \in RunState /\ host.boot \in Nat
      BY DEF TypeOK
    <3>2. r \in RunState
      BY <3>1 DEF RunState
    <3>3. run' = [run EXCEPT ![i] = r]
      BY <2>2
    <3> HIDE DEF r
    <3>4. run' \in [Run -> RunState]
      BY <1>0, <3>2, <3>3
    <3>5. /\ script' \in [Script -> ScriptState]
          /\ \A s \in Script : SameOnHost(s) \/ script'[s].pc \in {"none", "waiting"}
      BY <1>0, <2>2, Launched
    <3> QED BY <1>1, <3>4, <3>5 DEF Begin, onHost, Calls, TypeOK
  <2> QED BY <1>1, <2>1, <2>2 DEF Begin
<1>2. CASE StopReturns(i)
  BY <1>2, <1>a, <1>b, Spent DEF StopReturns, TypeOK
<1>3. CASE SendReboot(i)
  BY <1>3, <1>a, <1>b DEF SendReboot, TypeOK
<1>4. CASE RebootReturns(i)
  BY <1>4, <1>a, <1>b, Spent DEF RebootReturns, Dropped, TypeOK
<1>5. CASE WaitDown(i)
  BY <1>5, <1>a, <1>b, Spent DEF WaitDown, TypeOK
<1>6. CASE WaitUp(i)
  BY <1>6, <1>a, <1>b, Spent DEF WaitUp, TypeOK
<1>7. CASE StartReturns(i)
  BY <1>7, <1>a, <1>b, Spent DEF StartReturns, TypeOK
<1> QED BY <1>1, <1>2, <1>3, <1>4, <1>5, <1>6, <1>7 DEF RunStep

(* The faults of a run, and its reboot command. *)
LEMMA FaultCalls ==
    ASSUME TypeOK, NEW i \in Run, Interrupt(i) \/ Crash(i) \/ Arrives(i)
    PROVE  Calls
<1> USE DEF SameOnHost
<1>1. CASE Interrupt(i)
  <2>1. run[i] \in RunState
    BY DEF TypeOK
  <2>2. [run[i] EXCEPT !.interrupted = TRUE] \in RunState
    BY <2>1 DEF RunState
  <2>3. run' \in [Run -> RunState]
    BY <1>1, <2>2 DEF Interrupt, TypeOK
  <2> QED BY <1>1, <2>3 DEF Interrupt, onHost, Calls, TypeOK
<1>2. CASE Crash(i)
  <2>1. run' \in [Run -> RunState]
    BY <1>2, Gone DEF Crash, TypeOK
  <2>2. /\ script' \in [Script -> ScriptState]
        /\ \A s \in Script : SameOnHost(s) \/ script'[s].pc \in {"none", "waiting"}
    BY <1>2, Forgotten, NoScriptTyped DEF Crash, TypeOK
  <2> QED BY <1>2, <2>1, <2>2 DEF Crash, onHost, Calls, TypeOK
<1>3. CASE Arrives(i)
  BY <1>3 DEF Arrives, onHost, Calls, TypeOK
<1> QED BY <1>1, <1>2, <1>3

(* The steps of a resume. *)
LEMMA ResumeCalls ==
    ASSUME TypeOK, NEW o \in Resume, ResumeStep(o) \/ ResumeCrash(o)
    PROVE  Calls
<1> USE DEF SameOnHost
<1>0. script \in [Script -> ScriptState] /\ <<o, "start">> \in Script
  BY Names DEF TypeOK
<1>n. Nothing \in ResumeState /\ Nothing.pc = "idle"
  BY DEF Nothing, ResumeState
<1>1. CASE ResumeRead(o)
  <2>1. [pc |-> "reserve", owner |-> record.owner] \in ResumeState
    BY <1>1 DEF ResumeRead, TypeOK, ResumeState
  <2> QED BY <1>1, <2>1 DEF ResumeRead, onHost, Calls, TypeOK
<1>r. ASSUME NEW pc \in {"inspect", "start", "retained"}, res[o].pc \notin {"idle"}
      PROVE  [res[o] EXCEPT !.pc = pc] \in ResumeState
  <2>1. res[o] \in ResumeState /\ res[o] # Nothing
    BY <1>r DEF TypeOK, Nothing
  <2>2. res[o] \in [pc : {"reserve", "inspect", "start", "retained"}, owner : Run]
    BY <2>1 DEF ResumeState
  <2>3. [res[o] EXCEPT !.pc = pc] \in [pc : {"reserve", "inspect", "start", "retained"}, owner : Run]
    BY <2>2
  <2> QED BY <2>3 DEF ResumeState
<1>2. CASE ResumeReserve(o)
  <2>1. [res[o] EXCEPT !.pc = "inspect"] \in ResumeState
    BY <1>2, <1>r DEF ResumeReserve
  <2>2. res' \in [Resume -> ResumeState] /\ reserved' \in Resume \cup {None}
    BY <1>2, <2>1, <1>n DEF ResumeReserve, TypeOK
  <2> QED BY <1>2, <2>2 DEF ResumeReserve, onHost, Calls, TypeOK
<1>3. CASE ResumeInspect(o)
  <2>1. [res[o] EXCEPT !.pc = "start"] \in ResumeState
    BY <1>3, <1>r DEF ResumeInspect
  <2>2. res' \in [Resume -> ResumeState] /\ reserved' \in Resume \cup {None}
    BY <1>3, <2>1, <1>n DEF ResumeInspect, TypeOK
  <2>3. res[o].owner \in Run
    BY <1>3 DEF ResumeInspect, TypeOK, ResumeState, Nothing
  <2>4. /\ script' \in [Script -> ScriptState]
        /\ \A s \in Script : SameOnHost(s) \/ script'[s].pc \in {"none", "waiting"}
    BY <1>0, <1>3, <2>3, Launched DEF ResumeInspect
  <2> QED BY <1>3, <2>2, <2>4 DEF ResumeInspect, onHost, Calls, TypeOK
<1>4. CASE ResumeReturns(o)
  <2>1. [res[o] EXCEPT !.pc = "retained"] \in ResumeState
    BY <1>4, <1>r DEF ResumeReturns
  <2>2. res' \in [Resume -> ResumeState] /\ reserved' \in Resume \cup {None} /\ left' \in 0 .. Budget
    BY <1>4, <2>1, <1>n, Spent DEF ResumeReturns, TypeOK
  <2>3. /\ script' \in [Script -> ScriptState]
        /\ \A s \in Script : SameOnHost(s) \/ script'[s].pc \in {"none", "waiting"}
    <3>1. CASE Read(<<o, "start">>)
      BY <1>0, <3>1, NoScriptTyped, Changed DEF Read
    <3>2. CASE GiveUp(<<o, "start">>)
      BY <1>0, <3>2, NoScriptTyped, GivenUp
    <3> QED BY <1>4, <3>1, <3>2 DEF ResumeReturns
  <2> QED BY <1>4, <2>2, <2>3 DEF ResumeReturns, onHost, Calls, TypeOK
<1>5. CASE ResumeCrash(o)
  <2>1. [res[o] EXCEPT !.pc = "retained"] \in ResumeState
    BY <1>5, <1>r DEF ResumeCrash
  <2>2. res' \in [Resume -> ResumeState] /\ left' \in 0 .. Budget
    BY <1>5, <2>1, Spent DEF ResumeCrash, TypeOK
  <2>3. /\ script' \in [Script -> ScriptState]
        /\ \A s \in Script : SameOnHost(s) \/ script'[s].pc \in {"none", "waiting"}
    BY <1>0, <1>5, Forgotten, NoScriptTyped DEF ResumeCrash
  <2> QED BY <1>5, <2>2, <2>3 DEF ResumeCrash, onHost, Calls, TypeOK
<1>6. CASE ReleaseRetained(o)
  BY <1>6, <1>n DEF ReleaseRetained, onHost, Calls, TypeOK
<1> QED BY <1>1, <1>2, <1>3, <1>4, <1>5, <1>6 DEF ResumeStep

(* The host's own steps. *)
LEMMA HostTyped ==
    ASSUME TypeOK, \/ HostStep
                   \/ \E i \in Run : Queues(i)
                   \/ \E u \in Unit : Mended(u) \/ StartedByOther(u)
    PROVE  TypeOK'
<1>1. CASE GoesDown
  <2>1. script' \in [Script -> ScriptState]
    BY <1>1, Leaves DEF GoesDown, TypeOK, Results
  <2> QED BY <1>1, <2>1 DEF GoesDown, UnitState, TypeOK
<1>2. CASE ComesUp
  <2>1. host \in [boot : Nat, up : BOOLEAN, halting : BOOLEAN]
    BY DEF TypeOK
  <2>2. [host EXCEPT !.boot = host.boot + 1, !.up = TRUE] \in [boot : Nat, up : BOOLEAN, halting : BOOLEAN]
    <3>1. host.boot + 1 \in Nat
      BY <2>1
    <3> QED BY <2>1, <3>1
  <2>3. unit' \in [Unit -> UnitState]
    BY <1>2 DEF ComesUp, UnitState
  <2> QED BY <1>2, <2>2, <2>3 DEF ComesUp, TypeOK
<1>3. ASSUME NEW u \in Unit, UnitStops(u) PROVE TypeOK'
  BY <1>3, Spent DEF UnitStops, UnitState, TypeOK
<1>4. ASSUME NEW i \in Run, Queues(i) PROVE TypeOK'
  BY <1>4 DEF Queues, TypeOK
<1>5. ASSUME NEW u \in Unit, StartedByOther(u) PROVE TypeOK'
  BY <1>5, Spent DEF StartedByOther, UnitState, TypeOK
<1>6. ASSUME NEW u \in Unit, Mended(u) PROVE TypeOK'
  BY <1>6 DEF Mended, UnitState, TypeOK
<1> QED BY <1>1, <1>2, <1>3, <1>4, <1>5, <1>6 DEF HostStep

(* Every step keeps the types. *)
LEMMA StepTyped == TypeOK /\ [Next]_vars => TypeOK'
<1> SUFFICES ASSUME TypeOK, [Next]_vars PROVE TypeOK'
  OBVIOUS
<1>1. ASSUME NEW s \in Script, ScriptStep(s) \/ HungUp(s) PROVE TypeOK'
  BY <1>1, ScriptStepTyped
<1>2. ASSUME NEW i \in Run, RunStep(i) PROVE TypeOK'
  BY <1>2, RunCalls DEF Calls
<1>3. ASSUME NEW i \in Run, Interrupt(i) \/ Crash(i) \/ Arrives(i) PROVE TypeOK'
  BY <1>3, FaultCalls DEF Calls
<1>4. ASSUME NEW o \in Resume, ResumeStep(o) \/ ResumeCrash(o) PROVE TypeOK'
  BY <1>4, ResumeCalls DEF Calls
<1>5. CASE UNCHANGED vars
  BY <1>5 DEF vars, TypeOK
<1> QED BY <1>1, <1>2, <1>3, <1>4, <1>5, HostTyped DEF Next

(* The initial state is typed. *)
LEMMA InitTyped == Init => TypeOK
<1> SUFFICES ASSUME Init PROVE TypeOK
  OBVIOUS
<1>1. run \in [Run -> RunState]
  BY DEF Init, RunState
<1>2. res \in [Resume -> ResumeState]
  BY DEF Init, ResumeState
<1>3. script \in [Script -> ScriptState]
  BY NoScriptTyped DEF Init
<1>4. left \in 0 .. Budget
  BY RunnerStopsAssumption DEF Init
<1> QED BY <1>1, <1>2, <1>3, <1>4 DEF Init, UnitState, TypeOK

-----------------------------------------------------------------------------
(* What is stopped is recorded *)

\* The places of a script under the flock.
OnHostPCs == {"locked", "stop", "drain", "start", "go"}

(* No script but the flock's holder is past the flock. *)
LEMMA Alone ==
    ASSUME LockHeld, NEW s \in Script, NEW t \in Script, OnHost(s), t # s
    PROVE  script[t].pc \notin OnHostPCs
BY DEF LockHeld, OnHost, OnHostPCs

(* With nobody under the flock the phases say nothing. *)
LEMMA NobodyThere ==
    ASSUME TypeOK', StoppedIsRecorded', \A t \in Script : script'[t].pc \notin OnHostPCs
    PROVE  RecordInv'
BY DEF RecordInv, LockHeld, StopPhase, StartPhase, OnHost, OnHostPCs

(* A script that exits was the only one. *)
LEMMA ExitKeeps ==
    ASSUME RecordInv, NEW s \in Script, OnHost(s), NEW result \in Results, Exit(s, result),
           TypeOK', StoppedIsRecorded'
    PROVE  RecordInv'
<1>1. \A t \in Script : script'[t].pc \notin OnHostPCs
  <2> TAKE t \in Script
  <2>1. CASE t = s
    BY <2>1, Exits DEF RecordInv, TypeOK, Results, OnHostPCs
  <2>2. CASE t # s
    BY <2>2, Exits, Alone DEF RecordInv, TypeOK
  <2> QED BY <2>1, <2>2
<1> QED BY <1>1, NobodyThere

(* A script that goes on as the only one, in a phase of its own. *)
LEMMA OnlyOne ==
    ASSUME RecordInv, NEW s \in Script, OnHost(s), lock' = lock, TypeOK', StoppedIsRecorded',
           \A t \in Script : t # s => script'[t] = script[t],
           script'[s].pc \in {"stop", "drain"} =>
               Stops(s) /\ record' # None /\ record'.owner = s[1] /\ script'[s].todo \subseteq record'.units,
           script'[s].pc \in {"start", "go"} =>
               ~Stops(s) /\ record' # None /\ stopped' \subseteq script'[s].todo
    PROVE  RecordInv'
<1>1. \A t \in Script : t # s => script'[t].pc \notin OnHostPCs
  BY Alone DEF RecordInv
<1>2. lock = s
  BY DEF RecordInv, LockHeld
<1>3. LockHeld'
  BY <1>1, <1>2 DEF LockHeld, OnHost, OnHostPCs
<1>4. StopPhase'
  BY <1>1 DEF StopPhase, OnHostPCs
<1>5. StartPhase'
  BY <1>1 DEF StartPhase, OnHostPCs
<1> QED BY <1>3, <1>4, <1>5 DEF RecordInv

(* Every step of a script. *)
LEMMA ScriptStepKeeps ==
    ASSUME RecordInv, NEW s \in Script, ScriptStep(s) \/ HungUp(s)
    PROVE  RecordInv'
<1> USE DEF callers, onHost
<1>0. /\ TypeOK' /\ TypeOK /\ script \in [Script -> ScriptState] /\ script[s] \in ScriptState
      /\ LockHeld /\ StopPhase /\ StartPhase /\ StoppedIsRecorded
  BY ScriptStepTyped DEF RecordInv, TypeOK
<1>1. CASE Enter(s)
  <2>1. /\ script'[s].pc = "locked" /\ lock' = s
        /\ \A t \in Script : t # s => script'[t] = script[t]
    BY <1>0, <1>1, MovedOn DEF Enter
  <2>2. \A t \in Script : script[t].pc \notin OnHostPCs
    BY <1>0, <1>1, NobodyIsNone DEF Enter, LockHeld, OnHost, OnHostPCs
  <2>3. LockHeld' /\ StopPhase' /\ StartPhase'
    BY <2>1, <2>2 DEF LockHeld, StopPhase, StartPhase, OnHost, OnHostPCs
  <2> QED BY <1>0, <1>1, <2>3 DEF Enter, RecordInv, StoppedIsRecorded
<1>2. ASSUME script[s].pc = "waiting", NEW result \in Results,
             script' = [script EXCEPT ![s] = Status(s, result)], UNCHANGED onHost
      PROVE  RecordInv'
  <2>1. /\ script'[s].pc \notin OnHostPCs
        /\ \A t \in Script : t # s => script'[t] = script[t]
    BY <1>0, <1>2, Leaves, Changed DEF Results, OnHostPCs
  <2>2. LockHeld' /\ StopPhase' /\ StartPhase'
    BY <1>0, <1>2, <2>1 DEF LockHeld, StopPhase, StartPhase, OnHost, OnHostPCs
  <2> QED BY <1>0, <1>2, <2>2 DEF RecordInv, StoppedIsRecorded
<1>3. CASE LockTimesOut(s) \/ Unreachable(s)
  BY <1>2, <1>3 DEF LockTimesOut, Unreachable, Results
<1>4. CASE Publish(s)
  <2>0. OnHost(s) /\ stopped = {} /\ Stops(s) /\ UNCHANGED stopped
    BY <1>0, <1>4 DEF Publish, OnHost, StoppedIsRecorded
  <2> DEFINE units == {u \in Planned[s[1]] : unit[u] = "active"}
  <2>1. CASE Exit(s, "ok") /\ UNCHANGED record
    BY <1>0, <2>0, <2>1, ExitKeeps DEF Results, StoppedIsRecorded
  <2>2. CASE /\ record' = [owner |-> s[1], units |-> units]
             /\ script' = [script EXCEPT ![s].pc = "stop", ![s].todo = units]
             /\ UNCHANGED lock
    <3>1. units \in SUBSET Unit /\ s[1] \in Run
      BY <2>0, Names, RunnerStopsAssumption DEF Stops
    <3>2. /\ script'[s].pc = "stop" /\ script'[s].todo = units
          /\ \A t \in Script : t # s => script'[t] = script[t]
      BY <1>0, <2>2, <3>1, Advanced
    <3>3. record'.owner = s[1] /\ record'.units = units /\ record' # None
      <4>1. record' \in [owner : Run, units : SUBSET Unit]
        BY <2>2, <3>1
      <4> HIDE DEF units
      <4>2. record'.owner = s[1] /\ record'.units = units
        BY <2>2
      <4>3. record' # None
        BY <4>1, NoneIsNoRecord
      <4> QED BY <4>2, <4>3
    <3> QED BY <1>0, <2>0, <2>2, <3>2, <3>3, OnlyOne DEF StoppedIsRecorded
  <2> QED BY <1>4, <2>1, <2>2 DEF Publish
<1>5. CASE StopRefused(s) \/ Drained(s) \/ StartNothing(s) \/ StartRefused(s)
  <2>1. OnHost(s) /\ UNCHANGED <<record, stopped>> /\ \E result \in Results : Exit(s, result)
    BY <1>5 DEF StopRefused, Drained, StartNothing, StartRefused, OnHost, Results
  <2>2. StoppedIsRecorded'
    BY <1>0, <2>1 DEF StoppedIsRecorded
  <2> QED BY <1>0, <2>1, <2>2, ExitKeeps
<1>6. CASE StopUnits(s)
  <2>0. OnHost(s) /\ Stops(s) /\ record # None /\ record.owner = s[1] /\ script[s].todo \subseteq record.units
    BY <1>0, <1>6 DEF StopUnits, OnHost, StopPhase
  <2>1. /\ script'[s].pc = "drain" /\ script'[s].todo = script[s].todo
        /\ \A t \in Script : t # s => script'[t] = script[t]
    BY <1>0, <1>6, MovedOn DEF StopUnits
  <2>2. StoppedIsRecorded'
    BY <1>0, <1>6, <2>0 DEF StopUnits, StoppedIsRecorded
  <2> QED BY <1>0, <1>6, <2>0, <2>1, <2>2, OnlyOne DEF StopUnits
<1>7. CASE StartBegins(s)
  <2>0. OnHost(s) /\ ~Stops(s) /\ record # None /\ record.units \in SUBSET Unit
    BY <1>0, <1>7 DEF StartBegins, OnHost, Owner, TypeOK
  <2>1. /\ script'[s].pc = "start" /\ script'[s].todo = record.units
        /\ \A t \in Script : t # s => script'[t] = script[t]
    BY <1>0, <1>7, <2>0, Advanced DEF StartBegins
  <2>2. StoppedIsRecorded' /\ stopped \subseteq record.units
    BY <1>0, <1>7 DEF StartBegins, StoppedIsRecorded
  <2> QED BY <1>0, <1>7, <2>0, <2>1, <2>2, OnlyOne DEF StartBegins
<1>8. CASE CheckUnit(s)
  <2>0. OnHost(s) /\ ~Stops(s) /\ record # None /\ stopped \subseteq script[s].todo /\ UNCHANGED record
    BY <1>0, <1>8 DEF CheckUnit, OnHost, StartPhase
  <2>1. StoppedIsRecorded'
    BY <1>0, <1>8 DEF CheckUnit, StoppedIsRecorded
  <2>2. CASE Exit(s, "refused")
    BY <1>0, <2>0, <2>1, <2>2, ExitKeeps DEF Results
  <2>3. CASE /\ script' = [script EXCEPT ![s].todo = @ \ {NextUnit(s)}]
             /\ stopped' = stopped \ {NextUnit(s)} /\ UNCHANGED lock
    <3>1. /\ script'[s].pc = "start" /\ script'[s].todo = script[s].todo \ {NextUnit(s)}
          /\ \A t \in Script : t # s => script'[t] = script[t]
      BY <1>0, <1>8, <2>3 DEF CheckUnit, ScriptState
    <3> QED BY <1>0, <2>0, <2>1, <2>3, <3>1, OnlyOne
  <2>4. CASE script' = [script EXCEPT ![s].pc = "go"] /\ UNCHANGED <<lock, stopped>>
    <3>1. /\ script'[s].pc = "go" /\ script'[s].todo = script[s].todo
          /\ \A t \in Script : t # s => script'[t] = script[t]
      BY <1>0, <2>4, MovedOn
    <3> QED BY <1>0, <2>0, <2>1, <2>4, <3>1, OnlyOne
  <2> QED BY <1>8, <2>2, <2>3, <2>4 DEF CheckUnit
<1>9. CASE StartUnit(s)
  <2>0. OnHost(s) /\ ~Stops(s) /\ record # None /\ stopped \subseteq script[s].todo /\ UNCHANGED record
    BY <1>0, <1>9 DEF StartUnit, OnHost, StartPhase
  <2>1. StoppedIsRecorded'
    BY <1>0, <1>9 DEF StartUnit, StoppedIsRecorded
  <2>2. CASE Exit(s, "refused")
    BY <1>0, <2>0, <2>1, <2>2, ExitKeeps DEF Results
  <2>3. CASE /\ stopped' = stopped \ {NextUnit(s)}
             /\ script' = [script EXCEPT ![s].pc = "start", ![s].todo = @ \ {NextUnit(s)}]
             /\ UNCHANGED <<lock, left>>
    <3>1. script[s].todo \ {NextUnit(s)} \in SUBSET Unit
      BY <1>0 DEF ScriptState
    <3>2. /\ script'[s].pc = "start" /\ script'[s].todo = script[s].todo \ {NextUnit(s)}
          /\ \A t \in Script : t # s => script'[t] = script[t]
      BY <1>0, <2>3, <3>1, Advanced
    <3> QED BY <1>0, <2>0, <2>1, <2>3, <3>2, OnlyOne
  <2> QED BY <1>9, <2>2, <2>3 DEF StartUnit
<1>10. CASE Retire(s)
  <2>1. OnHost(s) /\ stopped = {} /\ UNCHANGED stopped /\ Exit(s, "ok")
    BY <1>0, <1>10 DEF Retire, OnHost, StartPhase
  <2>2. StoppedIsRecorded'
    BY <2>1 DEF StoppedIsRecorded
  <2> QED BY <1>0, <2>1, <2>2, ExitKeeps DEF Results
<1>11. CASE HungUp(s)
  <2>1. /\ script'[s].pc = "none"
        /\ \A t \in Script : t # s => script'[t] = script[t]
    BY <1>0, <1>11, NoScriptTyped, Changed DEF HungUp
  <2>2. LockHeld'
    BY <1>0, <1>11, <2>1 DEF HungUp, LockHeld, OnHost
  <2>3. StopPhase' /\ StartPhase'
    BY <1>0, <1>11, <2>1 DEF HungUp, StopPhase, StartPhase
  <2> QED BY <1>0, <1>11, <2>2, <2>3 DEF HungUp, RecordInv, StoppedIsRecorded
<1> QED BY <1>1, <1>3, <1>4, <1>5, <1>6, <1>7, <1>8, <1>9, <1>10, <1>11 DEF ScriptStep

(* A caller's step, and the host's. *)
LEMMA CallsKeep == ASSUME RecordInv, Calls PROVE RecordInv'
<1>1. /\ UNCHANGED <<lock, record, stopped>>
      /\ \A s \in Script : SameOnHost(s) \/ script'[s].pc \in {"none", "waiting"}
  BY DEF Calls, onHost
<1>2. LockHeld'
  BY <1>1 DEF RecordInv, LockHeld, OnHost, SameOnHost
<1>3. StopPhase' /\ StartPhase'
  BY <1>1 DEF RecordInv, StopPhase, StartPhase, SameOnHost
<1> QED BY <1>1, <1>2, <1>3 DEF RecordInv, Calls, StoppedIsRecorded

(* The host's own steps (down, up, a queued shutdown, a unit started by
   somebody else) keep RecordInv: a boot takes /run, scripts and flock with it. *)
LEMMA HostKeeps ==
    ASSUME RecordInv, HostStep \/ (\E i \in Run : Queues(i)) \/ (\E u \in Unit : Mended(u) \/ StartedByOther(u))
    PROVE  RecordInv'
<1>0. TypeOK' /\ TypeOK
  BY HostTyped DEF RecordInv
<1>1. CASE GoesDown
  <2>1. \A t \in Script : script'[t].pc \notin OnHostPCs
    BY <1>0, <1>1, Leaves DEF GoesDown, TypeOK, Results, Sent, OnHost, OnHostPCs
  <2> QED BY <1>0, <1>1, <2>1, NobodyThere DEF GoesDown, StoppedIsRecorded
<1>2. CASE UNCHANGED <<script, lock, record, stopped>>
  BY <1>0, <1>2 DEF RecordInv, LockHeld, StopPhase, StartPhase, OnHost, StoppedIsRecorded
<1> QED BY <1>1, <1>2 DEF HostStep, ComesUp, UnitStops, Queues, Mended, StartedByOther

(* StoppedIsRecorded with what makes it inductive: the flock keeps the scripts *)
(* apart, a stop works on what its record lists, and what a start has yet to   *)
(* start includes everything that is stopped, so an empty rest means that the  *)
(* record may go.                                                              *)
LEMMA StepKeepsRecord == RecordInv /\ [Next]_vars => RecordInv'
<1> SUFFICES ASSUME RecordInv, [Next]_vars PROVE RecordInv'
  OBVIOUS
<1>0. TypeOK
  BY DEF RecordInv
<1>1. ASSUME NEW s \in Script, ScriptStep(s) \/ HungUp(s) PROVE RecordInv'
  BY <1>1, ScriptStepKeeps
<1>2. ASSUME NEW i \in Run, RunStep(i) \/ Interrupt(i) \/ Crash(i) \/ Arrives(i) PROVE RecordInv'
  BY <1>0, <1>2, RunCalls, FaultCalls, CallsKeep
<1>3. ASSUME NEW o \in Resume, ResumeStep(o) \/ ResumeCrash(o) PROVE RecordInv'
  BY <1>0, <1>3, ResumeCalls, CallsKeep
<1>4. CASE UNCHANGED vars
  BY <1>4 DEF vars, RecordInv, TypeOK, LockHeld, StopPhase, StartPhase, OnHost, StoppedIsRecorded
<1> QED BY <1>1, <1>2, <1>3, <1>4, HostKeeps DEF Next

(* RecordInv holds at first: there is no script and nothing is stopped. *)
LEMMA InitRecord == Init => RecordInv
<1> SUFFICES ASSUME Init PROVE RecordInv
  OBVIOUS
<1>1. \A s \in Script : script[s].pc = "none"
  BY NoScriptTyped DEF Init
<1> QED BY <1>1, InitTyped DEF Init, RecordInv, LockHeld, StopPhase, StartPhase, OnHost, StoppedIsRecorded

-----------------------------------------------------------------------------
(* What a script's step leaves to the others *)

\* It changes nothing but itself and what is on the host; it is over, with a
\* status for a caller that waits, or goes on as it was sent.
ScriptMoves(s) ==
    /\ UNCHANGED <<run, res, cmd, reserved, host>>
    /\ Sent(s) /\ \A t \in Script : t # s => script'[t] = script[t]
    /\ \/ script'[s].pc = "none"
       \/ script'[s].pc \in Results /\ script[s].client /\ Waits(s)
       \/ /\ script'[s].pc \in OnHostPCs /\ script'[s].owner = script[s].owner
          /\ script'[s].client = script[s].client
    /\ script'[s].pc = "ok" => \/ script[s].pc \in {"drain", "start"}
                               \/ ~Stops(s)
                               \/ Planned[s[1]] = {}
    /\ script'[s].pc \in {"start", "go"} => /\ record' = record
                                            /\ \/ script[s].pc \in {"start", "go"}
                                               \/ Owner(s) /\ ~ShutdownSeen
    /\ \/ record' = record
       \/ script[s].pc = "locked" /\ record = None
       \/ script[s].pc = "start" /\ record' = None

(* Every step of a script is one of the moves that ScriptMoves lists. *)
LEMMA EveryScriptMoves ==
    ASSUME TypeOK, NEW s \in Script, ScriptStep(s) \/ HungUp(s)
    PROVE  ScriptMoves(s)
<1> USE DEF callers, onHost, ScriptMoves, Results, OnHostPCs, Sent, OnHost
<1>0. script \in [Script -> ScriptState] /\ script[s] \in ScriptState
  BY DEF TypeOK
<1>a. ASSUME NEW result \in Results, script' = [script EXCEPT ![s] = Status(s, result)]
      PROVE  /\ \A t \in Script : t # s => script'[t] = script[t]
             /\ \/ script'[s].pc = "none"
                \/ script'[s].pc = result /\ script[s].client /\ Waits(s)
  BY <1>0, <1>a, Leaves, Changed
<1>b. ASSUME NEW result \in Results, Exit(s, result)
      PROVE  /\ \A t \in Script : t # s => script'[t] = script[t]
             /\ \/ script'[s].pc = "none"
                \/ script'[s].pc = result /\ script[s].client /\ Waits(s)
  BY <1>b, <1>a DEF Exit
<1>1. CASE Enter(s)
  BY <1>0, <1>1, MovedOn DEF Enter
<1>2. CASE LockTimesOut(s)
  BY <1>2, <1>a DEF LockTimesOut
<1>3. CASE Unreachable(s)
  BY <1>3, <1>a DEF Unreachable
<1>4. CASE Publish(s)
  <2> DEFINE units == {u \in Planned[s[1]] : unit[u] = "active"}
  <2>1. CASE Exit(s, "ok") /\ UNCHANGED record /\ Planned[s[1]] = {}
    BY <1>4, <2>1, <1>b DEF Publish
  <2>2. CASE script' = [script EXCEPT ![s].pc = "stop", ![s].todo = units]
    <3>1. units \in SUBSET Unit
      BY <1>4, Names, RunnerStopsAssumption DEF Publish, Stops
    <3> HIDE DEF units
    <3> QED BY <1>0, <1>4, <2>2, <3>1, Advanced DEF Publish
  <2> QED BY <1>4, <2>1, <2>2 DEF Publish
<1>5. CASE StopRefused(s)
  BY <1>5, <1>b DEF StopRefused
<1>6. CASE StopUnits(s)
  BY <1>0, <1>6, MovedOn DEF StopUnits
<1>7. CASE Drained(s)
  BY <1>7, <1>b DEF Drained
<1>8. CASE StartNothing(s)
  BY <1>8, <1>b DEF StartNothing
<1>9. CASE StartRefused(s)
  BY <1>9, <1>b DEF StartRefused
<1>10. CASE StartBegins(s)
  <2>1. record.units \in SUBSET Unit
    BY <1>10 DEF StartBegins, Owner, TypeOK
  <2> QED BY <1>0, <1>10, <2>1, Advanced DEF StartBegins
<1>11. CASE CheckUnit(s)
  <2>1. CASE script' = [script EXCEPT ![s].todo = @ \ {NextUnit(s)}]
    BY <1>0, <1>11, <2>1 DEF CheckUnit, ScriptState
  <2>2. CASE Exit(s, "refused")
    BY <1>11, <2>2, <1>b DEF CheckUnit
  <2>3. CASE script' = [script EXCEPT ![s].pc = "go"]
    BY <1>0, <1>11, <2>3, MovedOn DEF CheckUnit
  <2> QED BY <1>11, <2>1, <2>2, <2>3 DEF CheckUnit
<1>12. CASE StartUnit(s)
  <2>1. CASE Exit(s, "refused")
    BY <1>12, <2>1, <1>b DEF StartUnit
  <2>2. CASE script' = [script EXCEPT ![s].pc = "start", ![s].todo = @ \ {NextUnit(s)}]
    <3>1. script[s].todo \ {NextUnit(s)} \in SUBSET Unit
      BY <1>0 DEF ScriptState
    <3> QED BY <1>0, <1>12, <2>2, <3>1, Advanced DEF StartUnit
  <2> QED BY <1>12, <2>1, <2>2 DEF StartUnit
<1>13. CASE Retire(s)
  BY <1>13, <1>b DEF Retire
<1>14. CASE HungUp(s)
  BY <1>0, <1>14, NoScriptTyped, Changed DEF HungUp
<1> QED BY <1>1, <1>2, <1>3, <1>4, <1>5, <1>6, <1>7, <1>8, <1>9, <1>10, <1>11, <1>12, <1>13, <1>14
        DEF ScriptStep

-----------------------------------------------------------------------------
(* A resume holds the reservation *)

(* No step takes a resume's reservation from it while its scripts run. *)
LEMMA StepKeepsReserved == ReservedInv /\ [Next]_vars => ReservedInv'
<1> SUFFICES ASSUME ReservedInv, [Next]_vars PROVE ReservedInv'
  OBVIOUS
<1>0. /\ TypeOK /\ TypeOK' /\ Reserved /\ script \in [Script -> ScriptState]
      /\ \A o \in Resume : <<o, "start">> \in Script
  BY StepTyped, Names DEF ReservedInv, TypeOK
<1>a. ASSUME UNCHANGED <<res, reserved>>,
             \A o \in Resume : Sent(<<o, "start">>)' => Sent(<<o, "start">>)
      PROVE  ReservedInv'
  BY <1>0, <1>a DEF ReservedInv, Reserved
\* Only a resume launches its script.
<1>1. ASSUME NEW s \in Script, ScriptStep(s) \/ HungUp(s) PROVE ReservedInv'
  BY <1>0, <1>1, <1>a, EveryScriptMoves DEF ScriptMoves, Sent, OnHost
<1>2. ASSUME NEW i \in Run, RunStep(i) \/ Interrupt(i) \/ Crash(i) \/ Arrives(i) \/ Queues(i) PROVE ReservedInv'
  <2>0. UNCHANGED <<res, reserved>>
    BY <1>2 DEF RunStep, Begin, StopReturns, SendReboot, RebootReturns, WaitDown, WaitUp, StartReturns,
       Interrupt, Crash, Arrives, Queues
  <2>1. \A o \in Resume : Sent(<<o, "start">>)' => Sent(<<o, "start">>)
    <3> TAKE o \in Resume
    <3>1. o # i
      BY RunnerStopsAssumption
    <3>2. <<o, "start">> \in Script /\ <<o, "start">>[1] = o /\ <<o, "start">> \notin {<<i, "stop">>, <<i, "start">>}
      BY <1>0, <3>1
    <3>3. script'[<<o, "start">>] = script[<<o, "start">>]
      BY <1>0, <1>2, <3>1, <3>2 DEF RunStep, Begin, StopReturns, SendReboot, RebootReturns, WaitDown, WaitUp,
         StartReturns, Interrupt, Crash, Arrives, Queues, StartRunners, Launch, Read, GiveUp, Forget
    <3> QED BY <3>3 DEF Sent, OnHost
  <2> QED BY <1>a, <2>0, <2>1
<1>3. ASSUME NEW o \in Resume, ResumeStep(o) \/ ResumeCrash(o) PROVE ReservedInv'
  <2> DEFINE s == <<o, "start">>
  <2>0. /\ res \in [Resume -> ResumeState] /\ o # None /\ s \in Script /\ s[1] = o
        /\ \A p \in Resume : p # o => <<p, "start">> # s
    BY <1>0, NobodyIsNone DEF TypeOK
  \* Nobody else's place, script or reservation changes.
  <2>1. ASSUME \A p \in Resume : p # o => res'[p] = res[p] /\ (Sent(<<p, "start">>)' => Sent(<<p, "start">>)),
               \/ reserved' = reserved
               \/ reserved = None /\ reserved' = o
               \/ reserved = o /\ reserved' = None,
               res'[o].pc \in {"inspect", "start", "retained"} => reserved' = o,
               Sent(s)' => res'[o].pc \in {"start", "retained"}
        PROVE  ReservedInv'
    BY <1>0, <2>0, <2>1, NobodyIsNone DEF ReservedInv, Reserved
  <2>2. CASE ResumeRead(o)
    <3>1. UNCHANGED <<script, reserved>> /\ res'[o].pc = "reserve" /\ res[o].pc = "idle"
          /\ \A p \in Resume : p # o => res'[p] = res[p]
      BY <2>0, <2>2 DEF ResumeRead, onHost
    <3>2. ~Sent(s)
      BY <1>0, <3>1 DEF Reserved
    <3> QED BY <2>1, <3>1, <3>2 DEF Sent, OnHost
  <2>3. CASE ResumeReserve(o)
    <3>1. UNCHANGED script /\ res[o].pc = "reserve"
          /\ \A p \in Resume : p # o => res'[p] = res[p]
      BY <2>0, <2>3 DEF ResumeReserve, onHost
    <3>2. ~Sent(s)
      BY <1>0, <3>1 DEF Reserved
    <3>3. \/ reserved = None /\ reserved' = o
          \/ reserved' = reserved /\ res'[o].pc = "idle"
      BY <2>0, <2>3 DEF ResumeReserve, Nothing
    <3> QED BY <2>1, <3>1, <3>2, <3>3 DEF Sent, OnHost
  <2>4. CASE ResumeInspect(o)
    <3>1. reserved = o /\ \A p \in Resume : p # o => res'[p] = res[p]
      BY <1>0, <2>0, <2>4 DEF ResumeInspect, Reserved
    <3>2. CASE Launch(s, res[o].owner) /\ res' = [res EXCEPT ![o].pc = "start"] /\ UNCHANGED reserved
      <4>1. \A p \in Resume : p # o => script'[<<p, "start">>] = script[<<p, "start">>]
        BY <1>0, <2>0, <3>2 DEF Launch
      <4>2. res'[o].pc = "start"
        <5>1. res[o] \in [pc : {"reserve", "inspect", "start", "retained"}, owner : Run]
          BY <2>0, <2>4 DEF ResumeInspect, ResumeState, Nothing
        <5> QED BY <2>0, <3>2, <5>1
      <4> QED BY <2>1, <3>1, <3>2, <4>1, <4>2 DEF Sent, OnHost
    <3>3. CASE res' = [res EXCEPT ![o] = Nothing] /\ reserved' = None /\ UNCHANGED script
      <4>1. res'[o].pc = "idle"
        BY <2>0, <3>3 DEF Nothing
      <4>2. ~Sent(s)
        BY <1>0, <2>4 DEF ResumeInspect, Reserved
      <4> QED BY <2>1, <3>1, <3>3, <4>1, <4>2 DEF Sent, OnHost
    <3> QED BY <2>4, <3>2, <3>3 DEF ResumeInspect
  <2>5. CASE ResumeReturns(o)
    <3>1. reserved = o /\ \A p \in Resume : p # o => res'[p] = res[p]
      BY <1>0, <2>0, <2>5 DEF ResumeReturns, Reserved
    <3>2. CASE script[s].pc \in {"ok", "refused"} /\ Read(s) /\ res' = [res EXCEPT ![o] = Nothing] /\ reserved' = None
      <4>1. res'[o].pc = "idle"
        BY <2>0, <3>2 DEF Nothing
      <4>2. script'[s].pc = "none" /\ \A p \in Resume : p # o => script'[<<p, "start">>] = script[<<p, "start">>]
        BY <1>0, <2>0, <3>2, NoScriptTyped DEF Read
      <4> QED BY <2>1, <3>1, <3>2, <4>1, <4>2 DEF Sent, OnHost
    <3>3. CASE GiveUp(s) /\ res' = [res EXCEPT ![o].pc = "retained"] /\ UNCHANGED reserved
      <4>1. res'[o].pc = "retained"
        <5>1. res[o] \in [pc : {"reserve", "inspect", "start", "retained"}, owner : Run]
          BY <2>0, <2>5 DEF ResumeReturns, ResumeState, Nothing
        <5> QED BY <2>0, <3>3, <5>1
      <4>2. \A p \in Resume : p # o => script'[<<p, "start">>] = script[<<p, "start">>]
        BY <1>0, <2>0, <3>3 DEF GiveUp
      <4> QED BY <2>1, <3>1, <3>3, <4>1, <4>2 DEF Sent, OnHost
    <3> QED BY <2>5, <3>2, <3>3 DEF ResumeReturns
  <2>6. CASE ResumeCrash(o)
    <3>1. reserved = o /\ UNCHANGED reserved /\ \A p \in Resume : p # o => res'[p] = res[p]
      BY <1>0, <2>0, <2>6 DEF ResumeCrash, Reserved
    <3>2. res'[o].pc = "retained"
      <4>1. res[o] \in [pc : {"reserve", "inspect", "start", "retained"}, owner : Run]
        BY <2>0, <2>6 DEF ResumeCrash, ResumeState, Nothing
      <4> QED BY <2>0, <2>6, <4>1 DEF ResumeCrash
    <3>3. \A p \in Resume : p # o => script'[<<p, "start">>] = script[<<p, "start">>]
      BY <1>0, <2>0, <2>6 DEF ResumeCrash, Forget
    <3> QED BY <2>1, <3>1, <3>2, <3>3 DEF Sent, OnHost
  <2>7. CASE ReleaseRetained(o)
    <3>1. reserved = o /\ reserved' = None /\ res'[o].pc = "idle" /\ ~Sent(s) /\ UNCHANGED script
          /\ \A p \in Resume : p # o => res'[p] = res[p]
      BY <1>0, <2>0, <2>7 DEF ReleaseRetained, Reserved, Nothing
    <3> QED BY <2>1, <3>1 DEF Sent, OnHost
  <2> QED BY <1>3, <2>2, <2>3, <2>4, <2>5, <2>6, <2>7 DEF ResumeStep
<1>4. CASE HostStep \/ \E u \in Unit : Mended(u) \/ StartedByOther(u)
  <2>1. UNCHANGED <<res, reserved>>
    BY <1>4 DEF HostStep, GoesDown, ComesUp, UnitStops, Mended, StartedByOther
  <2>2. \A o \in Resume : Sent(<<o, "start">>)' => Sent(<<o, "start">>)
    BY <1>0, <1>4, Leaves DEF HostStep, GoesDown, ComesUp, UnitStops, Mended, StartedByOther, Sent, OnHost, Results
  <2> QED BY <1>a, <2>1, <2>2
<1>5. CASE UNCHANGED vars
  BY <1>5, <1>a DEF vars, Sent, OnHost
<1> QED BY <1>1, <1>2, <1>3, <1>4, <1>5 DEF Next

(* At first no resume is past its reservation. *)
LEMMA InitReserved == Init => ReservedInv
<1> SUFFICES ASSUME Init PROVE ReservedInv
  OBVIOUS
<1>1. /\ \A s \in Script : script[s].pc = "none"
      /\ \A o \in Resume : <<o, "start">> \in Script /\ res[o].pc = "idle"
  BY NoScriptTyped, Names DEF Init, Nothing
<1> QED BY <1>1, InitTyped DEF ReservedInv, Reserved, Sent, OnHost

-----------------------------------------------------------------------------
(* A reboot command has its own run's record *)

(* A step of a script. *)
LEMMA MovesKeep ==
    ASSUME CommandInv, RecordInv', NEW s \in Script, ScriptMoves(s)
    PROVE  CommandInv'
<1> USE DEF ScriptMoves, Results, OnHostPCs, Sent, OnHost
<1>0. /\ RecordInv /\ Phases /\ StartOwners /\ StoppedOwns /\ LockHeld /\ StopPhase /\ StartPhase /\ TypeOK
      /\ \A i \in Run : OfRun(i) \in Script /\ OfRun(i)[1] = i /\ OfRun(i)[2] = "stop"
  BY Names DEF CommandInv, RecordInv, OfRun
<1>1. Phases'
  <2> USE DEF Phases
  <2> TAKE i \in Run
  <2>1. CASE OfRun(i) = s
    <3>1. Waits(s) => run[i].pc \in {"stop", "restart"}
      BY <1>0, <2>1 DEF Waits
    <3> QED BY <1>0, <2>1, <3>1 DEF Phases, OfRun
  <2>2. CASE OfRun(i) # s
    BY <1>0, <2>2 DEF Phases, OfRun
  <2> QED BY <2>1, <2>2
<1>2. StartOwners'
  <2> USE DEF StartOwners
  <2> TAKE t \in Script
  <2>1. CASE t = s
    <3>1. ~Stops(s) /\ Sent(s)' =>
            /\ script'[s].owner = script[s].owner /\ script[s].owner \in Run
            /\ run[script[s].owner].pc \in Over /\ cmd[script[s].owner] # "sent"
      BY <1>0 DEF StartOwners
    <3>2. script'[s].pc \in {"start", "go"} => Owner(s)' /\ cmd'[script'[s].owner] = "none"
      <4> SUFFICES ASSUME script'[s].pc \in {"start", "go"}
                   PROVE  Owner(s)' /\ cmd'[script'[s].owner] = "none"
        OBVIOUS
      <4>1. ~Stops(s)
        BY DEF RecordInv, StartPhase
      <4>2. CASE script[s].pc \in {"start", "go"}
        BY <1>0, <4>2 DEF StartOwners, Owner
      <4>3. CASE Owner(s) /\ ~ShutdownSeen
        <5>1. cmd[script[s].owner] \in {"none", "sent", "remote"} /\ cmd[script[s].owner] # "remote"
          BY <1>0, <3>1, <4>1, <4>3 DEF ShutdownSeen, TypeOK
        <5> QED BY <3>1, <4>1, <4>3, <5>1 DEF Owner
      <4> QED BY <4>2, <4>3
    <3> QED BY <2>1, <3>1, <3>2 DEF Stops
  <2>2. CASE t # s
    <3>1. script'[t].pc \in {"start", "go"} => record' = record
      BY <1>0, <2>2, Alone
    <3> QED BY <1>0, <2>2, <3>1 DEF StartOwners, Owner, Stops
  <2> QED BY <2>1, <2>2
<1>3. StoppedOwns'
  <2> SUFFICES ASSUME NEW i \in Run, Stopped(i)', Planned[i] # {}, OldBoot(i)'
               PROVE  record' # None /\ record'.owner = i
    BY DEF StoppedOwns
  <2>1. OldBoot(i)
    BY DEF OldBoot
  <2>2. record # None /\ record.owner = i
    <3>1. CASE Stopped(i)
      BY <1>0, <2>1, <3>1 DEF StoppedOwns
    <3>2. CASE OfRun(i) = s /\ script[s].pc = "drain"
      BY <1>0, <3>2 DEF StopPhase
    <3>3. CASE script'[OfRun(i)].pc = "ok" /\ OfRun(i) = s
      <4>1. s[1] = i /\ Stops(s)
        BY <1>0, <3>3 DEF Stops
      <4>2. script[s].pc # "start"
        BY <1>0, <4>1 DEF StartPhase
      <4> QED BY <3>2, <3>3, <4>1, <4>2
    <3>4. CASE script'[OfRun(i)].pc = "ok" /\ OfRun(i) # s
      BY <1>0, <3>1, <3>4 DEF Stopped
    <3>5. CASE run'[i].pc = "command" \/ cmd'[i] # "none"
      BY <3>1, <3>5 DEF Stopped
    <3> QED BY <3>3, <3>4, <3>5 DEF Stopped
  <2>3. record' = record
    <3> SUFFICES ASSUME script[s].pc = "start" PROVE FALSE
      BY <2>2
    <3>1. script[s].owner = i /\ cmd[i] = "none" /\ run[i].pc \in Over /\ ~Stops(s)
      BY <1>0, <2>2 DEF StartOwners, StartPhase, Owner
    <3>2. script[OfRun(i)].pc \notin Results /\ OfRun(i) # s
      BY <1>0, <3>1 DEF Phases, Over, Stops
    <3> QED BY <1>0, <3>1, <3>2 DEF Stopped, Over
  <2> QED BY <2>2, <2>3
<1> QED BY <1>1, <1>2, <1>3 DEF CommandInv

(* A step of a run: what it may do to its place, its command and its scripts. *)
RunMoves(i) ==
    /\ UNCHANGED <<lock, record, stopped>> /\ host'.boot = host.boot /\ host'.up = host.up
    /\ host'.halting = host.halting \/ Queues(i)
    /\ \A j \in Run : j # i => run'[j] = run[j] /\ cmd'[j] = cmd[j]
    /\ \A s \in Script : s[1] # i => script'[s] = script[s]
    /\ run'[i].boot <= host.boot
    /\ run'[i].pc \in {"idle", "stop", "command"} => cmd'[i] = "none"
    /\ run'[i].pc \notin {"sending", "dead"} => cmd'[i] # "sent"
    /\ script'[OfRun(i)].pc \in OnHostPCs \cup {"waiting"} /\ script'[OfRun(i)].client =>
           run'[i].pc \in {"stop", "dead"}
    /\ script'[OfRun(i)].pc \in Results => run'[i].pc = "stop"
    /\ script'[OfRun(i)].pc \in OnHostPCs \cup {"waiting"} =>
           \/ Sent(OfRun(i)) /\ run'[i].boot = run[i].boot
           \/ host.up /\ run'[i].boot = host.boot
    /\ run[i].pc \in Over => run'[i].pc \in Over
    /\ run'[i].pc \in {"idle", "stop"} => run[i].pc \in {"idle", "stop"}
    /\ cmd'[i] = "sent" => cmd[i] = "sent" \/ run[i].pc \notin Over
    /\ cmd[i] = "none" /\ run[i].pc \in Over => cmd'[i] = "none"
    /\ \/ SameOnHost(<<i, "start">>)
       \/ script'[<<i, "start">>].pc \notin OnHostPCs \cup {"waiting"}
       \/ /\ script'[<<i, "start">>].pc = "waiting" /\ script'[<<i, "start">>].owner = i
          /\ run'[i].pc \in Over /\ cmd'[i] # "sent"
    /\ script'[OfRun(i)].pc = "ok" \/ run'[i].pc = "command" \/ cmd'[i] # "none" =>
           Stopped(i) /\ run'[i].boot = run[i].boot

(* A run's move keeps CommandInv. *)
LEMMA RunKeeps ==
    ASSUME CommandInv, RecordInv', NEW i \in Run, RunMoves(i)
    PROVE  CommandInv'
<1> USE DEF RunMoves, Results, OnHostPCs, Sent, OnHost, SameOnHost
<1>0. /\ RecordInv /\ Phases /\ StartOwners /\ StoppedOwns /\ TypeOK
      /\ \A j \in Run : OfRun(j) \in Script /\ OfRun(j)[1] = j /\ OfRun(j)[2] = "stop"
  BY Names DEF CommandInv, RecordInv, OfRun
<1>1. Phases'
  <2> USE DEF Phases
  <2> TAKE j \in Run
  <2>1. CASE j = i
    BY <2>1 DEF OfRun
  <2>2. CASE j # i
    BY <1>0, <2>2 DEF Phases, OfRun
  <2> QED BY <2>1, <2>2
<1>2. StartOwners'
  <2> USE DEF StartOwners
  <2> TAKE s \in Script
  <2>1. CASE s = <<i, "start">> /\ script'[s].pc = "waiting" /\ script'[s].owner = i
             /\ run'[i].pc \in Over /\ cmd'[i] # "sent"
    BY <2>1 DEF Stops
  <2>2. CASE ~Stops(s) /\ Sent(s)' /\ SameOnHost(s)
    <3>1. /\ script[s].owner \in Run /\ run[script[s].owner].pc \in Over
          /\ cmd[script[s].owner] # "sent"
      BY <1>0, <2>2 DEF StartOwners
    <3>2. run'[script[s].owner].pc \in Over /\ cmd'[script[s].owner] # "sent"
      BY <3>1
    <3>3. script[s].pc \in {"start", "go"} => Owner(s) /\ cmd[script[s].owner] = "none"
      BY <1>0 DEF StartOwners
    <3>4. script[s].pc \in {"start", "go"} => Owner(s)' /\ cmd'[script[s].owner] = "none"
      BY <2>2, <3>1, <3>3 DEF Owner
    <3> QED BY <2>2, <3>1, <3>2, <3>4 DEF Stops
  <2>3. CASE Stops(s) \/ ~Sent(s)'
    BY <2>3 DEF RecordInv, StartPhase, Stops
  <2>4. s[1] = i /\ ~Stops(s) => s = <<i, "start">>
    BY Names DEF Stops
  <2> QED BY <2>1, <2>2, <2>3, <2>4
<1>3. StoppedOwns'
  <2> USE DEF StoppedOwns
  <2> TAKE j \in Run
  <2>1. CASE j = i
    BY <1>0, <2>1 DEF StoppedOwns, Stopped, OldBoot, OfRun
  <2>2. CASE j # i
    BY <1>0, <2>2 DEF StoppedOwns, Stopped, OldBoot, OfRun
  <2> QED BY <2>1, <2>2
<1> QED BY <1>1, <1>2, <1>3 DEF CommandInv

(* Every step of a run, and its command's way, is a move of RunMoves. *)
LEMMA EveryRunMoves ==
    ASSUME CommandInv, NEW i \in Run,
           RunStep(i) \/ Interrupt(i) \/ Crash(i) \/ Arrives(i) \/ Queues(i)
    PROVE  RunMoves(i)
<1> USE DEF RunMoves, Results, OnHostPCs, Sent, OnHost, SameOnHost, onHost, OfRun
<1>0. /\ run \in [Run -> RunState] /\ cmd \in [Run -> {"none", "sent", "remote"}]
      /\ script \in [Script -> ScriptState] /\ host.boot \in Nat
      /\ <<i, "stop">> \in Script /\ <<i, "start">> \in Script /\ <<i, "stop">> # <<i, "start">>
      /\ run[i].boot \in Nat /\ run[i].boot <= host.boot
  BY Names DEF CommandInv, RecordInv, TypeOK, RunState, Phases
<1>1. /\ run[i].pc \in {"idle", "stop", "command"} => cmd[i] = "none"
      /\ run[i].pc \notin {"sending", "dead"} => cmd[i] # "sent"
      /\ Sent(OfRun(i)) /\ script[OfRun(i)].client => run[i].pc \in {"stop", "dead"}
      /\ script[OfRun(i)].pc \in Results => run[i].pc = "stop"
  BY DEF CommandInv, Phases
\* After a failure, once the reboot command is not on its way.
<1>a. ASSUME StartRunners(i), run[i].pc \notin Over, UNCHANGED onHost,
             \/ cmd' = cmd /\ cmd[i] # "sent"
             \/ cmd' = [cmd EXCEPT ![i] = "none"]
      PROVE  RunMoves(i)
  <2> HIDE DEF RunMoves
  <2>a. /\ run'[i].pc \in {"restart", "ended"} /\ run'[i].boot = run[i].boot
        /\ \A j \in Run : j # i => run'[j] = run[j]
    BY <1>0, <1>a, RunnersStarted
  <2>b. \A j \in Run : j # i => cmd'[j] = cmd[j]
    BY <1>0, <1>a
  <2>1. /\ run'[i].pc \in {"restart", "ended"} /\ run'[i].boot = run[i].boot
        /\ \A j \in Run : j # i => run'[j] = run[j] /\ cmd'[j] = cmd[j]
    BY <2>a, <2>b
  <2>c. \/ script'[<<i, "stop">>] = NoScript
        \/ /\ script'[<<i, "stop">>].pc = script[<<i, "stop">>].pc
           /\ Sent(<<i, "stop">>) /\ script'[<<i, "stop">>].client = FALSE
    <3> HIDE DEF Sent, OnHost, SameOnHost, onHost, OfRun
    <3> QED BY <1>0, <1>a, StopLeft
  <2>2. \/ script'[OfRun(i)] = NoScript
        \/ /\ script'[OfRun(i)].pc = script[OfRun(i)].pc /\ Sent(OfRun(i))
           /\ script'[OfRun(i)].client = FALSE
    BY <2>c
  <2> USE DEF RunMoves
  <2>5. ASSUME NEW s \in Script, s[1] # i PROVE script'[s] = script[s]
    <3>1. s # <<i, "stop">> /\ s # <<i, "start">>
      BY <2>5
    <3> QED BY <1>0, <1>a, <3>1, RunnersStarted
  <2>6. \/ script'[OfRun(i)].pc = "none"
        \/ /\ script'[OfRun(i)].pc \in OnHostPCs \cup {"waiting"}
           /\ Sent(OfRun(i)) /\ script'[OfRun(i)].client = FALSE
    BY <2>2, NoScriptTyped
  <2>3. \/ SameOnHost(<<i, "start">>)
        \/ script'[<<i, "start">>].pc = "waiting" /\ script'[<<i, "start">>].owner = i
    BY <1>0, <1>a, RunnersStarted
  <2>4. cmd'[i] # "sent" /\ (cmd'[i] # "none" => cmd[i] # "none")
    BY <1>0, <1>a
  <2> QED BY <1>0, <1>1, <1>a, <2>1, <2>3, <2>4, <2>5, <2>6 DEF Over, Stopped
\* The run goes to pc.
<1>b. ASSUME NEW pc \in {"command", "sending", "waitDown", "waitUp", "ended", "dead"}, Goto(i, pc)
      PROVE  /\ run'[i].pc = pc /\ run'[i].boot = run[i].boot
             /\ \A j \in Run : j # i => run'[j] = run[j]
  BY <1>0, <1>b, Gone
\* It goes on with its scripts as they are, its command sent or dropped.
<1>c. ASSUME NEW pc \in {"waitDown", "waitUp", "ended"}, Goto(i, pc), UNCHANGED <<script, onHost>>,
             run[i].pc \notin {"stop", "restart"} /\ run[i].pc \notin Over,
             \/ cmd' = cmd /\ run[i].pc # "sending"
             \/ Dropped(i)
      PROVE  RunMoves(i)
  <2>1. cmd'[i] # "sent" /\ (cmd'[i] # "none" => cmd[i] # "none")
        /\ \A j \in Run : j # i => cmd'[j] = cmd[j]
    BY <1>0, <1>1, <1>c DEF Dropped, Over
  <2>2. script[OfRun(i)].pc \notin Results
        /\ (Sent(OfRun(i)) /\ script[OfRun(i)].client => run[i].pc = "dead")
    BY <1>1, <1>c
  <2> QED BY <1>0, <1>b, <1>c, <2>1, <2>2 DEF Over, Stopped
<1>2. CASE Begin(i)
  <2>0. run[i].pc = "idle" /\ cmd' = cmd /\ cmd[i] = "none" /\ UNCHANGED onHost
    BY <1>1, <1>2 DEF Begin
  <2>1. CASE Goto(i, "ended") /\ UNCHANGED script
    BY <1>c, <2>0, <2>1 DEF Over
  <2>2. CASE /\ run' = [run EXCEPT ![i].pc = "stop", ![i].boot = host.boot,
                                  ![i].stopped = Planned[i] # {}]
             /\ Launch(<<i, "stop">>, i) /\ host.up
    <3>1. run'[i].pc = "stop" /\ run'[i].boot = host.boot /\ \A j \in Run : j # i => run'[j] = run[j]
      <4>1. run[i] \in RunState
        BY <1>0
      <4> QED BY <1>0, <2>2, <4>1 DEF RunState
    <3>2. /\ script'[OfRun(i)].pc = "waiting" /\ \A t \in Script : t # OfRun(i) => script'[t] = script[t]
      BY <1>0, <2>2, Launched
    <3> QED BY <1>0, <2>0, <2>2, <3>1, <3>2 DEF Over
  <2> QED BY <1>2, <2>1, <2>2 DEF Begin
<1>3. CASE StopReturns(i)
  <2>0. run[i].pc = "stop" /\ cmd' = cmd /\ cmd[i] = "none" /\ UNCHANGED onHost
    BY <1>1, <1>3 DEF StopReturns
  <2>1. CASE script[OfRun(i)].pc = "ok" /\ Goto(i, "command") /\ Read(OfRun(i))
    <3>1. /\ script'[OfRun(i)].pc = "none" /\ \A t \in Script : t # OfRun(i) => script'[t] = script[t]
      BY <1>0, <2>1, NoScriptTyped DEF Read
    <3> QED BY <1>0, <1>b, <2>0, <2>1, <3>1 DEF Over, Stopped
  <2>2. CASE StartRunners(i)
    BY <1>a, <2>0, <2>2 DEF Over
  <2> QED BY <1>3, <2>1, <2>2 DEF StopReturns
<1>4. CASE SendReboot(i)
  <2>0. run[i].pc = "command" /\ cmd[i] = "none" /\ UNCHANGED onHost
    BY <1>1, <1>4 DEF SendReboot
  <2>1. CASE StartRunners(i) /\ UNCHANGED cmd
    BY <1>a, <2>0, <2>1 DEF Over
  <2>2. CASE Goto(i, "sending") /\ cmd' = [cmd EXCEPT ![i] = "sent"] /\ UNCHANGED script
    BY <1>0, <1>1, <1>b, <2>0, <2>2 DEF Over, Stopped
  <2> QED BY <1>4, <2>1, <2>2 DEF SendReboot
<1>5. CASE RebootReturns(i)
  <2>0. run[i].pc = "sending" /\ UNCHANGED onHost
    BY <1>5 DEF RebootReturns
  <2>1. CASE cmd' = [cmd EXCEPT ![i] = "none"] /\ StartRunners(i)
    BY <1>a, <2>0, <2>1 DEF Over
  <2>2. CASE (Goto(i, "waitDown") \/ Goto(i, "ended")) /\ Dropped(i) /\ UNCHANGED script
    BY <1>c, <2>0, <2>2 DEF Over
  <2> QED BY <1>5, <2>1, <2>2 DEF RebootReturns
<1>6. CASE WaitDown(i) \/ WaitUp(i)
  <2>0. run[i].pc \in {"waitDown", "waitUp"} /\ cmd' = cmd /\ cmd[i] # "sent" /\ UNCHANGED onHost
    BY <1>1, <1>6 DEF WaitDown, WaitUp
  <2>1. CASE StartRunners(i)
    BY <1>a, <2>0, <2>1 DEF Over
  <2>2. CASE (Goto(i, "waitUp") \/ Goto(i, "ended")) /\ UNCHANGED script
    BY <1>c, <2>0, <2>2 DEF Over
  <2> QED BY <1>6, <2>1, <2>2 DEF WaitDown, WaitUp
<1>7. CASE StartReturns(i)
  <2> DEFINE s == <<i, "start">>
  <2>0. run[i].pc = "restart" /\ cmd' = cmd /\ cmd[i] # "sent" /\ UNCHANGED onHost /\ Goto(i, "ended")
        /\ (Read(s) \/ GiveUp(s))
    BY <1>1, <1>7 DEF StartReturns
  <2>1. /\ \A t \in Script : t # s => script'[t] = script[t]
        /\ SameOnHost(s) \/ script'[s].pc = "none"
    <3>1. CASE Read(s)
      BY <1>0, <3>1, NoScriptTyped, Changed DEF Read
    <3>2. CASE GiveUp(s)
      BY <1>0, <3>2, NoScriptTyped, GivenUp
    <3> QED BY <2>0, <3>1, <3>2
  <2> QED BY <1>0, <1>1, <1>b, <2>0, <2>1 DEF Over, Stopped
<1>8. CASE Interrupt(i)
  <2>1. run'[i].pc = run[i].pc /\ run'[i].boot = run[i].boot /\ \A j \in Run : j # i => run'[j] = run[j]
    <3>1. run[i] \in RunState
      BY <1>0
    <3> QED BY <1>0, <1>8, <3>1 DEF Interrupt, RunState
  <2>2. UNCHANGED <<script, cmd, onHost>>
    BY <1>8 DEF Interrupt
  <2> QED BY <1>0, <1>1, <2>1, <2>2 DEF Stopped
<1>9. CASE Crash(i)
  <2>0. Goto(i, "dead") /\ Forget(i) /\ cmd' = cmd /\ UNCHANGED onHost /\ run[i].pc \notin {"ended", "dead"}
    BY <1>9 DEF Crash, Exited
  <2>1. /\ \A t \in Script : \/ script'[t] = script[t]
                             \/ t[1] = i /\ ~Sent(t) /\ script'[t].pc = "none"
        /\ \A t \in Script : t[1] = i /\ ~Sent(t) => script'[t].pc = "none"
    BY <1>0, <2>0, Forgotten, NoScriptTyped
  <2>2. script'[OfRun(i)].pc \notin Results
    BY <1>0, <2>1
  <2> QED BY <1>0, <1>b, <2>0, <2>1, <2>2 DEF Over, Stopped
<1>10. CASE Arrives(i) \/ Queues(i)
  <2>0. host \in [boot : Nat, up : BOOLEAN, halting : BOOLEAN]
    BY DEF CommandInv, RecordInv, TypeOK
  <2>1. /\ cmd[i] # "none" /\ cmd'[i] # "sent" /\ UNCHANGED <<run, script>>
        /\ \A j \in Run : j # i => cmd'[j] = cmd[j]
        /\ UNCHANGED <<lock, record, stopped>> /\ host'.boot = host.boot /\ host'.up = host.up
        /\ host'.halting = host.halting \/ Queues(i)
    BY <1>0, <1>10, <2>0 DEF Arrives, Queues
  <2> QED BY <1>0, <1>1, <2>1 DEF Stopped
<1> QED BY <1>2, <1>3, <1>4, <1>5, <1>6, <1>7, <1>8, <1>9, <1>10 DEF RunStep

(* A resume launches a start script only for a run that is gone from its      *)
(* machine.                                                                   *)
ResumeMoves(o) ==
    /\ UNCHANGED <<run, cmd, lock, record, unit, stopped, host>>
    /\ \A t \in Script : t # <<o, "start">> => script'[t] = script[t]
    /\ \/ SameOnHost(<<o, "start">>)
       \/ script'[<<o, "start">>].pc \notin OnHostPCs \cup {"waiting"}
       \/ /\ script'[<<o, "start">>].pc = "waiting" /\ script'[<<o, "start">>].owner \in Run
          /\ Exited(script'[<<o, "start">>].owner) /\ cmd[script'[<<o, "start">>].owner] # "sent"

(* Every step of a resume, and its death, is a move of ResumeMoves. *)
LEMMA EveryResumeMoves ==
    ASSUME TypeOK, NEW o \in Resume, ResumeStep(o) \/ ResumeCrash(o)
    PROVE  ResumeMoves(o)
<1> USE DEF ResumeMoves, OnHostPCs, SameOnHost, onHost
<1> DEFINE s == <<o, "start">>
<1>0a. TypeOK /\ script \in [Script -> ScriptState] /\ s \in Script
  BY Names DEF TypeOK
<1>0. UNCHANGED <<run, cmd, lock, record, unit, stopped, host>>
  BY DEF ResumeStep, ResumeRead, ResumeReserve, ResumeInspect, ResumeReturns, ReleaseRetained, ResumeCrash
<1>1. CASE ResumeRead(o) \/ ResumeReserve(o) \/ ReleaseRetained(o)
  BY <1>0, <1>1 DEF ResumeRead, ResumeReserve, ReleaseRetained
<1>2. CASE ResumeInspect(o)
  <2>1. res[o].owner \in Run
    BY <1>0a, <1>2 DEF ResumeInspect, TypeOK, ResumeState, Nothing
  <2>2. CASE OwnerGone(o) /\ Launch(s, res[o].owner)
    <3>1. /\ script'[s].pc = "waiting" /\ script'[s].owner = res[o].owner
          /\ \A t \in Script : t # s => script'[t] = script[t]
      BY <1>0a, <2>1, <2>2, Launched
    <3>2. Exited(res[o].owner) /\ cmd[res[o].owner] # "sent"
      BY <2>1, <2>2 DEF OwnerGone, ControllerBusy
    <3> QED BY <1>0, <2>1, <3>1, <3>2
  <2>3. CASE UNCHANGED script
    BY <1>0, <2>3
  <2> QED BY <1>2, <2>2, <2>3 DEF ResumeInspect
<1>3. CASE ResumeReturns(o)
  <2>1. CASE Read(s)
    BY <1>0a, <1>0, <2>1, NoScriptTyped, Changed DEF Read
  <2>2. CASE GiveUp(s)
    BY <1>0a, <1>0, <2>2, NoScriptTyped, GivenUp
  <2> QED BY <1>3, <2>1, <2>2 DEF ResumeReturns
<1>4. CASE ResumeCrash(o)
  <2>1. Forget(o) /\ \A t \in Script : t # s => t[1] # o
    BY <1>4, Names, RunnerStopsAssumption DEF ResumeCrash
  <2>2. \A t \in Script : script'[t] = script[t] \/ (t = s /\ script'[t] = NoScript)
    BY <1>0a, <2>1, Forgotten
  <2> QED BY <1>0a, <1>0, <2>2, NoScriptTyped
<1> QED BY <1>1, <1>2, <1>3, <1>4 DEF ResumeStep

(* A resume's move keeps CommandInv: it acts for a run that has exited. *)
LEMMA ResumeKeeps ==
    ASSUME CommandInv, RecordInv', NEW o \in Resume, ResumeMoves(o)
    PROVE  CommandInv'
<1> USE DEF Results, OnHostPCs, Sent, OnHost, SameOnHost, ResumeMoves
<1> DEFINE s == <<o, "start">>
<1>0. /\ Phases /\ StartOwners /\ StoppedOwns
      /\ s \in Script /\ ~Stops(s) /\ \A i \in Run : OfRun(i) \in Script /\ OfRun(i) # s /\ i # o
  BY Names, RunnerStopsAssumption DEF CommandInv, OfRun, Stops
<1>1. ResumeMoves(o)
  OBVIOUS
<1>2. Phases' /\ StoppedOwns'
  BY <1>0, <1>1 DEF Phases, StoppedOwns, Stopped, OldBoot, OfRun
<1>3. StartOwners'
  <2> USE DEF StartOwners
  <2> TAKE t \in Script
  <2>1. CASE t # s \/ SameOnHost(t)
    BY <1>0, <1>1, <2>1 DEF Owner, Stops
  <2>2. CASE t = s /\ ~SameOnHost(t)
    BY <1>0, <1>1, <2>2 DEF Exited, Over
  <2> QED BY <2>1, <2>2
<1> QED BY <1>2, <1>3 DEF CommandInv

(* A boot and a unit started by somebody else keep CommandInv. *)
LEMMA BootKeeps ==
    ASSUME CommandInv, RecordInv', HostStep \/ \E u \in Unit : Mended(u) \/ StartedByOther(u)
    PROVE  CommandInv'
<1> USE DEF Results, OnHostPCs, Sent, OnHost
<1>0. /\ Phases /\ StartOwners /\ StoppedOwns /\ TypeOK /\ script \in [Script -> ScriptState]
      /\ cmd \in [Run -> {"none", "sent", "remote"}]
      /\ host \in [boot : Nat, up : BOOLEAN, halting : BOOLEAN]
      /\ \A i \in Run : OfRun(i) \in Script /\ OfRun(i)[1] = i /\ run[i].boot \in Nat
  BY Names DEF CommandInv, RecordInv, OfRun, TypeOK, RunState
<1>1. CASE GoesDown
  <2>1. /\ \A t \in Script : /\ script'[t].pc \notin OnHostPCs \cup {"waiting"}
                             /\ \/ script'[t] = script[t]
                                \/ script'[t].pc \in Results => script[t].client /\ Waits(t) /\ Sent(t)
    BY <1>0, <1>1, Leaves DEF GoesDown
  <2>2. host'.up = FALSE /\ host'.boot = host.boot /\ UNCHANGED run
    BY <1>0, <1>1 DEF GoesDown
  <2>3. \A i \in Run : cmd'[i] = cmd[i] \/ cmd'[i] = "none"
    BY <1>0, <1>1 DEF GoesDown
  <2>4. Phases'
    <3> USE DEF Phases
    <3> TAKE i \in Run
    <3>1. Waits(OfRun(i)) => run[i].pc \in {"stop", "restart"}
      BY <1>0 DEF Waits
    <3> QED BY <1>0, <2>1, <2>2, <2>3, <3>1
  <2>5. StartOwners' /\ StoppedOwns'
    BY <2>1, <2>2 DEF StartOwners, StoppedOwns, OldBoot
  <2> QED BY <2>4, <2>5 DEF CommandInv
<1>2. CASE ComesUp
  <2>1. UNCHANGED <<run, cmd, script, record>> /\ host'.boot = host.boot + 1
    BY <1>0, <1>2 DEF ComesUp
  <2>2. \A i \in Run : run[i].boot <= host.boot /\ run[i].boot <= host'.boot /\ run[i].boot # host'.boot
    BY <1>0, <2>1 DEF Phases
  <2> QED BY <1>0, <2>1, <2>2 DEF CommandInv, Phases, StartOwners, StoppedOwns, Stopped, Owner, OldBoot
<1>3. CASE UNCHANGED <<run, cmd, script, record, host>>
  BY <1>0, <1>3 DEF CommandInv, Phases, StartOwners, StoppedOwns, Stopped, Owner, OldBoot
<1> QED BY <1>1, <1>2, <1>3 DEF HostStep, UnitStops, Mended, StartedByOther

(* CommandOwnsRecord with what makes it inductive: a start script, whoever     *)
(* sent it, is of a run that will send no command, and it has seen that none   *)
(* of them is at the host, so the record it clears is not a command's.         *)
LEMMA StepKeepsCommand == CommandInv /\ [Next]_vars => CommandInv'
<1> SUFFICES ASSUME CommandInv, [Next]_vars PROVE CommandInv'
  OBVIOUS
<1>0. RecordInv' /\ TypeOK
  BY StepKeepsRecord DEF CommandInv, RecordInv
<1>1. ASSUME NEW s \in Script, ScriptStep(s) \/ HungUp(s) PROVE CommandInv'
  BY <1>0, <1>1, EveryScriptMoves, MovesKeep
<1>2. ASSUME NEW i \in Run, RunStep(i) \/ Interrupt(i) \/ Crash(i) \/ Arrives(i) \/ Queues(i) PROVE CommandInv'
  BY <1>0, <1>2, EveryRunMoves, RunKeeps
<1>3. ASSUME NEW o \in Resume, ResumeStep(o) \/ ResumeCrash(o) PROVE CommandInv'
  BY <1>0, <1>3, EveryResumeMoves, ResumeKeeps
<1>4. CASE UNCHANGED vars
  BY <1>0, <1>4 DEF vars, CommandInv, Phases, StartOwners, StoppedOwns, Stopped, Owner, OldBoot, Sent, OnHost
<1> QED BY <1>0, <1>1, <1>2, <1>3, <1>4, BootKeeps DEF Next

(* CommandInv holds at first: no run has begun. *)
LEMMA InitCommand == Init => CommandInv
<1> SUFFICES ASSUME Init PROVE CommandInv
  OBVIOUS
<1>1. /\ \A s \in Script : script[s].pc = "none"
      /\ \A i \in Run : OfRun(i) \in Script /\ run[i].pc = "idle" /\ run[i].boot = 0 /\ cmd[i] = "none"
  BY NoScriptTyped, Names DEF Init, OfRun
<1>2. host.boot = 1
  BY DEF Init
<1> QED BY <1>1, <1>2, InitRecord
        DEF CommandInv, Phases, StartOwners, StoppedOwns, Stopped, Sent, OnHost, Results

-----------------------------------------------------------------------------
(* No start before a reboot *)

\* Every run's plan has a unit.
AllPlans == \A i \in Run : Planned[i] # {}

(* Under a queued shutdown no run is between its stop and its command.        *)
LEMMA NoneStopped ==
    ASSUME AllPlans, BootInv, host.halting, NEW i \in Run
    PROVE  ~Stopped(i)
<1>1. SUFFICES ASSUME Stopped(i) PROVE FALSE
  OBVIOUS
<1>2. OldBoot(i) /\ record.owner = i
  BY <1>1 DEF BootInv, CommandInv, ThisBoot, StoppedOwns, AllPlans
<1>3. run[i].pc \notin {"idle", "stop", "command"} /\ cmd[i] = "none"
  BY <1>2 DEF BootInv, Halting
<1> QED BY <1>1, <1>3 DEF Stopped, BootInv, CommandInv, Phases, Results

(* A script's move keeps BootInv. *)
LEMMA MovesKeepBoot ==
    ASSUME AllPlans, BootInv, CommandInv', NEW s \in Script, ScriptMoves(s)
    PROVE  BootInv'
<1> USE DEF ScriptMoves, Results, OnHostPCs, Sent, OnHost
<1>1. ThisBoot'
  <2> SUFFICES ASSUME NEW i \in Run, Sent(OfRun(i))' \/ Stopped(i)' PROVE OldBoot(i)'
    BY DEF ThisBoot
  <2>1. OfRun(i) \in Script
    BY Names DEF OfRun
  <2>2. Sent(OfRun(i)) \/ Stopped(i)
    BY <2>1 DEF Stopped
  <2> QED BY <2>2 DEF BootInv, ThisBoot, OldBoot
<1>2. Halting'
  <2> SUFFICES ASSUME host.halting PROVE Halting'
    BY DEF Halting
  <2>1. /\ host.up /\ record # None
        /\ run[record.owner].pc \notin {"idle", "stop", "command"} /\ cmd[record.owner] = "none"
        /\ \A t \in Script : script[t].pc \notin {"start", "go"}
    BY DEF BootInv, Halting
  <2>2. record' = record /\ script'[s].pc \notin {"start", "go"}
    BY <2>1 DEF ShutdownSeen
  <2> QED BY <2>1, <2>2 DEF Halting
<1> QED BY <1>1, <1>2 DEF BootInv

(* A run's move keeps BootInv: only the run whose command is on its way
   has the shutdown queued. *)
LEMMA RunKeepsBoot ==
    ASSUME AllPlans, BootInv, CommandInv', NEW i \in Run, RunMoves(i)
    PROVE  BootInv'
<1> USE DEF RunMoves, Results, OnHostPCs, Sent, OnHost, SameOnHost
<1>0. /\ \A j \in Run : OfRun(j) \in Script /\ OfRun(j)[1] = j
      /\ \A s \in Script : s[1] = i => s \in {OfRun(i), <<i, "start">>} \/ i \in Resume
      /\ i \notin Resume /\ ThisBoot /\ Phases /\ TypeOK
  <2>1. ThisBoot /\ Phases /\ TypeOK
    BY DEF BootInv, CommandInv, RecordInv
  <2> HIDE DEF RunMoves
  <2>2. i \notin Resume /\ \A j \in Run : OfRun(j) \in Script /\ OfRun(j)[1] = j
    BY Names, RunnerStopsAssumption DEF OfRun
  <2>3. \A s \in Script : s[1] = i => s \in {OfRun(i), <<i, "start">>} \/ i \in Resume
    BY Names DEF OfRun
  <2> QED BY <2>1, <2>2, <2>3
<1>1. ThisBoot'
  <2> SUFFICES ASSUME NEW j \in Run, Sent(OfRun(j))' \/ Stopped(j)' PROVE OldBoot(j)'
    BY DEF ThisBoot
  <2>1. CASE j = i
    BY <1>0, <2>1 DEF ThisBoot, Stopped, OldBoot
  <2>2. CASE j # i
    BY <1>0, <2>2 DEF ThisBoot, Stopped, OldBoot
  <2> QED BY <2>1, <2>2
<1>2. \A s \in Script : script'[s].pc \in {"start", "go"} => script[s].pc \in {"start", "go"}
  <2> TAKE s \in Script
  <2>1. CASE s[1] # i \/ s = <<i, "start">>
    BY <2>1
  <2>2. CASE s = OfRun(i)
    BY <2>2 DEF CommandInv, RecordInv, StartPhase, Stops, OfRun
  <2> QED BY <1>0, <2>1, <2>2
<1>3. Halting'
  <2>1. CASE host.halting
    <3>1. /\ host.up /\ record # None /\ record.owner \in Run
          /\ run[record.owner].pc \notin {"idle", "stop", "command"} /\ cmd[record.owner] = "none"
          /\ \A t \in Script : script[t].pc \notin {"start", "go"}
      BY <1>0, <2>1 DEF BootInv, Halting, TypeOK
    <3>2. ~Stopped(i)
      BY <2>1, NoneStopped
    <3>3. run'[record.owner].pc \notin {"idle", "stop", "command"} /\ cmd'[record.owner] = "none"
      BY <3>1, <3>2
    <3> QED BY <1>2, <3>1, <3>3 DEF Halting
  <2>2. CASE Queues(i)
    <3>1. cmd[i] = "remote" /\ cmd'[i] = "none" /\ UNCHANGED <<run, script, record>> /\ host.up
      BY <1>0, <2>2 DEF Queues, TypeOK
    <3>2. record # None /\ record.owner = i
      BY <3>1 DEF BootInv, CommandInv, ThisBoot, StoppedOwns, Stopped, AllPlans
    <3>3. run[i].pc \notin {"idle", "stop", "command"}
      BY <1>0, <3>1 DEF Phases
    <3>4. \A s \in Script : script[s].pc \notin {"start", "go"}
      BY <3>1, <3>2 DEF BootInv, CommandInv, StartOwners, Owner
    <3> QED BY <3>1, <3>2, <3>3, <3>4 DEF Halting
  <2>3. CASE ~host'.halting
    BY <2>3 DEF Halting
  <2> QED BY <2>1, <2>2, <2>3
<1> QED BY <1>1, <1>3 DEF BootInv

(* A resume's move keeps BootInv. *)
LEMMA ResumeKeepsBoot ==
    ASSUME AllPlans, BootInv, CommandInv', NEW o \in Resume, ResumeMoves(o)
    PROVE  BootInv'
<1> USE DEF ResumeMoves, OnHostPCs, Sent, OnHost, SameOnHost
<1>0. \A i \in Run : OfRun(i) \in Script /\ OfRun(i) # <<o, "start">>
  BY Names DEF OfRun
<1>1. ThisBoot'
  BY <1>0 DEF BootInv, ThisBoot, Stopped, OldBoot
<1>2. Halting'
  BY DEF BootInv, Halting
<1> QED BY <1>1, <1>2 DEF BootInv

(* A boot ends whatever was of the boot before it, so BootInv is kept. *)
LEMMA BootKeepsBoot ==
    ASSUME AllPlans, BootInv, CommandInv', HostStep \/ \E u \in Unit : Mended(u) \/ StartedByOther(u)
    PROVE  BootInv'
<1> USE DEF OnHostPCs, Sent, OnHost
<1>0. /\ ThisBoot /\ Halting /\ script \in [Script -> ScriptState]
      /\ cmd \in [Run -> {"none", "sent", "remote"}]
      /\ host \in [boot : Nat, up : BOOLEAN, halting : BOOLEAN]
      /\ \A i \in Run : OfRun(i) \in Script
  BY Names DEF BootInv, CommandInv, RecordInv, OfRun, TypeOK
<1>1. CASE GoesDown
  <2>1. /\ host.halting /\ ~host'.halting /\ UNCHANGED run
        /\ \A i \in Run : cmd[i] = "none" => cmd'[i] = "none"
    BY <1>0, <1>1 DEF GoesDown
  <2>2. \A t \in Script : /\ script'[t].pc \notin OnHostPCs \cup {"waiting"}
                          /\ script'[t].pc = "ok" => script[t].pc = "ok"
    BY <1>0, <1>1, Leaves DEF GoesDown, Results
  <2>3. \A i \in Run : ~Stopped(i)
    BY <2>1, NoneStopped
  <2>4. \A i \in Run : ~Stopped(i)' /\ ~Sent(OfRun(i))'
    BY <1>0, <2>1, <2>2, <2>3 DEF Stopped
  <2> QED BY <2>1, <2>4 DEF BootInv, ThisBoot, Halting
<1>2. CASE ComesUp
  <2>1. ~host.up /\ host'.halting = host.halting /\ UNCHANGED <<run, cmd, script>>
    BY <1>0, <1>2 DEF ComesUp
  <2>2. ~host'.halting /\ \A i \in Run : ~Stopped(i)' /\ ~Sent(OfRun(i))'
    BY <1>0, <2>1 DEF ThisBoot, Halting, OldBoot, Stopped
  <2> QED BY <2>2 DEF BootInv, ThisBoot, Halting
<1>3. CASE UNCHANGED <<run, cmd, script, record, host>>
  BY <1>0, <1>3 DEF BootInv, ThisBoot, Halting, Stopped, OldBoot
<1> QED BY <1>1, <1>2, <1>3 DEF HostStep, UnitStops, Mended, StartedByOther

(* What a queued shutdown rests on: it belongs to the run whose record is     *)
(* there, and nothing of any run outlives the boot it began in.               *)
LEMMA StepKeepsBoot == AllPlans => (BootInv /\ [Next]_vars => BootInv')
<1> SUFFICES ASSUME AllPlans, BootInv, [Next]_vars PROVE BootInv'
  OBVIOUS
<1>0. CommandInv' /\ TypeOK /\ CommandInv
  BY StepKeepsCommand DEF BootInv, CommandInv, RecordInv
<1>1. ASSUME NEW s \in Script, ScriptStep(s) \/ HungUp(s) PROVE BootInv'
  BY <1>0, <1>1, EveryScriptMoves, MovesKeepBoot
<1>2. ASSUME NEW i \in Run, RunStep(i) \/ Interrupt(i) \/ Crash(i) \/ Arrives(i) \/ Queues(i) PROVE BootInv'
  BY <1>0, <1>2, EveryRunMoves, RunKeepsBoot
<1>3. ASSUME NEW o \in Resume, ResumeStep(o) \/ ResumeCrash(o) PROVE BootInv'
  BY <1>0, <1>3, EveryResumeMoves, ResumeKeepsBoot
<1>4. CASE UNCHANGED vars
  BY <1>0, <1>4 DEF vars, BootInv, ThisBoot, Halting, Stopped, OldBoot, Sent, OnHost
<1> QED BY <1>0, <1>1, <1>2, <1>3, <1>4, BootKeepsBoot DEF Next

(* BootInv holds at first: nothing is halting and no run has begun. *)
LEMMA InitBoot == Init => BootInv
<1> SUFFICES ASSUME Init PROVE BootInv
  OBVIOUS
<1>1. /\ \A i \in Run : script[OfRun(i)].pc = "none" /\ run[i].pc = "idle" /\ cmd[i] = "none"
      /\ ~host.halting
  BY NoScriptTyped, Names DEF Init, OfRun
<1> QED BY <1>1, InitCommand DEF BootInv, ThisBoot, Halting, Stopped, Sent, OnHost

(* A unit that is taken off the stopped ones as it becomes active is started  *)
(* by a script, which has its own run's record; a command or a shutdown would *)
(* have it too.                                                               *)
NoStart ==
    \A u \in Unit :
        u \in stopped /\ unit[u] # "active" /\ unit'[u] = "active" /\ u \notin stopped'
          => ~host.halting /\ \A i \in Run : cmd[i] = "none"

(* A step that starts a stopped unit is a start script's, and BootInv says
   that no shutdown is queued and no command on its way then. *)
LEMMA StepStartsNothing == AllPlans => (BootInv /\ [Next]_vars => NoStart)
<1> SUFFICES ASSUME AllPlans, BootInv, [Next]_vars, NEW u \in Unit, u \in stopped, unit[u] # "active",
                    unit'[u] = "active", u \notin stopped'
             PROVE  ~host.halting /\ \A i \in Run : cmd[i] = "none"
  BY DEF NoStart
<1>1. \E s \in Script : script[s].pc = "go"
  <2>1. ~UNCHANGED stopped /\ ~UNCHANGED unit
    OBVIOUS
  <2>2. ASSUME NEW s \in Script, ScriptStep(s) \/ HungUp(s) PROVE script[s].pc = "go"
    BY <2>1, <2>2 DEF ScriptStep, Enter, LockTimesOut, Unreachable, Publish, StopRefused, StopUnits, Drained,
       StartNothing, StartRefused, StartBegins, CheckUnit, StartUnit, Retire, HungUp, onHost, callers
  <2>3. ASSUME NEW i \in Run, RunStep(i) \/ Interrupt(i) \/ Crash(i) \/ Arrives(i) \/ Queues(i) PROVE FALSE
    BY <2>1, <2>3 DEF RunStep, Begin, StopReturns, SendReboot, RebootReturns, WaitDown, WaitUp, StartReturns,
       Interrupt, Crash, Arrives, Queues, onHost
  <2>4. ASSUME NEW o \in Resume, ResumeStep(o) \/ ResumeCrash(o) PROVE FALSE
    BY <2>1, <2>4 DEF ResumeStep, ResumeRead, ResumeReserve, ResumeInspect, ResumeReturns, ReleaseRetained,
       ResumeCrash, onHost
  <2>5. ~HostStep /\ ~ \E v \in Unit : Mended(v) \/ StartedByOther(v)
    BY <2>1 DEF HostStep, GoesDown, ComesUp, UnitStops, Mended, StartedByOther
  <2> QED BY <2>1, <2>2, <2>3, <2>4, <2>5 DEF Next, vars
<1>2. PICK s \in Script : script[s].pc = "go"
  BY <1>1
<1>3. Owner(s) /\ cmd[script[s].owner] = "none"
  BY <1>2 DEF BootInv, CommandInv, StartOwners
<1>4. ~host.halting
  BY <1>2 DEF BootInv, Halting
<1>5. ASSUME NEW i \in Run PROVE cmd[i] = "none"
  <2>1. cmd[i] # "none" => record.owner = i
    BY DEF BootInv, CommandInv, ThisBoot, StoppedOwns, Stopped, AllPlans
  <2> QED BY <1>3, <2>1 DEF Owner
<1> QED BY <1>4, <1>5

-----------------------------------------------------------------------------
(* Theorems *)

(* Every state of the model is typed, whatever the faults.                    *)
THEOREM TypeCorrect == Spec => []TypeOK
BY InitTyped, StepTyped, PTL DEF Spec

(* What a reboot run stopped is in a stop record until it runs again, for any *)
(* runs, resumes, plans and faults (runnerStopScript, runnerStartScript).     *)
THEOREM StoppedRecorded == Spec => []StoppedIsRecorded
<1>1. RecordInv => StoppedIsRecorded
  BY DEF RecordInv
<1> QED BY <1>1, InitRecord, StepKeepsRecord, PTL DEF Spec

(* A reboot command is on its way only under its own run's stop record        *)
(* (stopRunners, sendReboot, runners resume).                                 *)
THEOREM CommandOwns == Spec => []CommandOwnsRecord
<1>1. CommandInv => CommandOwnsRecord
  BY DEF CommandInv, StoppedOwns, Stopped, CommandOwnsRecord
<1> QED BY <1>1, InitCommand, StepKeepsCommand, PTL DEF Spec

(* A resume's start script is on the host only under that resume's            *)
(* reservation (reservedResume).                                              *)
THEOREM ResumeReserved == Spec => []ResumeIsReserved
<1>1. ReservedInv => ResumeIsReserved
  BY DEF ReservedInv, Reserved, ResumeIsReserved
<1> QED BY <1>1, InitReserved, StepKeepsReserved, PTL DEF Spec

(* No stopped runner is started while a reboot command is on its way or a     *)
(* shutdown is queued, as long as every run's plan has a runner to stop; the  *)
(* run with an empty plan shows why that is needed (runnerStartScript).       *)
THEOREM NoStartIntoReboot == ASSUME AllPlans PROVE Spec => NoStartBeforeReboot
<1>1. BootInv /\ [Next]_vars => BootInv'
  BY StepKeepsBoot
<1>2. BootInv /\ [Next]_vars => [NoStart]_vars
  BY StepStartsNothing
<1>3. NoStartBeforeReboot <=> [][NoStart]_vars
  BY DEF NoStartBeforeReboot, NoStart
<1> QED BY <1>1, <1>2, <1>3, InitBoot, PTL DEF Spec

-----------------------------------------------------------------------------
(***************************************************************************)
(* RunnerRestart.  Tracked and Started are what the command knows of the   *)
(* restarts that it started, Turns what the group's order makes of that: a *)
(* host whose turn it is finds no restart of the command's still at work.  *)
(***************************************************************************)

CONSTANTS HostCount, Serial, Self, MaxRuns
VARIABLES service, at, target, exit

T == INSTANCE RunnerRestart WITH unit <- service

\* What a unit is, and a host's part of the plan.
ServiceState == [run : 0 .. MaxRuns, ours : BOOLEAN, going : BOOLEAN, of : 0 .. MaxRuns,
                 status : T!Ended \cup {"none", "waiting"}, good : 0 .. MaxRuns]
TargetState == [skip : {"unread", "no", "nothing", "failed"}, joins : BOOLEAN, before : 0 .. MaxRuns,
                since : 0 .. MaxRuns + 1, follows : 0 .. MaxRuns,
                status : {"none", "starting", "zero", "error", "timeout"},
                outcome : {"none", "ok", "failed"}]

\* The type invariant, of the whole state, with the order of a unit's runs.
RestartTyped ==
    /\ at \in {"read", "ask", "work", "over"} /\ exit \in {"none", "ok", "failed"}
    /\ service \in [T!Host -> ServiceState] /\ target \in [T!Host -> TargetState]
Ordered(u) == /\ u.of <= u.run /\ u.good <= u.run /\ (u.ours => u.going)
              /\ u.status = "done" => u.good >= u.of

\* The run that a host's restart follows counts as one, and was over when the
\* command said so; what succeeded since then is the restart.
Tracked(u, t) ==
    t.skip = "no" =>
       /\ u.run + 1 >= t.since /\ (t.joins \/ u.going => u.run >= t.since)
       /\ t.follows # 0 => t.since <= t.follows /\ t.follows <= u.run
       /\ t.status = "zero" => t.follows # 0 /\ u.of >= t.follows /\ ~ (u.going /\ u.run = t.follows)
       /\ t.outcome = "ok" => t.status = "zero" /\ u.good >= t.since

\* A run that the command started, while it does not know how it ended.
Started(u, t) ==
    u.ours => t.skip = "no" /\ t.status \in {"starting", "error", "timeout"} /\ u.run = t.follows

\* Both, of each host.
Hosts == \A h \in T!Host : Ordered(service[h]) /\ Tracked(service[h], target[h])

\* Nothing is started before the command's work.
Untried(t) == t.status = "none" /\ t.outcome = "none" /\ t.follows = 0
RestartPhases ==
    /\ at \in {"read", "ask"} =>
          \A h \in T!Host : ~ service[h].ours /\ Untried(target[h])
    /\ at = "work" => \A h \in T!Host : Started(service[h], target[h])
    /\ at # "over" => exit # "ok"
    /\ at = "work" /\ exit = "none" => \A h \in T!Work : target[h].outcome # "failed"

\* The members of a group that have had their turn, and that have lost it.
Turns ==
    at = "work" =>
       \A h \in T!Work : \A k \in T!Group(h) \cap T!Work :
          /\ target[h].outcome = "failed" => target[k].outcome # "none"
          /\ T!Precedes(h, k) /\ target[k].status # "none" => target[h].outcome # "none"

\* The invariant.
RestartInv == RestartTyped /\ Hosts /\ RestartPhases /\ Turns /\ T!RestartsAreInTurn

-----------------------------------------------------------------------------

(* The members of a group have that group. *)
LEMMA GroupIs ==
    ASSUME T!Settings, NEW h \in T!Host, NEW k \in T!Group(h)
    PROVE  k \in T!Host /\ T!Group(k) = T!Group(h) /\ h \in T!Group(k)
<1>1. CASE \E g \in Serial : h \in g /\ k \in g
  <2>1. PICK g \in Serial : h \in g /\ k \in g
    BY <1>1
  <2>2. \A f \in Serial : h \in f \/ k \in f => f = g
    BY <2>1 DEF T!Settings
  <2>3. {f \in Serial : h \in f} = {g} /\ {f \in Serial : k \in f} = {g}
    BY <2>1, <2>2
  <2>4. UNION {g} = g /\ g \cup {h} = g /\ g \cup {k} = g
    BY <2>1
  <2>5. T!Group(h) = g /\ T!Group(k) = g
    BY <2>3, <2>4 DEF T!Group
  <2> QED BY <2>1, <2>5 DEF T!Settings
<1>2. CASE k = h
  BY <1>2 DEF T!Group
<1>3. k = h \/ \E g \in Serial : h \in g /\ k \in g
  BY DEF T!Group
<1> QED BY <1>1, <1>2, <1>3

(* The parts of the state. *)
LEMMA RestartStateIs ==
    ASSUME T!Settings, RestartTyped, NEW h \in T!Host
    PROVE  /\ service[h] \in ServiceState /\ target[h] \in TargetState
           /\ service[h].run \in Nat /\ service[h].of \in Nat /\ service[h].good \in Nat
           /\ target[h].since \in Nat /\ target[h].follows \in Nat /\ service[h].run <= MaxRuns
           /\ service[h].going \in BOOLEAN /\ service[h].ours \in BOOLEAN /\ target[h].joins \in BOOLEAN
<1>1. service[h] \in ServiceState /\ target[h] \in TargetState
  BY DEF RestartTyped
<1> QED BY <1>1 DEF ServiceState, TargetState, T!Settings

(* Of two hosts one precedes the other. *)
LEMMA OneFirst ==
    ASSUME T!Settings, NEW h \in T!Host, NEW k \in T!Host, h # k
    PROVE  T!Precedes(h, k) \/ T!Precedes(k, h)
<1>1. h \in Int /\ k \in Int
  BY DEF T!Host, T!Settings
<1>2. T!Rank(h) \in Int /\ T!Rank(k) \in Int
  BY <1>1 DEF T!Rank
<1> QED BY <1>1, <1>2 DEF T!Precedes

(* What a restart's unit does by itself, or by someone else's start.  *)
UnitMoves(u, v) ==
    /\ v \in ServiceState /\ Ordered(v)
    /\ v.run >= u.run /\ v.of >= u.of /\ v.good >= u.good
    /\ v.going => (u.going /\ v.run = u.run) \/ v.run > u.run
    /\ v.ours => u.ours /\ v.going /\ v.run = u.run

(* What a unit does by itself keeps the invariant. *)
LEMMA UnitKeeps ==
    ASSUME T!Settings, RestartInv, NEW h \in T!Host, NEW v, UnitMoves(service[h], v),
           service' = [service EXCEPT ![h] = v],
           UNCHANGED <<at, target, exit>>
    PROVE  RestartInv'
<1> DEFINE u == service[h]
<1>1. /\ service' \in [T!Host -> ServiceState] /\ service'[h] = v
      /\ \A k \in T!Host : k # h => service'[k] = service[k]
  BY DEF RestartInv, RestartTyped, UnitMoves
<1>2. RestartTyped'
  BY <1>1 DEF RestartInv, RestartTyped
<1>3. /\ u.run \in Nat /\ u.of \in Nat /\ u.good \in Nat /\ v.run \in Nat /\ v.of \in Nat /\ v.good \in Nat
      /\ target[h].since \in Nat /\ target[h].follows \in Nat
  BY RestartStateIs DEF RestartInv, UnitMoves, ServiceState, T!Settings
<1>4. Tracked(v, target[h])
  <2>1. Tracked(u, target[h])
    BY DEF RestartInv, Hosts
  <2> DEFINE t == target[h]
  <2>2. /\ v.run >= u.run /\ v.of >= u.of /\ v.good >= u.good
        /\ v.going => (u.going /\ v.run = u.run) \/ v.run > u.run
    BY DEF UnitMoves
  <2> HIDE DEF u, t
  <2> SUFFICES ASSUME t.skip = "no" PROVE Tracked(v, t)
    BY DEF Tracked, t
  <2>3. v.run + 1 >= t.since
    BY <1>3, <2>1, <2>2 DEF Tracked, t
  <2>4. t.joins => v.run >= t.since
    BY <1>3, <2>1, <2>2 DEF Tracked, t
  <2>5. v.going => v.run >= t.since
    BY <1>3, <2>1, <2>2 DEF Tracked, t
  <2>6. t.follows # 0 => t.since <= t.follows /\ t.follows <= v.run
    BY <1>3, <2>1, <2>2 DEF Tracked, t
  <2>7. t.status = "zero" => t.follows # 0 /\ v.of >= t.follows
    BY <1>3, <2>1, <2>2 DEF Tracked, t
  <2>8. t.status = "zero" => ~ (v.going /\ v.run = t.follows)
    BY <1>3, <2>1, <2>2 DEF Tracked, t
  <2>9. t.outcome = "ok" => t.status = "zero" /\ v.good >= t.since
    BY <1>3, <2>1, <2>2 DEF Tracked, t
  <2> QED BY <2>3, <2>4, <2>5, <2>6, <2>7, <2>8, <2>9 DEF Tracked
<1>5. Hosts'
  BY <1>1, <1>4 DEF RestartInv, Hosts, UnitMoves
<1>6. RestartPhases'
  BY <1>1 DEF RestartInv, RestartPhases, Started, UnitMoves, T!Work
<1>7. Turns'
  <2>1. Turns
    BY DEF RestartInv
  <2>2. target' = target /\ at' = at
    OBVIOUS
  <2> QED BY <2>1, <2>2 DEF Turns, T!Work, T!Group, T!Precedes, T!Rank
<1>8. \A k \in T!Host :
         /\ service'[k].good >= service[k].good
         /\ service'[k].ours => service[k].ours /\ service[k].going
         /\ service'[k].going => \/ service[k].going /\ service'[k].run = service[k].run
                                 \/ service'[k].run > service[k].run
  <2> SUFFICES ASSUME NEW k \in T!Host
               PROVE  /\ service'[k].good >= service[k].good
                      /\ service'[k].ours => service[k].ours /\ service[k].going
                      /\ service'[k].going => \/ service[k].going /\ service'[k].run = service[k].run
                                              \/ service'[k].run > service[k].run
    OBVIOUS
  <2>1. CASE k = h
    BY <1>1, <2>1 DEF UnitMoves, RestartInv, Hosts, Ordered
  <2>2. CASE k # h
    BY <1>1, <2>2, RestartStateIs DEF RestartInv, Hosts, Ordered
  <2> QED BY <2>1, <2>2
<1>9. T!RestartsAreInTurn'
  <2>1. T!OneStartedAtATime'
    BY <1>8 DEF RestartInv, T!RestartsAreInTurn, T!OneStartedAtATime, T!Settings
  <2>2. T!FoundFirst'
    <3> SUFFICES ASSUME NEW g \in Serial, NEW i \in g, NEW k \in g, service'[i].going, service'[i].ours,
                        ~ target[i].joins, k \in T!Work, target[k].joins, service'[k].going,
                        service'[k].run = target[k].since
                 PROVE  FALSE
      BY DEF T!FoundFirst, T!Work
    <3>1. i \in T!Host /\ k \in T!Host
      BY DEF T!Settings
    <3>2. service[i].going /\ service[i].ours
      BY <1>8, <3>1
    <3>3. service[k].run >= target[k].since
      BY <3>1 DEF RestartInv, Hosts, Tracked, T!Work
    <3>4. service[k].going /\ service[k].run = target[k].since
      BY <1>8, <3>1, <3>3, RestartStateIs DEF RestartInv
    <3> QED BY <3>2, <3>4 DEF RestartInv, T!RestartsAreInTurn, T!FoundFirst
  <2>3. T!SuccessIsRestart'
    <3> SUFFICES ASSUME exit = "ok", NEW k \in T!Work PROVE service'[k].good >= target[k].since
      BY DEF T!SuccessIsRestart, T!Work
    <3>1. service[k].good >= target[k].since /\ k \in T!Host
      BY DEF RestartInv, T!RestartsAreInTurn, T!SuccessIsRestart, T!Work
    <3>2. service'[k].good >= service[k].good /\ service'[k].good \in Int
      BY <1>1, <1>8, <3>1 DEF ServiceState, T!Settings
    <3> QED BY <3>1, <3>2, RestartStateIs DEF RestartInv
  <2> QED BY <2>1, <2>2, <2>3 DEF T!RestartsAreInTurn
<1> QED BY <1>2, <1>5, <1>6, <1>7, <1>9 DEF RestartInv

(* What the command does before its work starts nothing. *)
LEMMA QuietKeeps ==
    ASSUME T!Settings, RestartInv, at \in {"read", "ask"}, at' \in {"read", "ask", "work"},
           exit' \in {"none", "failed"}, service' = service, target' \in [T!Host -> TargetState],
           \A h \in T!Host : Untried(target'[h]) /\ Tracked(service[h], target'[h])
    PROVE  RestartInv'
<1>1. \A h \in T!Host : ~ service[h].ours /\ Ordered(service[h])
  BY DEF RestartInv, RestartPhases, Hosts
<1>2. RestartTyped' /\ Hosts'
  BY <1>1 DEF RestartInv, RestartTyped, Hosts
<1>3. RestartPhases'
  BY <1>1 DEF RestartPhases, Started, Untried, T!Work
<1>4. Turns'
  BY DEF Turns, Untried, T!Work
<1>5. T!RestartsAreInTurn'
  BY <1>1 DEF T!RestartsAreInTurn, T!OneStartedAtATime, T!FoundFirst, T!SuccessIsRestart, T!Settings
<1> QED BY <1>2, <1>3, <1>4, <1>5 DEF RestartInv

(* A command that ends with a failure forgets its plan. *)
LEMMA OverKeeps ==
    ASSUME T!Settings, RestartInv, T!Over("failed"), UNCHANGED service
    PROVE  RestartInv'
<1>1. at' = "over" /\ exit' = "failed" /\ target' = [h \in T!Host |-> T!NoTarget]
  BY DEF T!Over
<1>2. T!NoTarget \in TargetState /\ T!NoTarget.skip = "unread" /\ ~ T!NoTarget.joins
  BY DEF T!NoTarget, TargetState, T!Settings
<1>3. RestartTyped' /\ Hosts'
  BY <1>1, <1>2 DEF RestartInv, RestartTyped, Hosts, Tracked
<1>4. RestartPhases' /\ Turns'
  BY <1>1 DEF RestartPhases, Turns
<1>5. T!RestartsAreInTurn'
  <2>1. T!OneStartedAtATime' /\ T!SuccessIsRestart'
    BY <1>1 DEF RestartInv, T!RestartsAreInTurn, T!OneStartedAtATime, T!SuccessIsRestart
  <2>2. T!FoundFirst'
    BY <1>1, <1>2 DEF T!FoundFirst, T!Work
  <2> QED BY <2>1, <2>2 DEF T!RestartsAreInTurn
<1> QED BY <1>3, <1>4, <1>5 DEF RestartInv

(* One that ends with success keeps it. *)
LEMMA SuccessKeeps ==
    ASSUME T!Settings, RestartInv, T!Over("ok"), UNCHANGED service,
           \A h \in T!Work : service[h].good >= target[h].since
    PROVE  RestartInv'
<1>1. at' = "over" /\ exit' = "ok" /\ target' = target
  BY DEF T!Over
<1>2. RestartTyped' /\ Hosts' /\ RestartPhases' /\ Turns'
  BY <1>1 DEF RestartInv, RestartTyped, Hosts, RestartPhases, Turns
<1>3. T!RestartsAreInTurn'
  BY <1>1 DEF RestartInv, T!RestartsAreInTurn, T!OneStartedAtATime, T!FoundFirst, T!SuccessIsRestart, T!Work
<1> QED BY <1>2, <1>3 DEF RestartInv

(* A host is read. *)
LEMMA PlanKeeps ==
    ASSUME T!Settings, RestartInv, NEW h \in T!Host, T!Plan(h)
    PROVE  RestartInv'
<1> DEFINE u == service[h]
           t == target[h]
           n == [t EXCEPT !.skip = "no", !.joins = u.going, !.before = u.of,
                          !.since = IF u.going THEN u.run ELSE u.run + 1]
<1>1. /\ u \in ServiceState /\ t \in TargetState /\ Untried(t) /\ u.run \in Nat /\ u.run <= MaxRuns
      /\ u.going \in BOOLEAN
      /\ u.run + 1 \in 0 .. MaxRuns + 1
  BY RestartStateIs DEF RestartInv, RestartPhases, T!Plan, T!Settings
<1>2. PICK r \in {"failed", "nothing", "no"} :
         target' = [target EXCEPT ![h] = IF r # "no" THEN [t EXCEPT !.skip = r] ELSE n]
  BY DEF T!Plan, T!Readings
<1>3. n \in TargetState /\ Untried(n) /\ Tracked(u, n)
  <2> HIDE DEF u, t
  <2>1. u.of \in 0 .. MaxRuns /\ u.run \in 0 .. MaxRuns + 1
    BY <1>1 DEF ServiceState, T!Settings
  <2>2. n \in TargetState
    BY <1>1, <2>1 DEF TargetState
  <2>3. n.skip = "no" /\ n.joins = u.going /\ n.since = (IF u.going THEN u.run ELSE u.run + 1) /\ Untried(n)
    BY <1>1 DEF TargetState, Untried
  <2> QED BY <1>1, <2>2, <2>3 DEF Tracked, Untried
<1>4. ASSUME NEW skip \in {"failed", "nothing"}
      PROVE  /\ [t EXCEPT !.skip = skip] \in TargetState /\ Untried([t EXCEPT !.skip = skip])
             /\ Tracked(u, [t EXCEPT !.skip = skip])
  BY <1>1 DEF TargetState, Untried, Tracked
<1>5. /\ target' \in [T!Host -> TargetState] /\ Untried(target'[h]) /\ Tracked(u, target'[h])
      /\ \A k \in T!Host : k # h => target'[k] = target[k]
  <2> HIDE DEF n, u, t
  <2> QED BY <1>2, <1>3, <1>4 DEF RestartInv, RestartTyped
<1>6. at = "read" /\ at' = "read" /\ service' = service /\ exit' \in {"none", "failed"}
  BY DEF T!Plan, RestartInv, RestartPhases, RestartTyped
<1>7. \A k \in T!Host : Untried(target'[k]) /\ Tracked(service[k], target'[k])
  BY <1>5, <1>6 DEF RestartInv, Hosts, RestartPhases
<1> QED BY <1>5, <1>6, <1>7, QuietKeeps

(* All hosts are read: the groups with a failed member are not restarted. *)
LEMMA PlannedKeeps ==
    ASSUME T!Settings, RestartInv, T!Planned
    PROVE  RestartInv'
<1>1. at = "read" /\ service' = service
  BY DEF T!Planned
<1>2. ASSUME at' = "ask", target' = T!stopFailedGroups, exit' \in {"none", "failed"}
      PROVE  RestartInv'
  <2>1. \A h \in T!Host : target[h] \in TargetState /\ Untried(target[h]) /\ Tracked(service[h], target[h])
    BY <1>1, RestartStateIs DEF RestartInv, RestartPhases, Hosts
  <2>2. ASSUME NEW h \in T!Host
        PROVE  [target[h] EXCEPT !.skip = "failed"] \in TargetState
               /\ Untried([target[h] EXCEPT !.skip = "failed"])
               /\ Tracked(service[h], [target[h] EXCEPT !.skip = "failed"])
    BY <2>1 DEF TargetState, Untried, Tracked
  <2>3. \A h \in T!Host : target'[h] \in {target[h], [target[h] EXCEPT !.skip = "failed"]}
    BY <1>2 DEF T!stopFailedGroups
  <2>4. target' \in [T!Host -> TargetState]
    BY <1>2, <2>1, <2>2 DEF T!stopFailedGroups
  <2>5. \A h \in T!Host : Untried(target'[h]) /\ Tracked(service[h], target'[h])
    BY <2>1, <2>2, <2>3
  <2> QED BY <1>1, <1>2, <2>4, <2>5, QuietKeeps
<1>3. ASSUME T!Over("ok"), {h \in T!Host : T!stopFailedGroups[h].skip = "no"} = {},
             ~ \E h \in T!Host : target[h].skip = "failed"
      PROVE  RestartInv'
  <2>1. T!Work = {}
    <3>1. \A h \in T!Host : T!Group(h) \subseteq T!Host
      BY GroupIs
    <3>2. \A h \in T!Host : T!stopFailedGroups[h] = target[h]
      BY <1>3, <3>1 DEF T!stopFailedGroups
    <3> QED BY <1>3, <3>2 DEF T!Work
  <2> QED BY <1>1, <1>3, <2>1, SuccessKeeps
<1> QED BY <1>1, <1>2, <1>3, OverKeeps DEF T!Planned

(* The person agrees or not. *)
LEMMA AskKeeps ==
    ASSUME T!Settings, RestartInv, T!Ask
    PROVE  RestartInv'
<1>1. CASE at' = "work" /\ UNCHANGED <<target, exit>>
  <2>1. at = "ask" /\ service' = service
    BY DEF T!Ask
  <2>2. exit' \in {"none", "failed"} /\ target' \in [T!Host -> TargetState]
        /\ \A h \in T!Host : Untried(target'[h]) /\ Tracked(service[h], target'[h])
    BY <1>1, <2>1 DEF RestartInv, RestartTyped, RestartPhases, Hosts
  <2> QED BY <1>1, <2>1, <2>2, QuietKeeps
<1>2. CASE T!Over("failed")
  BY <1>2, OverKeeps DEF T!Ask
<1> QED BY <1>1, <1>2 DEF T!Ask

(* The command's end. *)
LEMMA EndKeeps ==
    ASSUME T!Settings, RestartInv, T!End
    PROVE  RestartInv'
<1>1. /\ at = "work" /\ service' = service /\ exit \in {"none", "failed"}
      /\ \A h \in T!Work : target[h].outcome # "none"
  BY DEF T!End, RestartInv, RestartPhases, RestartTyped
<1>2. CASE exit = "none"
  <2>1. ASSUME NEW h \in T!Work PROVE service[h].good >= target[h].since
    <3>1. h \in T!Host /\ target[h].skip = "no" /\ Tracked(service[h], target[h]) /\ target[h].outcome # "failed"
      BY <1>1, <1>2 DEF RestartInv, Hosts, T!Work, RestartPhases
    <3>2. target[h].outcome = "ok"
      BY <1>1, <3>1, RestartStateIs DEF RestartInv, TargetState
    <3> QED BY <3>1, <3>2 DEF Tracked
  <2> QED BY <1>1, <1>2, <2>1, SuccessKeeps DEF T!End
<1>3. CASE exit = "failed"
  BY <1>1, <1>3, OverKeeps DEF T!End
<1> QED BY <1>1, <1>2, <1>3

(* What the plan decides stays through the work. *)
SamePlan == \A h \in T!Host :
               /\ target'[h].skip = target[h].skip /\ target'[h].joins = target[h].joins
               /\ target'[h].since = target[h].since

(* Then it is the same work in the same order. *)
LEMMA SameOrder ==
    ASSUME T!Settings, SamePlan
    PROVE  T!Work' = T!Work /\ \A g, h \in T!Host : T!Precedes(g, h)' <=> T!Precedes(g, h)
<1>1. \A h \in T!Host : T!Rank(h)' = T!Rank(h)
  BY DEF SamePlan, T!Rank
<1> QED BY <1>1 DEF SamePlan, T!Work, T!Precedes

(* A step at work whose host keeps what it was, and that starts none. *)
LEMMA WorkKeeps ==
    ASSUME T!Settings, RestartInv, at = "work", at' = "work", exit' \in {"none", "failed"},
           service' \in [T!Host -> ServiceState], target' \in [T!Host -> TargetState], SamePlan,
           \A h \in T!Host :
              /\ Ordered(service'[h]) /\ Tracked(service'[h], target'[h])
              /\ Started(service'[h], target'[h]),
           exit' = "none" => \A h \in T!Work : target'[h].outcome # "failed",
           \A h \in T!Work : \A k \in T!Group(h) \cap T!Work :
              /\ target'[h].outcome = "failed" => target'[k].outcome # "none"
              /\ T!Precedes(h, k) /\ target'[k].status # "none" => target'[h].outcome # "none",
           service' = service \/ (T!OneStartedAtATime' /\ T!FoundFirst')
    PROVE  RestartInv'
<1>1. T!Work' = T!Work /\ T!Work \subseteq T!Host /\ \A h \in T!Host : T!Group(h) \subseteq T!Host
  BY SameOrder, GroupIs DEF T!Work
<1>2. RestartTyped' /\ Hosts'
  BY DEF RestartTyped, Hosts
<1>3. RestartPhases'
  BY <1>1 DEF RestartPhases
<1>4. Turns'
  <2> SUFFICES ASSUME NEW h \in T!Work, NEW k \in T!Group(h) \cap T!Work
               PROVE  /\ target'[h].outcome = "failed" => target'[k].outcome # "none"
                      /\ T!Precedes(h, k)' /\ target'[k].status # "none" => target'[h].outcome # "none"
    BY <1>1 DEF Turns, T!Group
  <2>1. T!Precedes(h, k)' <=> T!Precedes(h, k)
    BY <1>1, SameOrder
  <2> QED BY <2>1
<1>5. T!RestartsAreInTurn'
  <2>1. CASE service' = service
    BY <1>1, <2>1 DEF RestartInv, T!RestartsAreInTurn, T!OneStartedAtATime, T!FoundFirst, T!SuccessIsRestart,
           SamePlan, T!Settings
  <2>2. CASE T!OneStartedAtATime' /\ T!FoundFirst'
    BY <2>2 DEF T!RestartsAreInTurn, T!SuccessIsRestart
  <2> QED BY <2>1, <2>2
<1> QED BY <1>2, <1>3, <1>4, <1>5 DEF RestartInv

(* What a member of the plan is while the command works. *)
LEMMA AtWork ==
    ASSUME T!Settings, RestartInv, at = "work", NEW h \in T!Host
    PROVE  /\ service[h] \in ServiceState /\ target[h] \in TargetState
           /\ Ordered(service[h]) /\ Tracked(service[h], target[h]) /\ Started(service[h], target[h])
           /\ exit \in {"none", "failed"}
           /\ exit = "none" /\ h \in T!Work => target[h].outcome # "failed"
           /\ \A k \in T!Group(h) \cap T!Work : h \in T!Work =>
                 /\ target[h].outcome = "failed" => target[k].outcome # "none"
                 /\ T!Precedes(h, k) /\ target[k].status # "none" => target[h].outcome # "none"
BY RestartStateIs DEF RestartInv, Hosts, RestartPhases, Turns, RestartTyped

(* One host's turn: its part of the plan moves on, before an outcome. *)
LEMMA TurnKeeps ==
    ASSUME T!Settings, RestartInv, at = "work", at' = "work", exit' = exit, NEW h \in T!Host,
           NEW v \in ServiceState, NEW t \in TargetState,
           service' = [service EXCEPT ![h] = v], target' = [target EXCEPT ![h] = t],
           t.skip = target[h].skip, t.joins = target[h].joins, t.since = target[h].since,
           t.outcome = target[h].outcome,
           Ordered(v), Tracked(v, t), Started(v, t),
           target[h].status = "none" => T!InTurn(h),
           v = service[h] \/ (T!OneStartedAtATime' /\ T!FoundFirst')
    PROVE  RestartInv'
<1>1. /\ service' \in [T!Host -> ServiceState] /\ target' \in [T!Host -> TargetState]
      /\ service'[h] = v /\ target'[h] = t
      /\ \A k \in T!Host : k # h => service'[k] = service[k] /\ target'[k] = target[k]
  BY DEF RestartInv, RestartTyped
<1>2. SamePlan /\ \A k \in T!Host : target'[k].outcome = target[k].outcome
  BY <1>1 DEF SamePlan
<1>3. \A k \in T!Host :
         /\ Ordered(service'[k]) /\ Tracked(service'[k], target'[k])
         /\ Started(service'[k], target'[k])
  BY <1>1, AtWork
<1>4. exit' = "none" => \A k \in T!Work : target'[k].outcome # "failed"
  BY <1>2, AtWork DEF T!Work
<1>5. ASSUME NEW g \in T!Work, NEW k \in T!Group(g) \cap T!Work
      PROVE  /\ target'[g].outcome = "failed" => target'[k].outcome # "none"
             /\ T!Precedes(g, k) /\ target'[k].status # "none" => target'[g].outcome # "none"
  <2>1. g \in T!Host /\ k \in T!Host
    BY DEF T!Work
  <2>2. /\ target'[g].outcome = target[g].outcome /\ target'[k].outcome = target[k].outcome
        /\ target[g].outcome = "failed" => target[k].outcome # "none"
        /\ T!Precedes(g, k) /\ target[k].status # "none" => target[g].outcome # "none"
    BY <1>2, <2>1, AtWork
  <2>3. CASE k = h /\ target[h].status = "none"
    <3>1. g \in T!Group(h) /\ T!InTurn(h)
      BY <2>1, <2>3, GroupIs
    <3> QED BY <2>2, <2>3, <3>1 DEF T!InTurn
  <2>4. CASE ~ (k = h /\ target[h].status = "none")
    BY <1>1, <2>1, <2>2, <2>4
  <2> QED BY <2>3, <2>4
<1>6. service' = service \/ (T!OneStartedAtATime' /\ T!FoundFirst')
  BY DEF RestartInv, RestartTyped
<1>7. exit' \in {"none", "failed"}
  BY AtWork
<1> QED BY <1>1, <1>2, <1>3, <1>4, <1>5, <1>6, <1>7, WorkKeeps

(* Who had a turn before a host whose turn it is is done, and none of its     *)
(* group that the command started is at work.                                 *)
LEMMA NoneAtWork ==
    ASSUME T!Settings, RestartInv, NEW h \in T!Host, T!InTurn(h), NEW k \in T!Group(h) \cap T!Work, k # h
    PROVE  /\ ~ service[k].ours
           /\ T!Precedes(k, h) => target[k].outcome = "ok" /\ target[k].status = "zero"
<1>1. /\ k \in T!Host /\ h \in T!Work /\ h \in T!Group(k) /\ at = "work" /\ target[h].outcome = "none"
      /\ T!Precedes(k, h) => target[k].outcome # "none"
  BY GroupIs DEF T!InTurn
<1>2. /\ Tracked(service[k], target[k]) /\ Started(service[k], target[k]) /\ target[k] \in TargetState
      /\ target[k].outcome # "failed"
      /\ T!Precedes(h, k) => target[k].status = "none"
  BY <1>1, AtWork
<1>3. T!Precedes(k, h) => target[k].outcome = "ok" /\ target[k].status = "zero"
  BY <1>1, <1>2 DEF TargetState, Tracked, T!Work
<1>4. T!Precedes(h, k) \/ T!Precedes(k, h)
  BY <1>1, OneFirst
<1> QED BY <1>2, <1>3, <1>4 DEF Started

(* A host's unit is started, or joined, or neither. *)
LEMMA StartKeeps ==
    ASSUME T!Settings, RestartInv, NEW h \in T!Host, T!Start(h)
    PROVE  RestartInv'
<1> DEFINE u == service[h]
           t == target[h]
           n(number) == [t EXCEPT !.status = "starting", !.follows = number]
           v == [u EXCEPT !.run = u.run + 1, !.going = TRUE, !.ours = TRUE]
<1>1. /\ T!InTurn(h) /\ at = "work" /\ at' = "work" /\ exit' = exit /\ t.skip = "no" /\ t.status = "none"
      /\ t.outcome = "none" /\ h \in T!Work
  BY DEF T!Start, T!InTurn, T!Work
<1>2. /\ u \in ServiceState /\ t \in TargetState /\ Ordered(u) /\ Tracked(u, t) /\ ~ u.ours
      /\ u.run \in Nat /\ u.of \in Nat /\ u.good \in Nat /\ t.since \in Nat
      /\ u.run <= MaxRuns /\ MaxRuns \in Nat
  BY <1>1, AtWork, RestartStateIs DEF Started, RestartInv, T!Settings
<1>3. ASSUME NEW number \in 0 .. MaxRuns
      PROVE  /\ n(number) \in TargetState /\ n(number).skip = t.skip /\ n(number).joins = t.joins
             /\ n(number).since = t.since /\ n(number).outcome = t.outcome /\ n(number).status = "starting"
             /\ n(number).follows = number
  <2> HIDE DEF t
  <2> QED BY <1>2 DEF TargetState
<1>4. ASSUME NEW number \in {0, u.run}, number = 0 \/ u.going, target' = [target EXCEPT ![h] = n(number)],
             service' = service
      PROVE  RestartInv'
  <2>1. number \in 0 .. MaxRuns /\ service' = [service EXCEPT ![h] = u]
    BY <1>2, <1>4 DEF RestartInv, RestartTyped
  <2>2. Tracked(u, n(number)) /\ Started(u, n(number))
    <3> HIDE DEF u, t, n
    <3> QED BY <1>1, <1>2, <1>3, <1>4, <2>1 DEF Tracked, Started
  <2> HIDE DEF n
  <2> QED BY <1>1, <1>2, <1>3, <1>4, <2>1, <2>2, TurnKeeps
<1>5. ASSUME ~ u.going, u.run < MaxRuns, target' = [target EXCEPT ![h] = n(u.run + 1)],
             service' = [service EXCEPT ![h] = v]
      PROVE  RestartInv'
  <2>1. u.run + 1 \in 0 .. MaxRuns /\ u.run + 1 \in Nat
    BY <1>2, <1>5
  <2>2. /\ v \in ServiceState /\ v.run = u.run + 1 /\ v.going /\ v.ours /\ v.of = u.of /\ v.good = u.good
        /\ v.status = u.status
    <3> HIDE DEF u
    <3> QED BY <1>2, <2>1 DEF ServiceState
  <2> DEFINE m == n(u.run + 1)
  <2>3. /\ m \in TargetState /\ m.skip = t.skip /\ m.joins = t.joins
        /\ m.since = t.since /\ m.outcome = t.outcome /\ m.status = "starting"
        /\ m.follows = u.run + 1
    BY <1>3, <2>1
  <2>4. Ordered(v) /\ Tracked(v, m) /\ Started(v, m)
    <3> HIDE DEF u, t, n, v, m
    <3> QED BY <1>1, <1>2, <1>5, <2>1, <2>2, <2>3 DEF Ordered, Tracked, Started
  <2>5. /\ service'[h] = v /\ \A k \in T!Host : k # h => service'[k] = service[k]
    BY <1>5 DEF RestartInv, RestartTyped
  <2>6. SamePlan
    BY <1>5, <2>3 DEF RestartInv, RestartTyped, SamePlan
  <2>7. T!Work' = T!Work /\ \A g \in Serial : g \subseteq T!Host /\ (h \in g => g \subseteq T!Group(h))
    BY <2>6, SameOrder DEF T!Settings, T!Group
  <2>8. T!OneStartedAtATime'
    <3> SUFFICES ASSUME NEW g \in Serial, h \in g, NEW k \in g, k # h, service[k].going, service[k].ours
                 PROVE  FALSE
      BY <2>5, <2>7 DEF T!OneStartedAtATime, RestartInv, T!RestartsAreInTurn
    <3>1. k \in T!Host /\ k \in T!Group(h) /\ k \in T!Work
      BY <1>1, <2>7, AtWork DEF Started, T!Work
    <3> QED BY <1>1, <3>1, NoneAtWork
  <2>9. T!FoundFirst'
    <3> SUFFICES ASSUME NEW g \in Serial, NEW i \in g, NEW k \in g, service'[i].going, service'[i].ours,
                        ~ target[i].joins, k \in T!Work, target[k].joins, service'[k].going,
                        service'[k].run = target[k].since
                 PROVE  FALSE
      BY <2>6, <2>7 DEF T!FoundFirst, SamePlan
    <3>1. i \in T!Host /\ k \in T!Host /\ i # k
      BY <2>7
    <3>2. k # h
      <4>1. SUFFICES ASSUME k = h PROVE FALSE
        OBVIOUS
      <4>2. u.run >= t.since
        BY <1>1, <1>2, <4>1 DEF Tracked
      <4>3. u.run + 1 = t.since
        BY <2>2, <2>5, <4>1
      <4> HIDE DEF u, t
      <4> QED BY <1>2, <4>2, <4>3
    <3>3. service[k].going /\ service[k].run = target[k].since
      BY <2>5, <3>1, <3>2
    <3>4. CASE i # h
      BY <2>5, <3>1, <3>3, <3>4 DEF RestartInv, T!RestartsAreInTurn, T!FoundFirst
    <3>5. CASE i = h
      <4>1. T!Precedes(k, h) /\ k \in T!Group(h) \cap T!Work
        <5>1. T!Rank(k) = -2 /\ T!Rank(h) >= -1 /\ T!Rank(h) \in Int
          BY <3>5 DEF T!Rank, T!Host, T!Settings
        <5> QED BY <2>7, <3>5, <5>1 DEF T!Precedes
      <4>2. target[k].outcome = "ok" /\ target[k].status = "zero"
        BY <1>1, <3>2, <4>1, NoneAtWork
      <4>3. /\ Tracked(service[k], target[k]) /\ target[k].skip = "no"
            /\ service[k].run \in Nat /\ target[k].follows \in Nat /\ target[k].since \in Nat
        BY <1>1, <3>1, AtWork, RestartStateIs DEF T!Work, RestartInv
      <4> QED BY <3>3, <4>2, <4>3 DEF Tracked
    <3> QED BY <3>4, <3>5
  <2> HIDE DEF m, v
  <2> QED BY <1>1, <1>5, <2>2, <2>3, <2>4, <2>8, <2>9, TurnKeeps DEF m
<1>6. CASE target' = [target EXCEPT ![h] = n(0)] /\ service' = service
  <2> HIDE DEF n
  <2> QED BY <1>4, <1>6
<1>7. CASE u.going /\ target' = [target EXCEPT ![h] = n(u.run)] /\ service' = service
  <2> HIDE DEF n
  <2> QED BY <1>4, <1>7
<1> QED BY <1>5, <1>6, <1>7 DEF T!Start

(* `systemctl start' returns. *)
LEMMA ReturnKeeps ==
    ASSUME T!Settings, RestartInv, NEW h \in T!Host, T!Return(h)
    PROVE  RestartInv'
<1> DEFINE u == service[h]
           t == target[h]
           n(status) == [t EXCEPT !.status = status]
<1>1. /\ at = "work" /\ at' = "work" /\ exit' = exit /\ t.status = "starting"
      /\ service' = [service EXCEPT ![h] = u]
  BY DEF T!Return, RestartInv, RestartTyped
<1>2. PICK s \in {"zero", "error", "timeout"} :
         /\ target' = [target EXCEPT ![h] = n(s)]
         /\ s = "zero" => t.follows # 0 /\ u.of >= t.follows /\ ~ (u.going /\ u.run = t.follows)
  BY DEF T!Return
<1>3. u \in ServiceState /\ t \in TargetState /\ Ordered(u) /\ Tracked(u, t) /\ Started(u, t)
  BY <1>1, AtWork
<1>4. /\ n(s) \in TargetState /\ n(s).skip = t.skip /\ n(s).joins = t.joins /\ n(s).since = t.since
      /\ n(s).outcome = t.outcome /\ n(s).follows = t.follows /\ n(s).status = s
  <2> HIDE DEF t
  <2> QED BY <1>3 DEF TargetState
<1>5. Tracked(u, n(s)) /\ Started(u, n(s))
  <2> HIDE DEF u, t, n
  <2> QED BY <1>1, <1>2, <1>3, <1>4 DEF Tracked, Started, Ordered
<1> HIDE DEF n
<1> QED BY <1>1, <1>2, <1>3, <1>4, <1>5, TurnKeeps

(* A restart is judged, and a failure stops the rest of its group. *)
LEMMA JudgeKeeps ==
    ASSUME T!Settings, RestartInv, NEW h \in T!Host, T!Judge(h)
    PROVE  RestartInv'
<1> DEFINE t == target[h]
<1>1. /\ at = "work" /\ at' = "work" /\ service' = service /\ t.outcome = "none"
      /\ t.status \in {"zero", "error", "timeout"}
  BY DEF T!Judge
<1>2. PICK failed \in BOOLEAN : T!Settle(h, failed) /\ (~ failed => T!Succeeded(t, service[h]))
  BY DEF T!Judge, T!Succeeded
<1>3. \A g \in T!Host :
         /\ target[g] \in TargetState /\ Ordered(service[g])
         /\ Tracked(service[g], target[g]) /\ Started(service[g], target[g])
  BY <1>1, AtWork
<1>4. ASSUME NEW g \in T!Host
      PROVE  /\ target'[g] \in TargetState
             /\ target'[g].skip = target[g].skip /\ target'[g].joins = target[g].joins
             /\ target'[g].since = target[g].since /\ target'[g].follows = target[g].follows
             /\ target'[g].status = target[g].status
             /\ target'[g].outcome = IF g = h THEN (IF failed THEN "failed" ELSE "ok")
                                     ELSE IF g \in T!Stopped(h, failed) THEN "failed" ELSE target[g].outcome
  <2>1. target'[g] = IF g = h THEN [target[g] EXCEPT !.outcome = IF failed THEN "failed" ELSE "ok"]
                     ELSE IF g \in T!Stopped(h, failed) THEN [target[g] EXCEPT !.outcome = "failed"]
                     ELSE target[g]
    BY <1>2 DEF T!Settle
  <2>2. target[g] \in TargetState
    BY <1>3
  <2> QED BY <2>1, <2>2 DEF TargetState
<1>5. target' \in [T!Host -> TargetState] /\ service' \in [T!Host -> ServiceState] /\ SamePlan
      /\ exit' \in {"none", "failed"}
  <2>1. target' = [g \in T!Host |-> target'[g]]
    BY <1>2 DEF T!Settle
  <2> QED BY <1>1, <1>2, <1>4, <2>1 DEF SamePlan, RestartInv, RestartTyped, RestartPhases, T!Settle
<1>6. ASSUME NEW g \in T!Host
      PROVE  Ordered(service'[g]) /\ Tracked(service'[g], target'[g]) /\ Started(service'[g], target'[g])
  <2>1. Ordered(service[g]) /\ Started(service'[g], target'[g]) /\ service'[g] = service[g]
    BY <1>1, <1>3, <1>4 DEF Started
  <2>2. CASE target'[g].outcome \in {"failed", target[g].outcome}
    BY <1>3, <1>4, <2>1, <2>2 DEF Tracked
  <2>3. CASE g = h /\ ~ failed
    <3>1. /\ t.status = "zero" /\ service[h].status = "done"
      BY <1>2, <2>3 DEF T!Succeeded
    <3>2. /\ service[h].good >= service[h].of /\ service[h].good \in Nat /\ service[h].of \in Nat
          /\ t.follows \in Nat /\ t.since \in Nat
      BY <1>3, <3>1, RestartStateIs DEF Ordered, RestartInv
    <3>3. t.skip = "no" => t.since <= t.follows /\ service[h].of >= t.follows
      BY <1>3, <3>1 DEF Tracked
    <3>4. t.skip = "no" => service[h].good >= t.since
      BY <3>2, <3>3
    <3> QED BY <1>3, <1>4, <2>1, <2>3, <3>1, <3>4 DEF Tracked
  <2> QED BY <1>4, <2>1, <2>2, <2>3
<1>7. exit' = "none" => \A g \in T!Work : target'[g].outcome # "failed"
  <2> SUFFICES ASSUME exit' = "none", NEW g \in T!Work PROVE target'[g].outcome # "failed"
    OBVIOUS
  <2>1. ~ failed /\ exit = "none" /\ g \in T!Host
    BY <1>2 DEF T!Settle, T!Work
  <2>2. target[g].outcome # "failed"
    BY <1>1, <2>1, AtWork
  <2> QED BY <1>4, <2>1, <2>2 DEF T!Stopped
<1>8. ASSUME NEW g \in T!Work, NEW k \in T!Group(g) \cap T!Work
      PROVE  /\ target'[g].outcome = "failed" => target'[k].outcome # "none"
             /\ T!Precedes(g, k) /\ target'[k].status # "none" => target'[g].outcome # "none"
  <2>1. g \in T!Host /\ k \in T!Host
    BY DEF T!Work
  <2>2. /\ target[g].outcome = "failed" => target[k].outcome # "none"
        /\ T!Precedes(g, k) /\ target[k].status # "none" => target[g].outcome # "none"
    BY <1>1, <2>1, AtWork
  <2>3. \A i \in T!Host : target[i].outcome # "none" => target'[i].outcome # "none"
    BY <1>4
  <2>4. ASSUME failed, g = h \/ g \in T!Stopped(h, failed) PROVE target'[k].outcome # "none"
    <3>1. g \in T!Group(h)
      BY <2>4 DEF T!Stopped, T!Group
    <3>2. k \in T!Group(h)
      BY <3>1, GroupIs
    <3>3. k = h \/ k \in T!Stopped(h, failed) \/ target[k].outcome # "none"
      BY <2>4, <3>2 DEF T!Stopped
    <3> QED BY <1>4, <2>1, <2>3, <2>4, <3>3
  <2>5. target'[g].outcome = "failed" =>
           target[g].outcome = "failed" \/ (failed /\ (g = h \/ g \in T!Stopped(h, failed)))
    BY <1>4, <2>1 DEF T!Stopped
  <2> QED BY <1>4, <2>1, <2>2, <2>3, <2>4, <2>5
<1> QED BY <1>1, <1>5, <1>6, <1>7, <1>8, WorkKeeps

(* A host's unit goes on by itself, and others start it. *)
LEMMA RestartHostKeeps ==
    ASSUME T!Settings, RestartInv, NEW h \in T!Host,
           T!Waits(h) \/ T!Dies(h) \/ T!ByHand(h) \/ \E s \in T!Ended : T!Ends(h, s)
    PROVE  RestartInv'
<1> DEFINE u == service[h]
<1>1. /\ u \in ServiceState /\ Ordered(u) /\ u.run \in Nat /\ u.of \in Nat /\ u.good \in Nat
      /\ u.run <= MaxRuns /\ MaxRuns \in Nat
  BY RestartStateIs DEF RestartInv, Hosts, T!Settings
<1>2. UNCHANGED <<at, target, exit>>
  BY DEF T!Waits, T!Dies, T!ByHand, T!Ends
<1>3. CASE T!Waits(h)
  <2> DEFINE v == [u EXCEPT !.of = u.run, !.status = "waiting"]
  <2>1. service' = [service EXCEPT ![h] = v]
    BY <1>3 DEF T!Waits
  <2>2. UnitMoves(u, v)
    <3> HIDE DEF u
    <3>1. v \in ServiceState
      BY <1>1 DEF ServiceState, T!Ended
    <3> QED BY <1>1, <3>1 DEF UnitMoves, ServiceState, Ordered
  <2> QED BY <1>2, <2>1, <2>2, UnitKeeps
<1>4. CASE T!Dies(h)
  <2> DEFINE v == [u EXCEPT !.going = FALSE, !.ours = FALSE]
  <2>1. service' = [service EXCEPT ![h] = v]
    BY <1>4 DEF T!Dies
  <2>2. UnitMoves(u, v)
    <3> HIDE DEF u
    <3>1. v \in ServiceState
      BY <1>1 DEF ServiceState, T!Ended
    <3> QED BY <1>1, <3>1 DEF UnitMoves, ServiceState, Ordered
  <2> QED BY <1>2, <2>1, <2>2, UnitKeeps
<1>5. CASE T!ByHand(h)
  <2> DEFINE v == [u EXCEPT !.run = u.run + 1, !.going = TRUE]
  <2>1. service' = [service EXCEPT ![h] = v] /\ ~ u.going /\ u.run < MaxRuns
    BY <1>5 DEF T!ByHand
  <2>2. u.run + 1 \in 0 .. MaxRuns
    BY <1>1, <2>1
  <2>3. UnitMoves(u, v)
    <3> HIDE DEF u
    <3>1. /\ v \in ServiceState /\ v.run = u.run + 1 /\ v.of = u.of /\ v.good = u.good
          /\ v.ours = u.ours /\ v.status = u.status
      BY <1>1, <2>2 DEF ServiceState
    <3> QED BY <1>1, <2>1, <3>1 DEF UnitMoves, Ordered
  <2> QED BY <1>2, <2>1, <2>3, UnitKeeps
<1>6. ASSUME NEW s \in T!Ended, T!Ends(h, s) PROVE RestartInv'
  <2> DEFINE v == [u EXCEPT !.going = FALSE, !.ours = FALSE, !.of = u.run, !.status = s,
                            !.good = IF s = "done" THEN u.run ELSE u.good]
  <2>1. service' = [service EXCEPT ![h] = v]
    BY <1>6 DEF T!Ends
  <2>2. UnitMoves(u, v)
    <3> HIDE DEF u
    <3>1. v \in ServiceState
      BY <1>1 DEF ServiceState, T!Ended
    <3> QED BY <1>1, <3>1 DEF UnitMoves, ServiceState, Ordered
  <2> QED BY <1>2, <2>1, <2>2, UnitKeeps
<1> QED BY <1>3, <1>4, <1>5, <1>6

(* Every step keeps the invariant. *)
LEMMA RestartInvNext ==
    ASSUME T!Settings, RestartInv, [T!Next]_T!vars
    PROVE  RestartInv'
<1>1. CASE UNCHANGED T!vars
  <2>1. service' = service /\ target' = target /\ at' = at /\ exit' = exit
    BY <1>1 DEF T!vars
  <2>2. RestartTyped' /\ Hosts'
    BY <2>1 DEF RestartInv, RestartTyped, Hosts
  <2>3. SamePlan
    BY <2>1 DEF SamePlan
  <2>5. RestartPhases'
    BY <2>1, <2>3, SameOrder DEF RestartInv, RestartPhases
  <2>6. Turns'
    <3>1. T!Work' = T!Work /\ \A h, k \in T!Work : T!Precedes(h, k)' <=> T!Precedes(h, k)
      BY <2>3, SameOrder DEF T!Work
    <3>2. Turns
      BY DEF RestartInv
    <3> QED BY <2>1, <3>1, <3>2 DEF Turns, T!Group
  <2>4. T!RestartsAreInTurn'
    BY <2>1 DEF RestartInv, T!Work, T!RestartsAreInTurn, T!OneStartedAtATime, T!FoundFirst,
           T!SuccessIsRestart
  <2> QED BY <2>2, <2>4, <2>5, <2>6 DEF RestartInv
<1>2. CASE T!Interrupt
  BY <1>2, OverKeeps DEF T!Interrupt
<1>3. CASE T!Planned \/ T!Ask \/ T!End
  BY <1>3, PlannedKeeps, AskKeeps, EndKeeps
<1>4. ASSUME NEW h \in T!Host, T!Plan(h) \/ T!Start(h) \/ T!Return(h) \/ T!Judge(h)
      PROVE  RestartInv'
  BY <1>4, PlanKeeps, StartKeeps, ReturnKeeps, JudgeKeeps
<1>5. ASSUME NEW h \in T!Host, T!Waits(h) \/ T!Dies(h) \/ T!ByHand(h) \/ \E s \in T!Ended : T!Ends(h, s)
      PROVE  RestartInv'
  BY <1>5, RestartHostKeeps
<1> QED BY <1>1, <1>2, <1>3, <1>4, <1>5 DEF T!Next

(* The invariant holds at first. *)
LEMMA RestartInvInit ==
    ASSUME T!Settings, T!Init
    PROVE  RestartInv
<1> DEFINE new == [run |-> 0, ours |-> FALSE, going |-> FALSE, of |-> 0, status |-> "none", good |-> 0]
<1>1. /\ new \in ServiceState /\ Ordered(new) /\ ~ new.ours
      /\ T!NoTarget \in TargetState /\ Tracked(new, T!NoTarget) /\ Untried(T!NoTarget)
  BY DEF ServiceState, Ordered, T!NoTarget, TargetState, Tracked, Untried, T!Settings
<1>2. /\ service = [h \in T!Host |-> new] /\ target = [h \in T!Host |-> T!NoTarget]
      /\ at = "read" /\ exit = "none"
  BY DEF T!Init
<1> HIDE DEF new
<1>3. RestartTyped /\ Hosts
  BY <1>1, <1>2 DEF RestartTyped, Hosts
<1>4. RestartPhases /\ Turns
  BY <1>1, <1>2 DEF RestartPhases, Turns
<1>5. T!RestartsAreInTurn
  BY <1>1, <1>2 DEF T!RestartsAreInTurn, T!OneStartedAtATime, T!FoundFirst, T!SuccessIsRestart, T!Settings
<1> QED BY <1>3, <1>4, <1>5 DEF RestartInv

(* So it always holds. *)
LEMMA RestartInvariance ==
    ASSUME T!Settings
    PROVE  T!Spec => []RestartInv
<1>1. T!Init => RestartInv
  BY RestartInvInit
<1>2. RestartInv /\ [T!Next]_T!vars => RestartInv'
  BY RestartInvNext
<1> QED BY <1>1, <1>2, PTL DEF T!Spec

-----------------------------------------------------------------------------
(* The theorems *)

(* Every part of the state has its type, for any hosts, disjoint serial       *)
(* groups and number of runs.                                                 *)
THEOREM RestartTypeCorrect ==
    ASSUME T!Settings
    PROVE  T!Spec => []T!TypeOK
<1>1. RestartInv => T!TypeOK
  <2> SUFFICES ASSUME RestartInv PROVE T!TypeOK
    OBVIOUS
  <2>1. \A h \in T!Host :
           /\ service[h] \in ServiceState /\ target[h] \in TargetState
           /\ service[h].run \in Nat /\ service[h].of \in Nat /\ service[h].good \in Nat
           /\ service[h].run <= MaxRuns /\ Ordered(service[h])
    BY RestartStateIs DEF RestartInv, Hosts
  <2> QED BY <2>1 DEF RestartInv, RestartTyped, T!TypeOK, ServiceState, TargetState, Ordered, T!Settings
<1> QED BY <1>1, RestartInvariance, PTL

(* In a serial group the command has one restart under way at a time, which   *)
(* it starts only after those that it found at work, even where it loses a    *)
(* connection or its limit passes while a unit goes on; and it exits with     *)
(* success only if each host it found in need has been restarted since, and   *)
(* well (restart, describeOutcome, restartGroup).                             *)
THEOREM RestartsGoInTurn ==
    ASSUME T!Settings
    PROVE  T!Spec => []T!RestartsAreInTurn
<1>1. RestartInv => T!RestartsAreInTurn
  BY DEF RestartInv
<1> QED BY <1>1, RestartInvariance, PTL
=============================================================================
