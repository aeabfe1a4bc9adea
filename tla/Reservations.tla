---------------------------- MODULE Reservations ----------------------------
(***************************************************************************)
(* Serial activations of nixfleet (tools/nix-deploy) under the shared      *)
(* reservations kept on the operator host, the "authority".                *)
(*                                                                         *)
(* A run is one deployment invocation on some controller.  It reserves     *)
(* every member of its serial group, switches the changed members one at a *)
(* time behind readiness checks, and at its end releases the reservation   *)
(* or retains it.  An operator is one `nixfleet reservations release`.     *)
(*                                                                         *)
(* Every authority call is a script run under one kernel flock, so its     *)
(* effect is atomic; its acknowledgement may be lost, and a call the       *)
(* caller gave up on may still take effect later (`late`).                 *)
(***************************************************************************)
EXTENDS Integers, FiniteSets

CONSTANTS
    Host,        \* hosts of the inventory
    Run,         \* deployment invocations
    Operator,    \* operator release commands
    Group,       \* Group[i]: the members run i reserves
    Changed,     \* Changed[i]: the members run i switches
    Controller,  \* Controller[i]: the machine run i runs on
    Fleet,       \* the runs of a whole fleet; the others deploy one host
    Gated,       \* whether the groups have a readiness command
    Faults,      \* which of the faults below may happen
    Free,        \* a host without reservation directory
    Ownerless    \* a reservation directory without an owner file

AllFaults ==
    { "crash",              \* a controller process is killed
      "interrupt",          \* a controller gets a signal: runContext ends
      "lostCall",           \* an authority call's acknowledgement is lost
      "tornAcquire",        \* the acquiring shell dies half way
      "blindProbe",         \* an inspection is unavailable or inconclusive
      "orphan",             \* target work outlives the command behind it
      "dropMidInspection" } \* an orphan loses its link during an inspection

ASSUME ReservationsAssumption ==
    /\ Host # {}
    /\ Group \in [Run -> SUBSET Host]
    /\ \A i \in Run : Group[i] # {}
    /\ Changed \in [Run -> SUBSET Host]
    /\ \A i \in Run : Changed[i] # {} /\ Changed[i] \subseteq Group[i]
    /\ Controller \in [Run -> Host]
    /\ Fleet \subseteq Run
    /\ Gated \in BOOLEAN
    /\ Faults \subseteq AllFaults
    /\ Free \notin Run /\ Ownerless \notin Run /\ Free # Ownerless

VARIABLES
    ctl,      \* each run's control state
    front,    \* is a run's rebuild frontend alive on its controller?
    target,   \* is a run's activation work going on on its current host?
    held,     \* the owner in each reservation directory
    meta,     \* what each reservation's metadata says
    late,     \* authority calls given up on that may still execute
    ready,    \* does the member pass its group's readiness command?
    op        \* each operator command's state

work == <<front, target>>
store == <<held, meta, late>>
vars == <<ctl, front, target, held, meta, late, ready, op>>

-----------------------------------------------------------------------------
(* State *)

Holding == {"precheck", "begin", "start", "activate", "running", "result",
            "gate", "finish", "inspect"}
Live == Holding \cup {"idle", "releasing"}
Exits == {"done", "dead"}

\* A run: where it is in the rollout, the members still to switch, the one
\* being switched, and the reservation's attempted and ambiguous flags;
\* failed is the rollout's failure, seen what a sequence of checks covered.
RunState == [pc : Live \cup Exits, todo : SUBSET Host, cur : Host,
             attempted : BOOLEAN, ambiguous : BOOLEAN, failed : BOOLEAN,
             interrupted : BOOLEAN, seen : SUBSET Host]

\* An operator command: the reservation it was given, the owner it listed,
\* that owner's reservations still to remove, whether it has to rely on
\* --confirm-stopped, and the hosts inspected.
OperatorState == [pc : {"idle", "controller", "probe", "remove"},
                  key : Host, owner : Run \cup {Ownerless},
                  keys : SUBSET Host, confirmed : BOOLEAN, seen : SUBSET Host]

Call == [name : {"acquire", "update", "release"},
         run : Run \cup {Ownerless}, key : Host]

TypeOK ==
    /\ ctl \in [Run -> RunState]
    /\ front \in [Run -> BOOLEAN]
    /\ target \in [Run -> BOOLEAN]
    /\ held \in [Host -> Run \cup {Free, Ownerless}]
    /\ meta \in [Host -> {"none", "reserved", "started"}]
    /\ late \subseteq Call
    /\ ready \in [Host -> BOOLEAN]
    /\ op \in [Operator -> OperatorState]

NewRun(i) ==
    [pc |-> "idle", todo |-> Changed[i], cur |-> CHOOSE h \in Changed[i] : TRUE,
     attempted |-> FALSE, ambiguous |-> FALSE, failed |-> FALSE,
     interrupted |-> FALSE, seen |-> {}]

NewOperator ==
    [pc |-> "idle", key |-> CHOOSE h \in Host : TRUE, owner |-> Ownerless,
     keys |-> {}, confirmed |-> FALSE, seen |-> {}]

Init ==
    /\ ctl = [i \in Run |-> NewRun(i)]
    /\ front = [i \in Run |-> FALSE]
    /\ target = [i \in Run |-> FALSE]
    /\ held = [h \in Host |-> Free]
    /\ meta = [h \in Host |-> "none"]
    /\ late = {}
    /\ ready = [h \in Host |-> TRUE]
    /\ op = [o \in Operator |-> NewOperator]

Exited(i) == ctl[i].pc \in Exits
Working(i) == front[i] \/ target[i]

Move(i, pc) == ctl' = [ctl EXCEPT ![i].pc = pc]

\* The process is gone and its memory with it; cur is still the host that any
\* work it left behind is on.
Exit(i, pc) == ctl' = [ctl EXCEPT ![i] = [NewRun(i) EXCEPT !.pc = pc, !.cur = ctl[i].cur,
                                                        !.todo = {}]]

\* A failure stops the rollout: the members left are skipped.
Stop(i) == ctl' = [ctl EXCEPT ![i].pc = "finish", ![i].failed = TRUE]

-----------------------------------------------------------------------------
(* The authority's scripts, each under its flock *)

\* Mutant: mkdir -p, which does not mind that a directory exists.
AcquireAnyway(i) ==
    /\ \E h \in Group[i] : held[h] = Free
    /\ held' = [h \in Host |-> IF h \in Group[i] THEN i ELSE held[h]]
    /\ meta' = [h \in Host |-> IF h \in Group[i] THEN "reserved" ELSE meta[h]]

\* The acquire script: all the group's directories, or none.  The caller goes
\* on with the first of its changed members.
Acquire(i) ==
    /\ \A h \in Group[i] : held[h] = Free
    /\ held' = [h \in Host |-> IF h \in Group[i] THEN i ELSE held[h]]
    /\ meta' = [h \in Host |-> IF h \in Group[i] THEN "reserved" ELSE meta[h]]

\* The shell dies half way: some directories stay, the one being made (x) at
\* any stage of mkdir, owner, metadata.
TornAcquire(i) ==
    \E S \in SUBSET Group[i] : \E x \in S, stage \in {"mkdir", "owner", "metadata"} :
        /\ \A h \in S : held[h] = Free
        /\ held' = [h \in Host |->
                      IF h = x /\ stage = "mkdir" THEN Ownerless
                      ELSE IF h \in S THEN i ELSE held[h]]
        /\ meta' = [h \in Host |->
                      IF h = x /\ stage # "metadata" THEN "none"
                      ELSE IF h \in S THEN "reserved" ELSE meta[h]]

\* Mutant: only the first directory is rewritten.
UpdateFirst(i) ==
    /\ \A h \in Group[i] : held[h] = i
    /\ meta' = [meta EXCEPT ![CHOOSE h \in Group[i] : TRUE] = "started"]

\* The update script checks the owner of each directory it rewrites.
Update(i) ==
    /\ \A h \in Group[i] : held[h] = i
    /\ meta' = [h \in Host |-> IF h \in Group[i] THEN "started" ELSE meta[h]]

\* Mutant: the owner is not rechecked under the lock.
RemoveAny(owner, h) ==
    /\ held[h] # Free
    /\ held' = [held EXCEPT ![h] = Free]
    /\ meta' = [meta EXCEPT ![h] = "none"]

\* Mutant: the directory is marked released before it is renamed.
RemoveMarked(owner, h) ==
    /\ held[h] = owner
    /\ held' = [held EXCEPT ![h] = Free]
    /\ meta' = [meta EXCEPT ![h] = "released"]

\* The release script rechecks the owner its caller listed, then removes.
Remove(owner, h) ==
    /\ held[h] = owner
    /\ held' = [held EXCEPT ![h] = Free]
    /\ meta' = [meta EXCEPT ![h] = "none"]

NoKey == CHOOSE h \in Host : TRUE   \* for the calls on a whole group

GivenUp(name, owner, h) ==
    /\ "lostCall" \in Faults
    /\ late' = late \cup {[name |-> name, run |-> owner, key |-> h]}

LateAcquire(c) ==
    /\ c.name = "acquire"
    /\ Acquire(c.run)

\* An update that meets another owner half way has rewritten some of its own.
LateUpdate(c) ==
    /\ c.name = "update"
    /\ \E S \in SUBSET {h \in Group[c.run] : held[h] = c.run} :
         meta' = [h \in Host |-> IF h \in S THEN "started" ELSE meta[h]]
    /\ UNCHANGED held

LateRelease(c) ==
    /\ c.name = "release"
    /\ Remove(c.run, c.key)

\* A call its caller gave up on takes effect after all.
LateCall ==
    \E c \in late :
        /\ LateAcquire(c) \/ LateUpdate(c) \/ LateRelease(c)
        /\ late' = late \ {c}
        /\ UNCHANGED <<ctl, work, ready, op>>

-----------------------------------------------------------------------------
(* Inspecting hosts *)

\* What the activation probe finds on a host: its own activation work, and the
\* frontends that run there.
Visible(h) ==
    \E i \in Run : (target[i] /\ ctl[i].cur = h) \/ (front[i] /\ Controller[i] = h)

\* inspectWork goes through the members first, then the controllers.
NextProbe(members, controllers, seen) ==
    IF members \subseteq seen THEN controllers \ seen ELSE members \ seen

\* The run leaves its reservation to an operator; its last note may be lost.
Retain(i) ==
    /\ Exit(i, "done")
    /\ \/ Update(i) /\ UNCHANGED late
       \/ \E h \in Group[i] : held[h] # i /\ UNCHANGED <<meta, late>>
       \/ GivenUp("update", i, NoKey) /\ UNCHANGED meta

-----------------------------------------------------------------------------
(* A run *)

\* reserveGroup.  A run that cannot reserve its group activates nothing.
Reserve(i) ==
    /\ ctl[i].pc = "idle"
    /\ UNCHANGED <<work, ready, op>>
    /\ \/ /\ ~ctl[i].interrupted
          /\ Acquire(i)
          /\ \E h \in Changed[i] :
               ctl' = [ctl EXCEPT ![i].pc = "precheck", ![i].cur = h,
                                  ![i].todo = Changed[i] \ {h}]
          /\ UNCHANGED late
       \/ /\ \E h \in Group[i] : held[h] # Free
          /\ Exit(i, "done")
          /\ UNCHANGED store
       \/ /\ Exit(i, "done")
          /\ \/ GivenUp("acquire", i, NoKey) /\ UNCHANGED <<held, meta>>
             \/ "tornAcquire" \in Faults /\ TornAcquire(i) /\ UNCHANGED late

\* Mutant: the member just switched is the only one checked.
CheckSwitched(i) == {h \in Group[i] : Gated /\ h = ctl[i].cur}

\* The members checked before the switch of cur: before its first switch a
\* fleet checks them all, otherwise only the others are.
CheckSet(i) ==
    IF ~Gated THEN {}
    ELSE IF i \in Fleet /\ ~ctl[i].attempted THEN Group[i]
    ELSE Group[i] \ {ctl[i].cur}

\* precheck: one attempt of the ready command per member.
Precheck(i) ==
    /\ ctl[i].pc = "precheck"
    /\ UNCHANGED <<work, store, ready, op>>
    /\ \/ \E h \in CheckSet(i) \ ctl[i].seen :
            /\ ready[h] /\ ~ctl[i].interrupted
            /\ ctl' = [ctl EXCEPT ![i].seen = @ \cup {h}]
       \/ CheckSet(i) \subseteq ctl[i].seen /\ Move(i, "begin")
       \/ CheckSet(i) # {} /\ Stop(i)

\* failed.begin: the activation is recorded locally, or the rollout stops.
Begin(i) ==
    /\ ctl[i].pc = "begin"
    /\ Move(i, "start") \/ Stop(i)
    /\ UNCHANGED <<work, store, ready, op>>

\* reservation.start: the authority must acknowledge that work is starting.
StartActivation(i) ==
    /\ ctl[i].pc = "start"
    /\ UNCHANGED <<work, held, ready, op>>
    /\ \/ /\ ~ctl[i].interrupted
          /\ Update(i)
          /\ ctl' = [ctl EXCEPT ![i].pc = "activate", ![i].attempted = TRUE,
                                ![i].ambiguous = TRUE]
          /\ UNCHANGED late
       \/ /\ Stop(i)
          /\ UNCHANGED meta
          /\ \/ ctl[i].interrupted /\ UNCHANGED late
             \/ \E h \in Group[i] : held[h] # i /\ UNCHANGED late
             \/ GivenUp("update", i, NoKey)

\* command.run: nothing starts once the run's context has ended.
Launch(i) ==
    /\ ctl[i].pc = "activate"
    /\ UNCHANGED <<target, store, ready, op>>
    /\ IF ctl[i].interrupted
       THEN Stop(i) /\ UNCHANGED front
       ELSE Move(i, "running") /\ front' = [front EXCEPT ![i] = TRUE]

\* The rebuild command returns and ended() judges its status: success and an
\* ordinary failure are definite, a signal, a timeout or an interrupt is not.
\* The command's process group is gone; its remote work may not be.
CommandReturns(i) ==
    /\ ctl[i].pc = "running"
    /\ front' = [front EXCEPT ![i] = FALSE]
    /\ UNCHANGED <<store, ready, op>>
    /\ \/ /\ ~ctl[i].interrupted /\ ~target[i]
          /\ ctl' = [ctl EXCEPT ![i].pc = "result", ![i].ambiguous = FALSE]
          /\ UNCHANGED target
       \/ \E definite \in {d \in BOOLEAN : d => ~ctl[i].interrupted} :
            /\ definite \/ ctl[i].interrupted \/ "orphan" \in Faults
            /\ ctl' = [ctl EXCEPT ![i].pc = "finish", ![i].failed = TRUE,
                                  ![i].ambiguous = ~definite]
            /\ \E left \in {l \in BOOLEAN : l => target[i] /\ "orphan" \in Faults} :
                 target' = [target EXCEPT ![i] = left]

\* A successful result has to reach the authority too.
Result(i) ==
    /\ ctl[i].pc = "result"
    /\ UNCHANGED <<work, held, ready, op>>
    /\ \/ Update(i) /\ Move(i, "gate") /\ UNCHANGED late
       \/ /\ Stop(i)
          /\ UNCHANGED meta
          /\ \/ \E h \in Group[i] : held[h] # i /\ UNCHANGED late
             \/ GivenUp("update", i, NoKey)

\* waitReady, then the next changed member or the end of the rollout.
Gate(i) ==
    /\ ctl[i].pc = "gate"
    /\ UNCHANGED <<work, store, ready, op>>
    /\ \/ /\ Gated => ready[ctl[i].cur] /\ ~ctl[i].interrupted
          /\ \/ \E h \in ctl[i].todo :
                  ctl' = [ctl EXCEPT ![i].pc = "precheck", ![i].cur = h,
                                     ![i].todo = @ \ {h}, ![i].seen = {}]
             \/ ctl[i].todo = {} /\ Move(i, "finish")
       \/ Gated /\ Stop(i)

\* Is work begun by the run possibly still going on, however it ended?
Uncertain(i) == ctl[i].ambiguous \/ ctl[i].interrupted

\* Mutant: a failed rollout always retains its reservation.
FinishRetains(i) ==
    /\ ctl[i].pc = "finish"
    /\ UNCHANGED <<work, held, ready, op>>
    /\ IF ~ctl[i].failed /\ ~ctl[i].interrupted
       THEN /\ ctl' = [ctl EXCEPT ![i].pc = "releasing", ![i].seen = {}]
            /\ UNCHANGED <<meta, late>>
       ELSE Retain(i)

\* reservation.finish: release, inspect first, or retain.
Finish(i) ==
    /\ ctl[i].pc = "finish"
    /\ UNCHANGED <<work, held, ready, op>>
    /\ IF ~ctl[i].attempted \/ (~ctl[i].failed /\ ~ctl[i].interrupted)
       THEN /\ ctl' = [ctl EXCEPT ![i].pc = "releasing", ![i].seen = {}]
            /\ UNCHANGED <<meta, late>>
       ELSE IF ~Uncertain(i)
       THEN /\ ctl' = [ctl EXCEPT ![i].pc = "inspect", ![i].seen = {}]
            /\ UNCHANGED <<meta, late>>
       ELSE Retain(i)

\* inspectWork from the run itself: every member and its own controller.
Inspect(i) ==
    /\ ctl[i].pc = "inspect"
    /\ UNCHANGED <<work, held, ready, op>>
    /\ \/ \E h \in NextProbe(Group[i], {Controller[i]}, ctl[i].seen) :
            /\ ~Visible(h) /\ ~ctl[i].interrupted
            /\ ctl' = [ctl EXCEPT ![i].seen = @ \cup {h}]
            /\ UNCHANGED <<meta, late>>
       \/ /\ Group[i] \cup {Controller[i]} \subseteq ctl[i].seen
          /\ ctl' = [ctl EXCEPT ![i].pc = "releasing", ![i].seen = {}]
          /\ UNCHANGED <<meta, late>>
       \/ /\ \E h \in NextProbe(Group[i], {Controller[i]}, ctl[i].seen) :
               Visible(h) \/ ctl[i].interrupted \/ "blindProbe" \in Faults
          /\ Retain(i)

\* reservation.release: one directory after the other; the first failure ends it.
Releasing(i) ==
    /\ ctl[i].pc = "releasing"
    /\ UNCHANGED <<work, ready, op>>
    /\ \/ /\ \E h \in Group[i] \ ctl[i].seen :
               /\ Remove(i, h)
               /\ ctl' = [ctl EXCEPT ![i].seen = @ \cup {h}]
          /\ UNCHANGED late
       \/ /\ \E h \in Group[i] \ ctl[i].seen :
               \/ held[h] # i /\ UNCHANGED late
               \/ GivenUp("release", i, h)
          /\ Exit(i, "done")
          /\ UNCHANGED <<held, meta>>
       \/ /\ Group[i] \subseteq ctl[i].seen
          /\ Exit(i, "done")
          /\ UNCHANGED store

RunStep(i) ==
    \/ Reserve(i) \/ Precheck(i) \/ Begin(i) \/ StartActivation(i) \/ Launch(i)
    \/ CommandReturns(i) \/ Result(i) \/ Gate(i) \/ Finish(i) \/ Inspect(i)
    \/ Releasing(i)

\* The controller's signal handler ends runContext.
Interrupt(i) ==
    /\ "interrupt" \in Faults
    /\ ctl[i].pc \in Live /\ ~ctl[i].interrupted
    /\ IF ctl[i].pc = "idle" THEN Exit(i, "done")
       ELSE ctl' = [ctl EXCEPT ![i].interrupted = TRUE]
    /\ UNCHANGED <<work, store, ready, op>>

\* SIGKILL or a power loss of the controller process: its commands run in
\* process groups of their own and go on.
Crash(i) ==
    /\ "crash" \in Faults
    /\ ctl[i].pc \in Live
    /\ Exit(i, "dead")
    /\ UNCHANGED <<work, store, ready, op>>

-----------------------------------------------------------------------------
(* The activation work itself, and the members' readiness *)

\* A frontend starts its activation on the current host.
FrontStarts(i) ==
    /\ front[i] /\ ~target[i]
    /\ target' = [target EXCEPT ![i] = TRUE]
    /\ UNCHANGED <<ctl, front, store, ready, op>>

TargetEnds(i) ==
    /\ target[i]
    /\ target' = [target EXCEPT ![i] = FALSE]
    /\ UNCHANGED <<ctl, front, store, ready, op>>

\* An orphaned frontend exits.  Its remote work may outlive it, but unless the
\* fault says so not while an operator is inspecting that work.
FrontExits(i) ==
    /\ front[i] /\ Exited(i)
    /\ front' = [front EXCEPT ![i] = FALSE]
    /\ \/ target' = [target EXCEPT ![i] = FALSE]
       \/ /\ "orphan" \in Faults
          /\ \/ "dropMidInspection" \in Faults
             \/ \A o \in Operator : ~(op[o].pc = "probe" /\ op[o].owner = i)
          /\ UNCHANGED target
    /\ UNCHANGED <<ctl, store, ready, op>>

\* Activation work takes its host out of the group's quorum; the host rejoins
\* in its own time.
Disrupt(i) ==
    /\ Gated
    /\ target[i] /\ ready[ctl[i].cur]
    /\ ready' = [ready EXCEPT ![ctl[i].cur] = FALSE]
    /\ UNCHANGED <<ctl, work, store, op>>

Rejoin(h) ==
    /\ ~ready[h]
    /\ ready' = [ready EXCEPT ![h] = TRUE]
    /\ UNCHANGED <<ctl, work, store, op>>

-----------------------------------------------------------------------------
(* nixfleet reservations release *)

\* What an operator who passes --confirm-stopped has made sure of.
Stopped(owner) == owner \in Run => Exited(owner) /\ ~Working(owner)

OwnedBy(owner, h) ==
    IF owner = Ownerless THEN {h} ELSE {k \in Host : held[k] = owner}

\* listReservations, and the records of the invocation that owns the selected
\* one.  With an unreadable record nothing can be established without
\* --confirm-stopped.
OpList(o) ==
    /\ op[o].pc = "idle"
    /\ \E h \in Host, confirmed \in BOOLEAN :
         /\ held[h] # Free
         /\ confirmed => Stopped(held[h])
         /\ op' = [op EXCEPT ![o] =
                     [pc |-> "controller", key |-> h, owner |-> held[h],
                      keys |-> OwnedBy(held[h], h), confirmed |-> confirmed,
                      seen |-> {}]]
    /\ UNCHANGED <<ctl, work, store, ready>>

Readable(o) == op[o].owner \in Run /\ \A k \in op[o].keys : meta[k] # "none"

OpMove(o, pc) == op' = [op EXCEPT ![o].pc = pc, ![o].seen = {}]
Refused(o) == op' = [op EXCEPT ![o] = NewOperator]

\* controllerState of the recorded process: busy refuses, anything but gone
\* leaves it to the operator's confirmation.
OpController(o) ==
    /\ op[o].pc = "controller"
    /\ \/ op[o].owner \in Run /\ Exited(op[o].owner) /\ Readable(o) /\ OpMove(o, "probe")
       \/ op[o].owner \in Run /\ ~Exited(op[o].owner) /\ Refused(o)
       \/ /\ "blindProbe" \in Faults \/ ~Readable(o)
          /\ IF op[o].confirmed THEN OpMove(o, "probe") ELSE Refused(o)
    /\ UNCHANGED <<ctl, work, store, ready>>

\* The members and the controllers releaseHeld collects from the records.
OpMembers(o) ==
    IF op[o].owner \in Run THEN Group[op[o].owner] ELSE op[o].keys

\* Mutant: a dead controller is not inspected for its frontend.
TargetsOnly(o) == {}

OpControllers(o) ==
    IF op[o].owner \in Run THEN {Controller[op[o].owner]} ELSE {}

\* inspectWork: positive work refuses; an unavailable inspection is the
\* operator's to answer for.
OpProbe(o) ==
    /\ op[o].pc = "probe"
    /\ \/ \E h \in NextProbe(OpMembers(o), OpControllers(o), op[o].seen) :
            \/ Visible(h) /\ Refused(o)
            \/ /\ ~Visible(h)
               /\ op' = [op EXCEPT ![o].seen = @ \cup {h}]
            \/ /\ "blindProbe" \in Faults
               /\ IF op[o].confirmed
                  THEN op' = [op EXCEPT ![o].seen = @ \cup {h}]
                  ELSE Refused(o)
       \/ /\ OpMembers(o) \cup OpControllers(o) \subseteq op[o].seen
          /\ OpMove(o, "remove")
    /\ UNCHANGED <<ctl, work, store, ready>>

\* removeReservation of each record listed, until one fails.
OpRemove(o) ==
    /\ op[o].pc = "remove"
    /\ \/ \E h \in op[o].keys :
            /\ Remove(op[o].owner, h)
            /\ op' = [op EXCEPT ![o].keys = @ \ {h}]
            /\ UNCHANGED late
       \/ /\ \E h \in op[o].keys :
               \/ held[h] # op[o].owner /\ UNCHANGED late
               \/ GivenUp("release", op[o].owner, h)
          /\ Refused(o)
          /\ UNCHANGED <<held, meta>>
       \/ /\ op[o].keys = {}
          /\ Refused(o)
          /\ UNCHANGED store
    /\ UNCHANGED <<ctl, work, ready>>

-----------------------------------------------------------------------------
(* Specification *)

Environment ==
    \/ \E i \in Run : FrontStarts(i) \/ TargetEnds(i) \/ FrontExits(i) \/ Disrupt(i)
    \/ \E h \in Host : Rejoin(h)
    \/ LateCall

OperatorStep(o) == OpList(o) \/ OpController(o) \/ OpProbe(o) \/ OpRemove(o)

Next ==
    \/ \E i \in Run : RunStep(i) \/ Interrupt(i) \/ Crash(i)
    \/ \E o \in Operator : OperatorStep(o)
    \/ Environment

Spec == Init /\ [][Next]_vars

\* A live controller keeps running, its commands return (each is bounded by the
\* ssh and flock timeouts) and activation work comes to an end.
Fairness ==
    \A i \in Run : WF_vars(RunStep(i)) /\ WF_vars(TargetEnds(i))

FairSpec == Spec /\ Fairness

-----------------------------------------------------------------------------
(* Properties *)

(* Activation work, orphaned work included, goes on only while its run's      *)
(* token is in every reservation directory of its group: no release, operator *)
(* release, late or lost authority call ever uncovers it (ADR-0019,           *)
(* reservation.finish, releaseHeld).                                          *)
Protected ==
    \A i \in Run : Working(i) => \A h \in Group[i] : held[h] = i

(* Runs that share a serial member never have activation work at the same     *)
(* time, even when one of them has lost its controller.                       *)
NoOverlap ==
    \A i, j \in Run :
        i # j /\ Working(i) /\ Working(j) => Group[i] \cap Group[j] = {}

(* A serial rollout never takes a second member of a group out of its quorum: *)
(* the prechecks and gates of switchGroup and switchHost see to it, whoever   *)
(* deployed last and however it ended.                                        *)
QuorumKept ==
    Gated => \A i \in Run : Cardinality({h \in Group[i] : ~ready[h]}) <= 1

(* Work that goes on can always be recovered with the supported command: its  *)
(* directories are complete and their metadata says an activation started, so *)
(* releaseHeld finds the controller and every member to inspect.              *)
StartedIsRecorded ==
    \A i \in Run : Working(i) => \A h \in Group[i] : meta[h] = "started"

(* Without faults nothing is left for an operator: every run ends, and ends   *)
(* with its reservations released, whether its rollout failed or not.         *)
Released ==
    \A i \in Run : <>[](Exited(i) /\ \A h \in Host : held[h] # i)

\* The parts of the inductive invariant behind Protected.

\* A run's switches are under way only while it owns its whole group.
Owns ==
    \A i \in Run : ctl[i].pc \in Holding => \A h \in Group[i] : held[h] = i

\* Where in a run's life its work can be going on: a frontend only behind the
\* running command or a dead controller, and orphaned target work never behind
\* a run that is about to release, or has seen the host it is on idle.
WorkPhases ==
    \A i \in Run :
        /\ ctl[i].cur \in Group[i] /\ ctl[i].todo \subseteq Group[i]
        /\ front[i] => ctl[i].pc \in {"running", "dead"}
        /\ target[i] => ctl[i].pc \in {"running", "finish", "inspect", "done", "dead"}
        /\ target[i] /\ ctl[i].pc = "finish" => ctl[i].attempted /\ ctl[i].failed
        /\ target[i] /\ ctl[i].pc = "inspect" => ctl[i].cur \notin ctl[i].seen
        /\ ctl[i].pc \in {"activate", "running", "result", "gate"} => ctl[i].attempted

\* A release given up on can only meet an owner that has stopped for good.
LateStopped ==
    \A k \in late : IF k.name = "release" THEN Stopped(k.run) ELSE k.run \in Run

\* What an operator command has established about the owner it is releasing.
OperatorKnows ==
    \A o \in Operator : LET own == op[o].owner IN
        /\ op[o].pc # "idle" /\ op[o].confirmed => Stopped(own)
        /\ op[o].pc = "remove" => Stopped(own)
        /\ op[o].pc = "probe" /\ own \in Run =>
             /\ Exited(own)
             /\ ctl[own].cur \in op[o].seen => ~target[own] \/ front[own]
             /\ Controller[own] \in op[o].seen => ~front[own]

(* Protected together with what makes it inductive: who owns what in each     *)
(* phase of a run, where its work may be going on, and what stands behind     *)
(* every release that is being carried out or was given up on.                *)
IInv == TypeOK /\ Owns /\ Protected /\ WorkPhases /\ LateStopped /\ OperatorKnows

\* What the reservations promise, abstractly.
Lock == INSTANCE ActivationLock WITH
            owner <- held, working <- {i \in Run : Working(i)}

(* Reservation directories change hands the way ActivationLock lets them: only *)
(* free hosts are taken, only idle owners lose a host, and a run's work begins *)
(* only under its complete reservation.                                        *)
LockSpec == Lock!Spec
=============================================================================
