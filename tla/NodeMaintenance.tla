---------------------------- MODULE NodeMaintenance ----------------------------
(***************************************************************************)
(* Reboot, power off and power on of a Kubernetes node behind its gates:   *)
(* one `Operation' of src/tools/nix-deploy/k8snode for each element of Op, *)
(* over a cluster in which hosts go down and come up, agents publish       *)
(* heartbeats, Pods are scheduled, volumes are rebuilt and databases fail  *)
(* over.                                                                   *)
(*                                                                         *)
(* A gate of the code is a wait with a deadline around a condition on the  *)
(* cluster: here it passes only if the condition holds, and may give up at *)
(* any time, which stands for its deadline, for a read that failed and for *)
(* the conditions that are not modelled.  A command that changes something *)
(* may take effect and still be reported as failed.                        *)
(***************************************************************************)
EXTENDS Integers, FiniteSets

CONSTANTS Node,         \* the nodes of the cluster
          Op,           \* the maintenance commands
          Target,       \* the node of each command
          Options,      \* the options each command may be given
          Silent,       \* whether a stop may be interrupted, or a host's drop
                        \* misread, so that nobody hears of a stopped agent
          MaxTime,      \* bound of the API server's clock
          Frail,        \* the nodes that may have an unplanned outage
          MaxOutages    \* bound of the unplanned outages

ASSUME NodeMaintenanceAssumption ==
    /\ IsFiniteSet(Node)
    /\ Target \in [Op -> Node]
    /\ Options \in [Op -> SUBSET [act : {"reboot", "off", "on"},
                                  resume : BOOLEAN, drain : BOOLEAN, leave : BOOLEAN]]
    /\ Silent \in BOOLEAN /\ Frail \subseteq Node
    /\ MaxTime \in Nat /\ MaxOutages \in Nat

VARIABLES
    op,        \* each command: where it is, and what it remembers
    host,      \* each host: up, its boot, its agent, a shutdown it accepted
    cordon,    \* the nodes that are unschedulable
    load,      \* the nodes with Pods that hold volumes
    mode,      \* the agent's mode annotation on each Node object
    beat,      \* the last write of the agent's field manager: API time, boot
    stale,     \* the nodes whose Longhorn replicas are not in sync
    primary,   \* the node of the CloudNativePG primary
    limit,     \* Longhorn's concurrent-replica-rebuild-per-node-limit
    clock,     \* the API server's clock, in whole seconds
    outages    \* the unplanned outages so far

api     == <<cordon, load, mode, beat, primary>>
storage == <<stale, limit>>
world   == <<clock, outages>>
vars    == <<op, host, cordon, load, mode, beat, stale, primary, limit, clock, outages>>

-----------------------------------------------------------------------------
\* The steps of prepareNodeForDisruption; a failure in them releases the cordon.
Preparing == {"access", "health", "primary", "cordon", "drain", "resumed", "detach", "survive"}

\* From the recheck of the peers to the host's drop.
Leaving == {"recheck", "stop", "await", "power", "down"}

Where == Preparing \cup Leaving \cup
    {"idle", "release", "survivors", "up", "newboot", "baseline", "ready", "back",
     "uncordon", "settle", "cleanup", "ended"}

\* What a command remembers, and a host.
OpState == [at : Where, act : {"reboot", "off", "on"},
            resume : BOOLEAN, drain : BOOLEAN, leave : BOOLEAN, interrupted : BOOLEAN,
            releasable : BOOLEAN, raised : BOOLEAN, stopped : BOOLEAN, told : BOOLEAN,
            baseline : -1 .. MaxTime, boot : Nat, seen : Nat]

HostState == [up : BOOLEAN, boot : Nat, agent : BOOLEAN, order : {"none", "reboot", "off"}]

NewOp == [at |-> "idle", act |-> "reboot", resume |-> FALSE, drain |-> FALSE, leave |-> FALSE,
          interrupted |-> FALSE, releasable |-> FALSE, raised |-> FALSE, stopped |-> FALSE,
          told |-> FALSE, baseline |-> -1, boot |-> 0, seen |-> 0]

Init ==
    /\ op = [o \in Op |-> NewOp]
    /\ host = [n \in Node |-> [up |-> TRUE, boot |-> 1, agent |-> TRUE, order |-> "none"]]
    /\ cordon = {} /\ load \in SUBSET Node /\ stale = {}
    /\ mode = [n \in Node |-> "running"]
    /\ beat = [n \in Node |-> [at |-> 0, boot |-> 1]]
    /\ primary \in Node
    /\ limit = 0 /\ clock = 0 /\ outages = 0

Active(o) == op[o].at \notin {"idle", "ended"}
Goto(o, where) == op' = [op EXCEPT ![o].at = where]

\* Run's exit path: a failure in the preparation goes through releaseCordon.
AfterFailure(o) == IF op[o].at \in Preparing THEN "release" ELSE "cleanup"
Fails(o) == Goto(o, AfterFailure(o))

\* A gate: reads only.
Gate(o, here, condition, next) ==
    /\ op[o].at = here
    /\ \/ condition /\ Goto(o, next)
       \/ Fails(o)
    /\ UNCHANGED <<host, api, storage, world>>

\* Every one of the nodes is Ready and its network path is sound.
AllReady(nodes) == \A n \in nodes : host[n].up

\* Every attached volume keeps replicas in sync on the other nodes.
OthersInSync(n) == stale \subseteq {n}

\* The database keeps its primary, Ready and answering, with the node down.
PrimaryElsewhere(n) == primary # n /\ host[primary].up

\* Every instance of the database is Ready and streams.
DatabasesHealthy == AllReady(Node)

-----------------------------------------------------------------------------
(* Preparation *)

\* Commands that take a node down have it for themselves: those of one fleet
\* reboot take the node lock in turn.  A power-on may run beside one, on
\* another node.
Alone(o, act) == \A p \in Op \ {o} :
    Active(p) => /\ Target[p] # Target[o]
                 /\ act = "on" \/ op[p].act = "on"

Start(o) ==
    /\ op[o].at = "idle"
    /\ \E opt \in Options[o] :
          /\ Alone(o, opt.act)
          /\ op' = [op EXCEPT ![o] =
                      [NewOp EXCEPT !.at = IF opt.act = "on" THEN "up" ELSE "access",
                                    !.act = opt.act, !.resume = opt.resume,
                                    !.drain = opt.drain, !.leave = opt.leave]]
    /\ UNCHANGED <<host, api, storage, world>>

\* verifyFencePreflight: every agent answers healthy, in its mode.
FencePreflight == \A n \in Node : host[n].up /\ host[n].agent

CheckAccess(o) ==
    Gate(o, "access",
         /\ AllReady(Node) /\ FencePreflight
         /\ op[o].resume \/ Target[o] \notin cordon,
         IF op[o].resume THEN "resumed" ELSE "health")

VerifyResumed(o) ==
    Gate(o, "resumed", Target[o] \in cordon \ load, "detach")

\* Mutant: the original is recorded only once the patch succeeded.
RaiseLimitLate(o) ==
    /\ op[o].at \in {"health", "settle"} /\ ~op[o].raised
    /\ stale # {} /\ limit = 0
    /\ limit' \in {0, 2}
    /\ \/ limit' = 2 /\ op' = [op EXCEPT ![o].raised = TRUE]
       \/ Fails(o)
    /\ UNCHANGED <<host, api, stale, world>>

\* waitForLonghornHealth records the closed admission, then opens it.
RaiseLimit(o) ==
    /\ op[o].at \in {"health", "settle"} /\ ~op[o].raised
    /\ stale # {} /\ limit = 0
    /\ \/ limit' = 2 /\ op' = [op EXCEPT ![o].raised = TRUE]
       \/ /\ limit' \in {0, 2}
          /\ op' = [op EXCEPT ![o].raised = TRUE, ![o].at = AfterFailure(o)]
    /\ UNCHANGED <<host, api, stale, world>>

\* ... and closes it again once every attached volume is healthy.
HealthPasses(o, next) ==
    /\ stale = {}
    /\ \/ /\ limit' = IF op[o].raised THEN 0 ELSE limit
          /\ op' = [op EXCEPT ![o].at = next, ![o].raised = FALSE]
       \/ /\ op[o].raised /\ limit' \in {0, limit}
          /\ Fails(o)

CheckHealth(o) ==
    /\ op[o].at = "health"
    /\ \/ DatabasesHealthy /\ HealthPasses(o, "primary")
       \/ Fails(o) /\ UNCHANGED limit
    /\ UNCHANGED <<host, api, stale, world>>

\* switchCNPGPrimariesOffNode: a standby on another Ready, schedulable node.
SwitchPrimary(o) ==
    /\ op[o].at = "primary"
    /\ \/ /\ \/ primary # Target[o] /\ UNCHANGED primary
             \/ /\ primary = Target[o]
                /\ primary' \in {n \in Node \ (cordon \cup {primary}) : host[n].up}
          /\ Goto(o, "cordon")
       \/ Fails(o) /\ UNCHANGED primary
    /\ UNCHANGED <<host, cordon, load, mode, beat, storage, world>>

Cordon(o) ==
    /\ op[o].at = "cordon"
    /\ \/ /\ cordon' = cordon \cup {Target[o]}
          /\ op' = [op EXCEPT ![o].at = IF op[o].drain THEN "drain" ELSE "detach",
                              ![o].releasable = op[o].drain]
       \/ cordon' \in {cordon, cordon \cup {Target[o]}} /\ Fails(o)
    /\ UNCHANGED <<host, load, mode, beat, primary, storage, world>>

\* The drain, and the workload gates after it.
Drain(o) ==
    /\ op[o].at = "drain"
    /\ \/ /\ load' = load \ {Target[o]}
          /\ op' = [op EXCEPT ![o].at = "detach", ![o].releasable = FALSE]
       \/ load' \in {load, load \ {Target[o]}} /\ Fails(o)
    /\ UNCHANGED <<host, cordon, mode, beat, primary, storage, world>>

Detach(o) == Gate(o, "detach", Target[o] \notin load, "survive")

\* Mutant: the attached volumes' other replicas are not looked at.
SurvivesOneReplica(o) == PrimaryElsewhere(Target[o])

\* Longhorn and CloudNativePG can lose the node.
Survives(o) == OthersInSync(Target[o]) /\ PrimaryElsewhere(Target[o])

CheckSurvival(o) == Gate(o, "survive", Survives(o), "recheck")

\* releaseCordon: only before the storage detach, and not after an interrupt.
Release(o) ==
    /\ op[o].at = "release"
    /\ IF op[o].releasable /\ ~op[o].leave /\ ~op[o].interrupted
         THEN cordon' \in {cordon, cordon \ {Target[o]}}
         ELSE UNCHANGED cordon
    /\ Goto(o, "cleanup")
    /\ UNCHANGED <<host, load, mode, beat, primary, storage, world>>

-----------------------------------------------------------------------------
(* The agent's stop and the power action *)

Recheck(o) == Gate(o, "recheck", FencePreflight, "stop")

\* A stop that is reported as failed names the agent in its error.
StopAgent(o) ==
    LET stopped == [host EXCEPT ![Target[o]].agent = FALSE]
        written == /\ mode' = [mode EXCEPT ![Target[o]] = "stopped"]
                   /\ beat' = [beat EXCEPT ![Target[o]] = [at |-> clock, boot |-> host[Target[o]].boot]]
    IN  /\ op[o].at = "stop"
        /\ \/ /\ host[Target[o]].up
              /\ host' = stopped
              /\ written \/ UNCHANGED <<mode, beat>>
              /\ \/ Goto(o, "await")
                 \/ op' = [op EXCEPT ![o].at = "cleanup", ![o].told = TRUE]
           \/ /\ op' = [op EXCEPT ![o].at = "cleanup", ![o].told = TRUE]
              /\ UNCHANGED <<host, mode, beat>>
        /\ UNCHANGED <<cordon, load, primary, storage, world>>

\* The stop's API time is the baseline, or a write of this run's own.
AwaitStopped(o) ==
    /\ op[o].at = "await"
    /\ \/ /\ mode[Target[o]] = "stopped"
          /\ \E time \in {beat[Target[o]].at, clock} :
                op' = [op EXCEPT ![o].at = "power", ![o].stopped = TRUE, ![o].baseline = time,
                                 ![o].seen = host[Target[o]].boot]
       \/ op' = [op EXCEPT ![o].at = "cleanup", ![o].told = TRUE]
    /\ UNCHANGED <<host, api, storage, world>>

\* Mutant: the agent counts as started again once the command was issued.
PowerClears(o) ==
    LET n == Target[o] IN
    /\ op[o].at = "power"
    /\ host' \in {host, [host EXCEPT ![n].order = op[o].act]}
    /\ \/ op' = [op EXCEPT ![o].at = "down", ![o].boot = host[n].boot, ![o].stopped = FALSE]
       \/ op' = [op EXCEPT ![o].at = "cleanup", ![o].stopped = FALSE]
    /\ UNCHANGED <<api, storage, world>>

\* rebootHost and powerOffHost.  A lost connection counts as sent.
Power(o) ==
    LET n == Target[o]
        sent == host' = [host EXCEPT ![n].order = op[o].act]
    IN  /\ op[o].at = "power"
        /\ \/ /\ host[n].up
              /\ sent \/ (Silent /\ UNCHANGED host)
              /\ op' = [op EXCEPT ![o].at = "down", ![o].boot = host[n].boot]
           \/ /\ Fails(o)
              /\ UNCHANGED host \/ (host[n].up /\ sent)
        /\ UNCHANGED <<api, storage, world>>

\* The host's agent starts again with it, so it is no longer left stopped.
AwaitDown(o) ==
    /\ op[o].at = "down"
    /\ \/ /\ ~host[Target[o]].up \/ Silent
          /\ op' = [op EXCEPT ![o].at = "survivors", ![o].stopped = FALSE]
       \/ Fails(o)
    /\ UNCHANGED <<host, api, storage, world>>

-----------------------------------------------------------------------------
(* The return *)

SurvivorsNetwork(o) ==
    Gate(o, "survivors", AllReady(Node \ {Target[o]}),
         IF op[o].act = "off" THEN "cleanup" ELSE "up")

AwaitUp(o) ==
    Gate(o, "up", host[Target[o]].up,
         IF op[o].act = "on" THEN "ready" ELSE "newboot")

VerifyNewBoot(o) ==
    Gate(o, "newboot", host[Target[o]].up /\ host[Target[o]].boot # op[o].boot, "ready")

\* Mutant: a power-on skips the fence gate.
CheckReturnedUnfenced(o) ==
    Gate(o, "ready",
         /\ AllReady(Node) /\ Survives(o)
         /\ op[o].act = "on" => Target[o] \in cordon,
         IF op[o].leave /\ op[o].act = "reboot" THEN "cleanup" ELSE "uncordon")

\* Ready, the network of every node, and the one-node-down gates once more;
\* a power-on wants the maintenance's cordon first.
CheckReturned(o) ==
    Gate(o, "ready",
         /\ AllReady(Node) /\ Survives(o)
         /\ op[o].act = "on" => Target[o] \in cordon,
         CASE op[o].act = "on" -> "baseline"
           [] op[o].leave      -> "cleanup"
           [] OTHER            -> "back")

\* establishBaseline: a power-on did not see the agent's stop.
EstablishBaseline(o) ==
    /\ op[o].at = "baseline"
    /\ \/ /\ op' = [op EXCEPT ![o].at = "back", ![o].baseline = clock,
                              ![o].seen = host[Target[o]].boot]
       \/ Fails(o)
    /\ UNCHANGED <<host, api, storage, world>>

\* Mutant: a heartbeat of the baseline's own second counts.
AgentReturnedSameSecond(o) ==
    Gate(o, "back",
         LET n == Target[o] IN
         /\ host[n].up /\ host[n].agent
         /\ mode[n] = "running" /\ beat[n].at >= op[o].baseline,
         "uncordon")

\* The target's own agent is back with a heartbeat after the baseline.
AgentReturned(o) ==
    Gate(o, "back",
         LET n == Target[o] IN
         /\ host[n].up /\ host[n].agent
         /\ mode[n] = "running" /\ beat[n].at > op[o].baseline,
         "uncordon")

Uncordon(o) ==
    /\ op[o].at = "uncordon"
    /\ \/ cordon' = cordon \ {Target[o]} /\ Goto(o, "settle")
       \/ cordon' \in {cordon, cordon \ {Target[o]}} /\ Fails(o)
    /\ UNCHANGED <<host, load, mode, beat, primary, storage, world>>

Settle(o) ==
    /\ op[o].at = "settle"
    /\ \/ DatabasesHealthy /\ HealthPasses(o, "cleanup")
       \/ Fails(o) /\ UNCHANGED limit
    /\ UNCHANGED <<host, api, stale, world>>

\* Mutant: the limit is lowered by one instead of put back.
CleanupLowers(o) ==
    /\ op[o].at = "cleanup"
    /\ limit' = IF op[o].raised THEN limit - 1 ELSE limit
    /\ op' = [op EXCEPT ![o] = [NewOp EXCEPT !.at = "ended"]]
    /\ UNCHANGED <<host, api, stale, world>>

\* Run's deferred cleanup: it restores the limit even after an interrupt.
Cleanup(o) ==
    /\ op[o].at = "cleanup"
    /\ \E kept \in BOOLEAN :
          /\ kept => op[o].raised
          /\ IF op[o].raised /\ ~kept THEN limit' = 0 ELSE UNCHANGED limit
          /\ op' = [op EXCEPT ![o] = [NewOp EXCEPT !.at = "ended", !.raised = kept,
                                               !.told = op[o].told \/ op[o].stopped]]
    /\ UNCHANGED <<host, api, stale, world>>

\* A signal: no command starts from now on, so the step in progress fails.  The
\* wait for the agent's stop then ends with an error that does not name it.
Interrupt(o) ==
    /\ Active(o) /\ ~op[o].interrupted /\ op[o].at # "cleanup"
    /\ \E named \in IF op[o].at = "await" /\ Silent THEN BOOLEAN ELSE {TRUE} :
          op' = [op EXCEPT ![o].interrupted = TRUE,
                           ![o].at = IF @ = "release" THEN @ ELSE AfterFailure(o),
                           ![o].told = @ \/ (op[o].at \in {"stop", "await"} /\ named)]
    /\ UNCHANGED <<host, api, storage, world>>

-----------------------------------------------------------------------------
(* The cluster *)

GoesDown(n) ==
    /\ host[n].up /\ host[n].order # "none"
    /\ host' = [host EXCEPT ![n].up = FALSE, ![n].agent = FALSE]
    /\ stale' = stale \cup {n}
    /\ UNCHANGED <<op, api, limit, world>>

\* No gate can see an outage between the last look at the peers and the drop.
Outage(n) ==
    /\ n \in Frail /\ outages < MaxOutages
    /\ \A o \in Op : op[o].at \notin Leaving
    /\ \A m \in Node : host[m].up => host[m].order = "none"
    /\ host[n].up
    /\ host' = [host EXCEPT ![n].up = FALSE, ![n].agent = FALSE, ![n].order = "reboot"]
    /\ stale' = stale \cup {n}
    /\ outages' = outages + 1
    /\ UNCHANGED <<op, api, limit, clock>>

\* A host that was powered off comes up when a person turns it on.
ComesUp(n) ==
    /\ ~host[n].up
    /\ host' = [host EXCEPT ![n] = [up |-> TRUE, boot |-> @.boot + 1, agent |-> TRUE, order |-> "none"]]
    /\ UNCHANGED <<op, api, storage, world>>

\* A person follows a command's message, on a host that is not going down.
StartAgentByHand(n) ==
    /\ host[n].up /\ ~host[n].agent /\ host[n].order = "none"
    /\ \A o \in Op : Target[o] = n => ~Active(o)
    /\ \E o \in Op : Target[o] = n /\ op[o].told
    /\ host' = [host EXCEPT ![n].agent = TRUE]
    /\ UNCHANGED <<op, api, storage, world>>

\* The heartbeats of a node that no command targets are never read.
AgentBeats(n) ==
    /\ \E o \in Op : Target[o] = n
    /\ host[n].up /\ host[n].agent
    /\ mode' = [mode EXCEPT ![n] = "running"]
    /\ beat' = [beat EXCEPT ![n] = [at |-> clock, boot |-> host[n].boot]]
    /\ UNCHANGED <<op, host, cordon, load, primary, storage, world>>

Schedule(n) ==
    /\ host[n].up /\ n \notin cordon \cup load
    /\ load' = load \cup {n}
    /\ UNCHANGED <<op, host, cordon, mode, beat, primary, storage, world>>

Rebuild(n) ==
    /\ n \in stale /\ host[n].up /\ limit # 0
    /\ stale' = stale \ {n}
    /\ UNCHANGED <<op, host, api, limit, world>>

FailOver(n) ==
    /\ ~host[primary].up /\ host[n].up
    /\ primary' = n
    /\ UNCHANGED <<op, host, cordon, load, mode, beat, storage, world>>

\* Time is only compared with a baseline: it passes where one is this second's.
Tick ==
    /\ clock < MaxTime
    /\ \E o \in Op : op[o].baseline = clock
    /\ clock' = clock + 1
    /\ UNCHANGED <<op, host, api, storage, outages>>

-----------------------------------------------------------------------------
Command(o) ==
    \/ Start(o) \/ CheckAccess(o) \/ VerifyResumed(o) \/ RaiseLimit(o) \/ CheckHealth(o)
    \/ SwitchPrimary(o) \/ Cordon(o) \/ Drain(o) \/ Detach(o) \/ CheckSurvival(o) \/ Release(o)
    \/ Recheck(o) \/ StopAgent(o) \/ AwaitStopped(o) \/ Power(o) \/ AwaitDown(o)
    \/ SurvivorsNetwork(o) \/ AwaitUp(o) \/ VerifyNewBoot(o) \/ CheckReturned(o)
    \/ EstablishBaseline(o) \/ AgentReturned(o) \/ Uncordon(o) \/ Settle(o) \/ Cleanup(o)

Cluster(n) ==
    \/ GoesDown(n) \/ Outage(n) \/ ComesUp(n) \/ StartAgentByHand(n)
    \/ AgentBeats(n) \/ Schedule(n) \/ Rebuild(n) \/ FailOver(n)

Next ==
    \/ \E o \in Op : Command(o) \/ Interrupt(o)
    \/ \E n \in Node : Cluster(n)
    \/ Tick

Spec == Init /\ [][Next]_vars

-----------------------------------------------------------------------------
(* What a maintenance promises *)

\* Every part of the state has its type, a rebuild limit is closed or opened
\* by these commands only, and no command runs ahead of its start.
TypeOK ==
    /\ op \in [Op -> OpState] /\ host \in [Node -> HostState]
    /\ cordon \subseteq Node /\ load \subseteq Node /\ stale \subseteq Node
    /\ mode \in [Node -> {"running", "stopped"}]
    /\ beat \in [Node -> [at : 0 .. MaxTime, boot : Nat]]
    /\ primary \in Node /\ limit \in {0, 2}
    /\ clock \in 0 .. MaxTime /\ outages \in 0 .. MaxOutages

\* Whenever a host goes down by a command, its node is cordoned, holds no
\* attached volume and no database primary, and every other node is up with
\* its replicas in sync: the gates passed minutes earlier still hold when the
\* power action takes effect.
TakenDownSafely ==
    [][\A n \in Node :
          (host[n].up /\ ~host'[n].up /\ outages' = outages) =>
             /\ n \in cordon \ load /\ n # primary
             /\ OthersInSync(n) /\ AllReady(Node \ {n})]_vars

\* A node goes back to service only on a heartbeat its agent wrote after the
\* stop: in a later boot for a reboot, not before this boot for a power-on.
ReturnedAgentIsFresh ==
    [][\A o \in Op :
          (op[o].at = "back" /\ op'[o].at = "uncordon") =>
             LET believed == beat[Target[o]].boot IN
             IF op[o].act = "on" THEN believed >= op[o].seen ELSE believed > op[o].seen]_vars

\* A host that is up without its agent is out of service: whatever failed, an
\* agent that a maintenance stopped and did not bring back leaves the cordon.
StoppedStaysCordoned == \A n \in Node : host[n].up /\ ~host[n].agent => n \in cordon

\* The raised rebuild limit is some running command's to restore, unless a
\* command that ended reported that it could not.
LimitIsOwed ==
    limit # 0 => \E o \in Op : \/ Active(o) /\ op[o].raised
                               \/ op[o].at = "ended" /\ op[o].raised

\* "On every exit path ... it ... reports a self-fence agent it left stopped":
\* once every command for a node has ended, somebody was told.
StoppedAgentReported ==
    \A n \in Node :
       (host[n].up /\ ~host[n].agent /\ \A o \in Op : Target[o] = n => ~Active(o)) =>
          \/ host[n].order # "none"
          \/ \E o \in Op : Target[o] = n /\ op[o].told
================================================================================
