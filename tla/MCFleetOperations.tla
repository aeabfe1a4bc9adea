--------------------------- MODULE MCFleetOperations ---------------------------
(***************************************************************************)
(* The instances of DeployRun, FleetReboot, RunnerRestart, RunRecord and   *)
(* Capacity that TLC checks in one run, each in behaviours of its own:     *)
(* which says whose.                                                       *)
(***************************************************************************)
EXTENDS Integers, FiniteSets, TLC

\* FleetReboot: two nodes, a plain host, a host of the cluster that the
\* inventory does not list as a node, and this machine.
CONSTANTS n1, n2, plain, unlisted, self,
          KNode, InCluster, Self, Serial, Gated, Interactive, MaxRuns
Host == {n1, n2, plain, unlisted, self}
Place == (n1 :> 1) @@ (n2 :> 2) @@ (plain :> 3) @@ (unlisted :> 4) @@ (self :> 5)

Sound == [reach |-> TRUE, os |-> "nixos", needed |-> "yes", cordoned |-> FALSE, runners |-> "none"]
Found == [cluster |-> TRUE, placed |-> TRUE, guard |-> "clear",
          moves |-> [h \in Host |-> IF h = n1 THEN 1 ELSE 0], of |-> [h \in Host |-> Sound]]
Readings == {Found,
             [Found EXCEPT !.of[n1].runners = "active", !.guard = "busy"],
             [Found EXCEPT !.guard = "block", !.of[n2].needed = "no"],
             [Found EXCEPT !.cluster = FALSE]}
Options == {[hosts |-> {n1, n2}, self |-> FALSE, needed |-> FALSE, check |-> FALSE],
            [hosts |-> {n2, plain, self}, self |-> TRUE, needed |-> TRUE, check |-> FALSE],
            [hosts |-> {n1, unlisted, self}, self |-> FALSE, needed |-> FALSE, check |-> FALSE],
            [hosts |-> Host, self |-> TRUE, needed |-> FALSE, check |-> TRUE]}

\* RunRecord.
CONSTANTS MaxRun, Keep, MaxLock, MaxFaults

\* Capacity: three Pods of these kinds, two nodes with the room of one of
\* Rooms beside the Pods of one of Residents.
CONSTANTS Budget
Amount(c, m) == [cpu |-> c, memory |-> m]
Container(n, c, m) == [name |-> n, requests |-> Amount(c, m)]
InitContainer(n, c, m, always) == [name |-> n, requests |-> Amount(c, m), sidecar |-> always]
Plain(c, m) == [containers |-> <<Container("main", c, m)>>, init |-> <<>>]
Kind(app, avoid, nodes, spec, template) ==
    [app |-> app, avoid |-> avoid, nodes |-> nodes, spec |-> spec, template |-> template]
\* A sidecar was injected into a Pod whose template gained an init container.
Injected == [containers |-> <<Container("main", 1, 1)>>, init |-> <<InitContainer("mesh", 1, 0, TRUE)>>]
Gained == [containers |-> <<Container("main", 1, 1)>>, init |-> <<InitContainer("setup", 2, 1, FALSE)>>]
Kinds == {Kind("web", {}, {1, 2}, Plain(2, 1), Plain(2, 1)),
          Kind("web", {}, {1, 2}, Plain(1, 1), Plain(1, 1)),
          Kind("web", {}, {1, 2}, Injected, Gained),
          Kind("db", {"db"}, {1, 2}, Plain(1, 1), Plain(1, 1)),
          Kind("db", {}, {1, 2}, Plain(1, 1), Plain(1, 1)),
          Kind("job", {"web"}, {2}, Plain(1, 2), Plain(1, 1)),
          Kind("job", {}, {1}, Plain(1, 1), Plain(1, 1))}
Room(alloc, free0) == [alloc |-> alloc, free |-> free0]
Rooms == {<<Room(Amount(4, 4), Amount(3, 4)), Room(Amount(4, 4), Amount(2, 2))>>,
          <<Room(Amount(4, 4), Amount(2, 3)), Room(Amount(4, 2), Amount(4, 2))>>,
          <<Room(Amount(3, 4), Amount(3, 3)), Room(Amount(4, 4), Amount(3, 3))>>,
          <<Room(Amount(4, 4), Amount(4, 4)), Room(Amount(4, 4), Amount(-1, 2))>>}
Residents == {<<{}, {}>>, <<{}, {[app |-> "job", avoid |-> {"db"}]}>>}
Inputs == {[room |-> room, residents |-> residents, pods |-> pods] :
              room \in Rooms, residents \in Residents, pods \in [1 .. 3 -> Kinds]}

\* DeployRun: a gated group of three, the first of which is this machine, and a
\* host that asks for a password.
Option(mode, h, only, strict, force) ==
    [mode |-> mode, host |-> h, only |-> only, strict |-> strict, force |-> force]
Deploys == << {Option("full", 0, "none", FALSE, FALSE)},
              {Option("full", 1, "none", FALSE, FALSE), Option("full", 1, "build", FALSE, TRUE),
               Option("nixos", 0, "none", TRUE, FALSE), Option("hm", 0, "dry", FALSE, FALSE)} >>

VARIABLES which,
          run, target, turn, marks, marked, warned, host,
          flake, proc, dir, held, triage, faults,
          in, size, at, queue, free, placed, chosen, left, steps, out

vars == <<which, run, target, turn, marks, marked, warned, host, flake, proc, dir, held, triage,
          faults, in, size, at, queue, free, placed, chosen, left, steps, out>>

F == INSTANCE FleetReboot
ASSUME InventoryAssumption == F!Inventory
R == INSTANCE RunRecord
ASSUME RecordSettings == R!Settings
C == INSTANCE Capacity
\* Two members of a serial group, the second this machine, in variables of the
\* other modules.
T == INSTANCE RunnerRestart WITH HostCount <- 2, Serial <- {{1, 2}}, Self <- 2, MaxRuns <- 2,
                                 unit <- host, exit <- out
ASSUME RestartSettings == T!Settings
D == INSTANCE DeployRun WITH HostCount <- 4, HomeHosts <- {1, 4}, SerialGroups <- << {1, 2, 3} >>, Gated <- {1},
                             Self <- 1, Prompts <- {4}, BootHosts <- {2}, Options <- Deploys, MaxTrouble <- 2,
                             opt <- run, st <- target, serial <- turn, blocked <- marks, failed <- marked,
                             exit <- out, runs <- host, trouble <- faults
ASSUME DeploySettings == D!Settings

NoReboot == run = 0 /\ target = 0 /\ turn = 0 /\ marks = 0 /\ marked = 0 /\ warned = 0 /\ host = 0
NoRecord == flake = 0 /\ proc = 0 /\ dir = 0 /\ held = 0 /\ triage = 0 /\ faults = 0
NoCapacity == in = 0 /\ size = 0 /\ at = 0 /\ queue = 0 /\ free = 0 /\ placed = 0 /\ chosen = 0
              /\ left = 0 /\ steps = 0 /\ out = 0

Init == \/ which = "reboot" /\ F!Init /\ NoRecord /\ NoCapacity
        \/ which = "record" /\ R!Init /\ NoReboot /\ NoCapacity
        \/ which = "capacity" /\ C!Init /\ NoReboot /\ NoRecord
        \/ /\ which = "restart" /\ T!Init /\ NoRecord
           /\ run = 0 /\ turn = 0 /\ marks = 0 /\ marked = 0 /\ warned = 0
           /\ in = 0 /\ size = 0 /\ queue = 0 /\ free = 0 /\ placed = 0 /\ chosen = 0 /\ left = 0 /\ steps = 0
        \/ /\ which = "deploy" /\ D!Init
           /\ flake = 0 /\ proc = 0 /\ dir = 0 /\ held = 0 /\ triage = 0
           /\ in = 0 /\ size = 0 /\ queue = 0 /\ free = 0 /\ placed = 0 /\ chosen = 0 /\ left = 0 /\ steps = 0

Next == \/ which = "reboot" /\ F!Next /\ UNCHANGED <<which, flake, proc, dir, held, triage, faults,
               in, size, at, queue, free, placed, chosen, left, steps, out>>
        \/ which = "record" /\ R!Next /\ UNCHANGED <<which, run, target, turn, marks, marked, warned,
               host, in, size, at, queue, free, placed, chosen, left, steps, out>>
        \/ which = "capacity" /\ C!Next /\ UNCHANGED <<which, run, target, turn, marks, marked, warned,
               host, flake, proc, dir, held, triage, faults>>
        \/ which = "restart" /\ T!Next /\ UNCHANGED <<which, run, turn, marks, marked, warned,
               flake, proc, dir, held, triage, faults, in, size, queue, free, placed, chosen, left, steps>>
        \/ which = "deploy" /\ D!Next /\ UNCHANGED <<which, flake, proc, dir, held, triage,
               in, size, queue, free, placed, chosen, left, steps>>

Spec == Init /\ [][Next]_vars

\* FleetReboot: a second run only where the first left a host marked, down, due to
\* reboot or without its runners, and not interrupted.
SecondRunResumes ==
    /\ run.count = 1 /\ run.at \in {"ended", "killed"} =>
         marks # {} \/ \E h \in Host : ~ host[h].up \/ host[h].order \/ ~ host[h].runners
    /\ run.count = 2 => ~ run.interrupted

\* RunRecord: two runs at once, of which the third is none unless the lock did
\* not change; one beside triage; and triage or one run after a fault.
FewAtOnce ==
    LET atWork == Cardinality({r \in 1 .. MaxRun : proc[r].at \notin {"none", "over", "unrecorded"}})
        most == IF triage.at = "idle" /\ (flake.lock = 1 \/ proc[3].at = "none") THEN 2 ELSE 1
    IN  atWork <= IF faults = 0 THEN most ELSE IF triage.at = "idle" THEN 1 ELSE 0

Bounded == (which = "reboot" => SecondRunResumes) /\ (which = "record" => FewAtOnce)

\* The type invariants of the modules.
TypeOK == /\ which = "reboot" => F!TypeOK
          /\ which = "record" => R!TypeOK
          /\ which = "capacity" => C!TypeOK
          /\ which = "restart" => T!TypeOK
          /\ which = "deploy" => D!TypeOK

\* FleetReboot: two nodes of the cluster are never down at once.  RunnerRestart:
\* the runners of a serial group are restarted in turn, and as the exit says.
\* DeployRun: its members are switched in turn, and only what was built.
TurnsAreKept == /\ which = "reboot" => F!OneNodeDown
                /\ which = "restart" => T!RestartsAreInTurn
                /\ which = "deploy" => D!SerialInTurn /\ D!UntouchedUnlessBuilt
\* FleetReboot: a run leaves no mark it did not name.  DeployRun: a run that
\* succeeds left nothing undone, and what a plan passes over needs nothing.
NothingUntold == /\ which = "reboot" => F!MarksAccountedFor
                 /\ which = "deploy" => D!SuccessIsComplete /\ D!UnchangedIsSound
\* FleetReboot: a host goes down only in its turn.
RebootsInTurn == [][which = "reboot" => F!DownInTurn]_vars
\* RunRecord: a prune keeps the newest directories, and of the runs in progress
\* all but those it saw without a run.lock.
PruneKeeps == [][which = "record" => R!PrunedIsOld]_vars
\* RunRecord: triage compares with a lock that was deployed.  DeployRun: it names
\* the step of a target that failed.
TriageIsRight == /\ which = "record" => R!BaselineIsDeployed
                 /\ which = "deploy" => D!TriageIsRight
\* Capacity: the verdict on a drain's Pods is right.
VerdictIsRight == which = "capacity" => C!VerdictIsRight
================================================================================
