------------------------------ MODULE FleetReboot ------------------------------
(***************************************************************************)
(* `nixfleet reboot' (src/tools/nix-deploy/reboot.go): one run reads the   *)
(* fleet, decides what becomes of each selected host, marks the Kubernetes *)
(* nodes that wait for their turn, runs the constraint groups side by side *)
(* and the members of a group one at a time, and reboots this machine last *)
(* of all.  A run may be interrupted, or killed and started again.         *)
(*                                                                         *)
(* The gates of a node's own reboot are module NodeMaintenance's, the      *)
(* records of stopped runner units RunnerStops's: here a node is taken     *)
(* down behind one gate, that every other node is up, and a runner unit    *)
(* is stopped or started by a command that may fail.                       *)
(***************************************************************************)
EXTENDS Integers, FiniteSets

CONSTANTS Host,        \* the hosts of the inventory
          KNode,       \* kubernetesNodes of the inventory
          InCluster,   \* the hosts the cluster has a node for
          Self,        \* this machine
          Serial,      \* the serial groups, disjoint sets of hosts
          Gated,       \* those with a ready command
          Place,       \* the position of each host in the inventory
          Interactive, \* the hosts with an interactive guard
          Options,     \* command lines: [hosts, self, needed, check]
          Readings,    \* what one reading of the fleet may find
          MaxRuns      \* bound of the runs

\* What the inventory's checks leave: a host is in at most one serial group, and
\* each has a place of its own.  A reading's counts are numbers.
Inventory ==
    /\ IsFiniteSet(Host)
    /\ KNode \subseteq Host /\ InCluster \subseteq Host /\ Self \in Host
    /\ Serial \subseteq SUBSET Host
    /\ \A g, s \in Serial : g # s => g \cap s = {}
    /\ Gated \subseteq Serial
    /\ Place \in [Host -> Int]
    /\ \A h, k \in Host : h # k => Place[h] # Place[k]
    /\ Options # {}
    /\ Options \subseteq [hosts : SUBSET Host, self : BOOLEAN, needed : BOOLEAN, check : BOOLEAN]
    /\ \A reading \in Readings : reading.moves \in [Host -> Int]
    /\ MaxRuns \in Nat

VARIABLES
    run,       \* the command: where it is, its options, what is left to do
    target,    \* each host's rebootTarget and the step its reboot is in
    turn,      \* the node lock: the hosts that hold it
    marks,     \* the nodes that carry the reboot-pending taint
    marked,    \* fleetReboot.marked
    warned,    \* the nodes this run named in a warning about their mark
    host       \* each host: up, boot, a shutdown it accepted, runner units

vars == <<run, target, turn, marks, marked, warned, host>>

Up(h) == host[h].up

Group(h) == {h} \cup UNION {g \in Serial : h \in g}

NewTarget == [at |-> "wait", skip |-> FALSE, fail |-> FALSE, guard |-> "clear",
              confirmed |-> FALSE, rank |-> 0, runners |-> FALSE, stopped |-> FALSE,
              boot |-> 0, outcome |-> "none"]

Init ==
    /\ run = [at |-> "idle", opt |-> CHOOSE o \in Options : TRUE, last |-> {}, todo |-> {},
              interrupted |-> FALSE, marks |-> FALSE, count |-> 0]
    /\ target = [h \in Host |-> NewTarget]
    /\ turn = {} /\ marks = {} /\ marked = {} /\ warned = {}
    /\ host = [h \in Host |-> [up |-> TRUE, boot |-> 1, order |-> FALSE, runners |-> TRUE]]

At(step) == run.at = step
Selected == run.opt.hosts
Outcome(h) == target[h].outcome
Failed(h) == target[h].fail \/ Outcome(h) = "failed"

\* The members of h's group in this run; this machine has one of its own,
\* after the others.
Members(h) == IF h \in run.last THEN {h} ELSE (Group(h) \cap Selected) \ run.last
Others == Selected \ run.last

-----------------------------------------------------------------------------
(* The plan *)

\* Mutant: a host is taken for a node on the inventory's word alone.
DecideByInventory(h, reading, opt) ==
    LET s == reading.of[h] IN
    CASE ~ s.reach \/ ~ reading.cluster -> "fail"
      [] s.os # "nixos" \/ (opt.needed /\ s.needed = "no") -> "skip"
      [] OTHER -> "go"

\* What is decided for a host as it was read: "go", "skip" or "fail".
Decide(h, reading, opt) ==
    LET s == reading.of[h]
        listed == reading.cluster /\ h \in InCluster
    IN  CASE ~ s.reach \/ s.os = "unread" -> "fail"
          [] s.os # "nixos" -> "skip"
          [] h \notin KNode /\ listed -> "fail"
          [] opt.needed /\ s.needed = "no" /\ (h \in KNode => listed /\ ~ s.cordoned) -> "skip"
          [] ~ reading.cluster -> "fail"
          [] h \in KNode /\ ~ listed -> "fail"
          [] s.runners = "unread" -> "fail"
          [] OTHER -> "go"

IsGated(h) == \E g \in Gated : h \in g

\* The nodes that go fill the nodes' places in the group, those that move
\* fewer primaries and core singletons first; every other host keeps its own.
Ranks(group, going, moves) ==
    CHOOSE r \in [group -> {Place[h] : h \in group}] :
        /\ \A h \in group \ going : r[h] = Place[h]
        /\ \A h, k \in group : h # k => r[h] # r[k]
        /\ \A h, k \in going :
              (r[h] < r[k]) <=> \/ moves[h] < moves[k]
                                \/ moves[h] = moves[k] /\ Place[h] < Place[k]

\* A new run reads the fleet; a host that is down is not reachable, and one
\* that accepted a shutdown from an earlier run has gone down by then.  This
\* machine reboots only when asked to, and never as a node or behind a gate.
Plan ==
    /\ run.at \in {"idle", "ended", "killed"} /\ run.count < MaxRuns
    /\ Up(Self) /\ \A h \in Host : ~ host[h].order
    /\ \E opt \in Options, reading \in Readings :
        LET left(h) == h = Self /\ ~ opt.self
            verdict(h) == IF Up(h) THEN Decide(h, reading, opt) ELSE "fail"
            skips(h) == \/ left(h) \/ verdict(h) = "skip"
                        \/ verdict(h) = "go" /\ h = Self /\ (h \in KNode \/ IsGated(h))
            going == {h \in opt.hosts \cap KNode : verdict(h) = "go" /\ ~ skips(h)}
            last == {h \in opt.hosts \cap {Self} : ~ skips(h)}
            fails(h) == \/ verdict(h) = "fail" /\ ~ left(h)
                        \/ h \in going /\ ~ reading.placed
            group(h) == IF h \in last THEN last ELSE (Group(h) \cap opt.hosts) \ last
            guard(h) == IF h \in Interactive THEN reading.guard ELSE "clear"
        IN  /\ run' = [at |-> "ask", opt |-> opt, last |-> last, todo |-> {},
                       interrupted |-> FALSE, marks |-> FALSE, count |-> run.count + 1]
            /\ target' = [h \in Host |->
                 IF h \notin opt.hosts THEN NewTarget
                 ELSE [NewTarget EXCEPT
                        !.skip = skips(h) \/ (~ fails(h) /\ guard(h) = "block" /\ ~ opt.check),
                        !.fail = fails(h), !.guard = guard(h),
                        !.rank = Ranks(group(h), going \cap group(h), reading.moves)[h],
                        !.runners = reading.of[h].runners = "active"]]
    /\ marked' = {} /\ warned' = {} /\ turn' = {}
    /\ UNCHANGED <<marks, host>>

FailsBeforeStart == \E h \in Others : target[h].fail
Goes(h) == h \in Selected /\ ~ target[h].skip /\ \A k \in Members(h) : ~ target[k].fail
Pending == {h \in KNode : Goes(h)}

\* The questions, all before the start: every busy interactive host and this
\* machine.  A host declined is skipped; sudo may refuse this machine's.
Questioned == {h \in Selected : Goes(h) /\
                    \/ target[h].guard = "busy" /\ ~ (h = Self /\ FailsBeforeStart)
                    \/ h = Self /\ ~ FailsBeforeStart}

Ask ==
    /\ At("ask")
    /\ \/ run' = [run EXCEPT !.at = "ended"] /\ UNCHANGED target  \* not confirmed
       \/ /\ run' = [run EXCEPT !.at = IF run.opt.check THEN "groups" ELSE "mark"]
          /\ \E yes \in SUBSET Questioned :
                /\ run.opt.check => yes = Questioned
                /\ target' = [h \in Host |->
                     IF h \notin Questioned THEN target[h]
                     ELSE [target[h] EXCEPT !.skip = h \notin yes,
                                            !.confirmed = h \in yes /\ ~ run.opt.check]]
    /\ UNCHANGED <<turn, marks, marked, warned, host>>

-----------------------------------------------------------------------------
(* The marks of the nodes that wait for their turn *)

Wanted == IF Cardinality(Pending) >= 2 THEN Pending ELSE {}

\* What a kubectl taint command does: it takes effect, it fails, or it takes
\* effect and is reported as failed.
Reply == {"done", "failed", "lost"}
Effective == {"done", "lost"}

\* Mutant: the node is no longer tracked once its removal was tried.
UnmarkForgets(n) ==
    /\ marks' \in {marks, marks \ {n}}
    /\ marked' = marked \ {n}

\* unmark: the node stays tracked until that succeeds; a mark that is gone
\* already counts as removed.
Unmark(n) ==
    \E reply \in Reply :
        /\ marks' = IF reply \in Effective THEN marks \ {n} ELSE marks
        /\ marked' = IF reply = "done" THEN marked \ {n} ELSE marked

\* One of the tracked nodes after the other loses its mark, with a warning
\* when it does not; then the run goes on.
UnmarkAll(here, next, todo) ==
    /\ At(here)
    /\ \/ \E n \in run.todo :
            /\ Unmark(n)
            /\ warned' = warned \cup ({n} \cap marked')
            /\ run' = [run EXCEPT !.todo = @ \ {n}]
       \/ /\ run.todo = {} /\ run' = [run EXCEPT !.at = next, !.todo = todo]
          /\ UNCHANGED <<marks, marked, warned>>
    /\ UNCHANGED <<target, turn, host>>

\* A run that reboots no node changes no mark, and one that cannot read them
\* sets and removes none.
ReadMarks ==
    LET goOn(to, tracked, named) ==
            /\ run' = [run EXCEPT !.at = to, !.todo = tracked \ Wanted, !.marks = Pending # {}]
            /\ marked' = tracked /\ warned' = named
    IN  /\ At("mark")
        /\ \/ Pending = {} /\ goOn("groups", {}, {})
           \/ Pending # {} /\ goOn("groups", {}, Host)
           \/ Pending # {} /\ ~ run.interrupted /\ goOn("unmark", marks, {})
        /\ UNCHANGED <<target, turn, marks, host>>

UnmarkOther == UnmarkAll("unmark", "taint", Wanted)

TaintWanted ==
    /\ At("taint")
    /\ \/ \E n \in run.todo, reply \in Reply :
            /\ run.interrupted => reply # "done"
            /\ marks' = IF reply \in Effective THEN marks \cup {n} ELSE marks
            /\ marked' = IF reply = "done" THEN marked \cup {n} ELSE marked
            /\ warned' = IF reply = "done" THEN warned ELSE warned \cup {n}
            /\ run' = [run EXCEPT !.todo = @ \ {n}]
       \/ /\ run.todo = {} /\ run' = [run EXCEPT !.at = "groups"]
          /\ UNCHANGED <<marks, marked, warned>>
    /\ UNCHANGED <<target, turn, host>>

\* clearMarks, deferred: what is still tracked is tried once more.
ClearMarks == UnmarkAll("clear", "ended", {})

-----------------------------------------------------------------------------
(* One host's reboot *)

marking == <<marks, marked, warned>>

Step(h, from) == run.at \in {"groups", "self"} /\ target[h].at = from
Goto(h, to) == target' = [target EXCEPT ![h].at = to]

\* The end of hostReboot.run; a node's turn ends after it.
Finish(h, outcome) ==
    [target EXCEPT ![h].at = IF h \in turn THEN "endturn" ELSE "done", ![h].outcome = outcome]

\* The host is taken to stay up: startRunners starts the units this run
\* stopped again, or says that it could not.
StaysUp(h, outcome) ==
    /\ target' = Finish(h, outcome)
    /\ \E ok \in BOOLEAN : host' = [host EXCEPT ![h].runners = @ \/ (target[h].stopped /\ ok)]
    /\ UNCHANGED <<run, turn, marking>>

\* It fails as it is.
Fail(h) == target' = Finish(h, "failed") /\ UNCHANGED <<run, turn, host, marking>>

\* Mutant: a group goes on after a failure.
ReachGoesOn(h) ==
    /\ At("groups") /\ h \in Others /\ target[h].at = "wait"
    /\ \A k \in Members(h) : target[k].rank < target[h].rank => target[k].at = "done"
    /\ IF target[h].skip \/ target[h].fail \/ run.interrupted
       THEN target' = [target EXCEPT ![h].at = "done", ![h].outcome =
               IF target[h].skip THEN "skipped" ELSE IF target[h].fail THEN "failed" ELSE "notStarted"]
       ELSE Goto(h, IF h \in KNode THEN "lock" ELSE "guard")
    /\ UNCHANGED <<run, turn, host, marking>>

\* runGroup reaches a member once the one before it is done.
Reach(h) ==
    LET stopped == \E k \in Members(h) : Failed(k)
        goes == ~ target[h].skip /\ ~ target[h].fail /\ ~ stopped /\ ~ run.interrupted
        end(outcome) == target' = [target EXCEPT ![h].at = "done", ![h].outcome = outcome]
    IN  /\ At("groups") /\ h \in Others /\ target[h].at = "wait"
        /\ \A k \in Members(h) : target[k].rank < target[h].rank => target[k].at = "done"
        /\ \/ target[h].skip /\ end("skipped")
           \/ ~ target[h].skip /\ target[h].fail /\ end("failed")
           \/ ~ target[h].skip /\ ~ target[h].fail /\ ~ goes /\ end("notStarted")
           \/ goes /\ Goto(h, IF h \in KNode THEN "lock" ELSE "guard")
        /\ UNCHANGED <<run, turn, host, marking>>

\* Mutant: a node does not wait for the turn.
TakeTurnAtOnce(h) ==
    /\ Step(h, "lock")
    /\ turn' = turn \cup {h} /\ Goto(h, "guard")
    /\ UNCHANGED <<run, host, marking>>

\* Node reboots take turns across groups, until their turn has ended.
TakeTurn(h) ==
    /\ Step(h, "lock") /\ turn = {}
    /\ turn' = {h}
    /\ target' = IF run.interrupted
                 THEN [target EXCEPT ![h].at = "endturn", ![h].outcome = "failed"]
                 ELSE [target EXCEPT ![h].at = "guard"]
    /\ UNCHANGED <<run, host, marking>>

EndTurn(h) ==
    /\ Step(h, "endturn")
    /\ Goto(h, "done") /\ turn' = turn \ {h}
    /\ IF h \in marked THEN Unmark(h) ELSE UNCHANGED <<marks, marked>>
    /\ UNCHANGED <<run, warned, host>>

\* The guard is read again at the turn: a block, or a reason nobody
\* confirmed, skips the host.
Guard(h) ==
    /\ Step(h, "guard")
    /\ \E now \in IF h \in Interactive THEN {"clear", "busy", "block"} ELSE {"clear"} :
          IF \/ run.opt.check \/ now = "clear"
             \/ now = "busy" /\ target[h].confirmed
          THEN Goto(h, IF h = Self THEN "runners" ELSE "bootid")
          ELSE target' = Finish(h, "skipped")
    /\ UNCHANGED <<run, turn, host, marking>>

\* The boot ID, then the ready gate of the other members of the group.
ReadBootID(h) ==
    /\ Step(h, "bootid")
    /\ \/ /\ Up(h)
          /\ target' = [target EXCEPT ![h].at = "ready", ![h].boot = host[h].boot]
          /\ UNCHANGED <<run, turn, host, marking>>
       \/ Fail(h)

PassReadyGate(h) ==
    /\ Step(h, "ready")
    /\ \/ /\ (\E g \in Gated : h \in g) => \A k \in Group(h) \ {h} : Up(k)
          /\ Goto(h, IF run.opt.check THEN "check" ELSE "runners")
          /\ UNCHANGED <<run, turn, host, marking>>
       \/ Fail(h)

\* --check-only ends here; a node's checks may fail.
Check(h) ==
    /\ \/ Step(h, "check") /\ h # Self
       \/ Step(h, "runners") /\ h = Self /\ run.opt.check
    /\ \/ target' = Finish(h, "checked") /\ UNCHANGED <<run, turn, host, marking>>
       \/ h \in KNode /\ Fail(h)

StopRunners(h) ==
    /\ Step(h, "runners") /\ ~ run.opt.check
    /\ \/ /\ ~ run.interrupted
          /\ target' = [target EXCEPT ![h].stopped = @ \/ target[h].runners,
                                      ![h].at = IF h \in KNode THEN "gates" ELSE "order"]
          /\ host' = [host EXCEPT ![h].runners = @ /\ ~ target[h].runners]
          /\ UNCHANGED <<run, turn, marking>>
       \/ \* it fails, with some or all of the units stopped, and starts them again
          /\ target' = Finish(h, "failed")
          /\ \E on \in BOOLEAN :
               host' = [host EXCEPT ![h].runners = @ /\ (on \/ ~ target[h].runners)]
          /\ UNCHANGED <<run, turn, marking>>

\* rebootNode after a node reboot that failed: a host that answers on its
\* old boot has its units started again, unless the run was interrupted.
NodeFails(h) ==
    \/ ~ run.interrupted /\ Up(h) /\ host[h].boot = target[h].boot /\ StaysUp(h, "failed")
    \/ Fail(h)

\* The node reboot's gates, up to the command that takes the node down.  A
\* node whose own reboot has an unknown outcome is cordoned, its fence agent
\* stopped: the gates of another node refuse it.  With --needed it may be
\* that no reboot is needed.
NodeGates(h) ==
    /\ Step(h, "gates")
    /\ \/ /\ \A k \in InCluster \ {h} : Up(k) /\ ~ host[k].order
          /\ Goto(h, "order") /\ UNCHANGED <<run, turn, host, marking>>
       \/ NodeFails(h)
       \/ run.opt.needed /\ StaysUp(h, "skipped")

\* The reboot command: accepted, or lost on its way with ssh's own status;
\* not started or refused; or ended with its outcome unknown, in which case
\* a node that answers on its old boot has its units started all the same.
OrderReboot(h) ==
    LET send(arrives, after) ==
            /\ host' = [host EXCEPT ![h].order = arrives]
            /\ target' = after
            /\ UNCHANGED <<run, turn, marking>>
    IN  /\ Step(h, "order")
        /\ \/ /\ h # Self /\ ~ run.interrupted
              /\ \E arrives \in BOOLEAN : send(arrives, [target EXCEPT ![h].at = "down"])
           \/ h = Self /\ send(TRUE, Finish(h, "rebooted"))
           \/ IF h \in KNode THEN NodeFails(h) ELSE StaysUp(h, "failed")
           \/ \E restart \in BOOLEAN :
                /\ restart => h \in KNode /\ ~ run.interrupted
                /\ host' = [host EXCEPT ![h].order = TRUE,
                                        ![h].runners = @ \/ (target[h].stopped /\ restart)]
                /\ target' = Finish(h, "failed") /\ UNCHANGED <<run, turn, marking>>

\* The host goes down with its processes; this machine takes the run along.
GoesDown(h) ==
    /\ Up(h) /\ host[h].order
    /\ host' = [host EXCEPT ![h].up = FALSE, ![h].order = FALSE]
    /\ run' = IF h = Self THEN [run EXCEPT !.at = "killed"] ELSE run
    /\ UNCHANGED <<target, turn, marking>>

\* The host returns; runner units that were active may fail to be again.
ComesUp(h) ==
    /\ ~ Up(h)
    /\ \E running \in IF target[h].runners THEN BOOLEAN ELSE {TRUE} :
         host' = [host EXCEPT ![h].up = TRUE, ![h].boot = @ + 1, ![h].runners = running]
    /\ UNCHANGED <<run, target, turn, marking>>

\* The wait for the drop and the return, which a new boot ID ends.  A plain
\* host that answers on its old boot to the end has its units started again.
AwaitReturn(h) ==
    /\ Step(h, "down")
    /\ \/ /\ ~ run.interrupted /\ Up(h) /\ host[h].boot # target[h].boot
          /\ Goto(h, "verify") /\ UNCHANGED <<run, turn, host, marking>>
       \/ NodeFails(h)

\* It booted the intended system, its runner units are active, its boot
\* check and its ready gate pass.
Verify(h) ==
    /\ Step(h, "verify")
    /\ \/ /\ ~ run.interrupted /\ Up(h) /\ (target[h].runners => host[h].runners)
          /\ target' = Finish(h, "rebooted") /\ UNCHANGED <<run, turn, host, marking>>
       \/ Fail(h)

-----------------------------------------------------------------------------
(* The end of the run, and this machine last *)

\* Every other group is done.  This machine goes on only when none failed.
RunLast ==
    LET blocked == run.interrupted \/ \E h \in Others : Outcome(h) = "failed"
        verdict(h) == IF target[h].skip THEN "skipped"
                      ELSE IF target[h].fail THEN "failed"
                      ELSE IF blocked THEN "notStarted" ELSE "next"
        goes == \E h \in run.last : verdict(h) = "next"
    IN  /\ At("groups") /\ \A h \in Others : target[h].at = "done"
        /\ run' = [run EXCEPT !.at = IF goes THEN "self" ELSE "clear", !.todo = marked]
        /\ target' = [h \in Host |-> IF h \notin run.last THEN target[h]
                        ELSE [target[h] EXCEPT !.at = IF goes THEN "guard" ELSE "done",
                                               !.outcome = verdict(h)]]
        /\ UNCHANGED <<turn, host, marking>>

SelfDone ==
    /\ At("self") /\ target[Self].at = "done"
    /\ run' = [run EXCEPT !.at = "clear", !.todo = marked]
    /\ UNCHANGED <<target, turn, host, marking>>

Interrupt ==
    /\ run.at \in {"mark", "unmark", "taint", "groups", "self"} /\ ~ run.interrupted
    /\ run' = [run EXCEPT !.interrupted = TRUE]
    /\ UNCHANGED <<target, turn, host, marking>>

\* The process dies, and no deferred call runs; as another run may follow.
Kill ==
    /\ run.at \notin {"idle", "ended", "killed"} /\ run.count < MaxRuns
    /\ run' = [run EXCEPT !.at = "killed"] /\ turn' = {}
    /\ UNCHANGED <<target, host, marking>>

HostStep(h) ==
    \/ Reach(h) \/ TakeTurn(h) \/ EndTurn(h) \/ Guard(h) \/ ReadBootID(h)
    \/ PassReadyGate(h) \/ Check(h) \/ StopRunners(h) \/ NodeGates(h)
    \/ OrderReboot(h) \/ AwaitReturn(h) \/ Verify(h)

Next ==
    \/ Plan \/ Ask \/ ReadMarks \/ UnmarkOther \/ TaintWanted \/ ClearMarks
    \/ \E h \in Host : HostStep(h) \/ GoesDown(h) \/ ComesUp(h)
    \/ RunLast \/ SelfDone \/ Interrupt \/ Kill

Spec == Init /\ [][Next]_vars

-----------------------------------------------------------------------------
(* What a fleet reboot promises *)

\* Every part of the state has its type.
TypeOK ==
    /\ run.at \in {"idle", "ask", "mark", "unmark", "taint", "groups", "self", "clear",
                   "ended", "killed"}
    /\ run.opt \in Options /\ run.last \subseteq {Self} /\ run.todo \subseteq Host
    /\ run.interrupted \in BOOLEAN /\ run.marks \in BOOLEAN /\ run.count \in 0 .. MaxRuns
    /\ \A h \in Host :
          /\ target[h].at \in {"wait", "lock", "guard", "bootid", "ready", "check", "runners",
                              "gates", "order", "down", "verify", "endturn", "done"}
          /\ target[h].outcome \in {"none", "skipped", "failed", "notStarted", "checked",
                                   "next", "rebooted"}
          /\ target[h].outcome \notin {"none", "next"} => target[h].at \in {"endturn", "done"}
    /\ turn \subseteq KNode /\ Cardinality(turn) <= 1
    /\ marks \subseteq KNode /\ marked \subseteq KNode /\ warned \subseteq Host
    /\ host \in [Host -> [up : BOOLEAN, boot : Nat, order : BOOLEAN, runners : BOOLEAN]]

\* Two nodes of the cluster are never down at once, in whatever group they
\* are, whatever failed, was interrupted or killed before, and even where
\* the inventory does not know that a host is a node.
OneNodeDown == Cardinality({h \in InCluster : ~ Up(h)}) <= 1

\* A host goes down only in its turn: no other member of its group failed in
\* this run, the others are up when the group has a ready command, and this
\* machine only after every other host is done and none of them failed.
DownInTurn == \A h \in Host : Up(h) /\ ~ Up(h)' =>
    /\ \A k \in Members(h) \ {h} : ~ Failed(k)
    /\ IsGated(h) => \A k \in Group(h) \ {h} : Up(k)
    /\ h = Self => \A k \in Others : target[k].at = "done" /\ ~ Failed(k)
\* The action property that every step satisfies it.
RebootsInTurn == [][DownInTurn]_vars

\* A run that reboots nodes and ends, not killed, leaves no mark behind that
\* it did not name in a warning: neither its own nor one that an earlier run
\* left, whatever failed or was not started.
MarksAccountedFor == At("ended") /\ run.marks => marks \subseteq warned

=============================================================================
