----------------------------- MODULE RunnerRestart -----------------------------
(***************************************************************************)
(* `nixfleet runners restart' (src/tools/nix-deploy/runners.go): a command *)
(* reads the hosts, plans, and runs each host's restart unit through       *)
(* `systemctl start', the members of a serial group one at a time.  The    *)
(* unit is the host's own: it waits for the runners' jobs and goes on when *)
(* a command is interrupted or loses its connection.  Its runs are         *)
(* numbered, which stands for the times of its records; it keeps the       *)
(* former run's record until it writes one of its own.  Another command    *)
(* shows here only in the units that it starts, as a start by hand does.   *)
(***************************************************************************)
EXTENDS Integers

CONSTANTS HostCount, Serial, Self,
          MaxRuns \* bound

VARIABLES
    unit, \* the hosts' restart units: run is the latest, ours if the command started
          \* it, of and status its record, good the latest run that succeeded
    at, target, exit \* the command, and its plan by host

vars == <<unit, at, target, exit>>

Host == 1 .. HostCount \* in the inventory's order

\* What the inventory makes sure of: a host belongs to at most one serial group.
Settings == /\ HostCount \in Nat /\ MaxRuns \in Nat
            /\ \A g, k \in Serial : g \subseteq Host /\ (g # k => g \cap k = {})

Ended == {"done", "failed"} \* done or nothing; busy or failed
NoTarget == [skip |-> "unread", joins |-> FALSE, before |-> 0, since |-> 0, follows |-> 0,
             status |-> "none", outcome |-> "none"]

Init ==
    /\ unit = [h \in Host |-> [run |-> 0, ours |-> FALSE, going |-> FALSE, of |-> 0, status |-> "none", good |-> 0]]
    /\ target = [h \in Host |-> NoTarget] /\ at = "read" /\ exit = "none"

TypeOK ==
    /\ at \in {"read", "ask", "work", "over"} /\ exit \in {"none", "ok", "failed"}
    /\ \A h \in Host :
         /\ unit[h].run \in 0 .. MaxRuns /\ unit[h].of \in 0 .. unit[h].run /\ unit[h].good \in 0 .. unit[h].run
         /\ unit[h].status \in Ended \cup {"none", "waiting"}
         /\ target[h].skip \in {"unread", "no", "nothing", "failed"}
         /\ target[h].status \in {"none", "starting", "zero", "error", "timeout"}
         /\ target[h].outcome \in {"none", "ok", "failed"}

-----------------------------------------------------------------------------
(* The plan *)

Over(code) == at' = "over" /\ exit' = code /\ target' = IF code = "ok" THEN target ELSE [h \in Host |-> NoTarget]

\* readHost: a host that cannot be read or has no usable report, or what it tells.
Readings(u) == {"failed", "no"} \cup IF u.going THEN {} ELSE {"nothing"}

\* plan: a host that runs an older definition than the
\* deployed one, or whose restart is at work, is restarted.  since is the first
\* run that counts as its restart.
Plan(h) ==
    LET u == unit[h] IN
    /\ at = "read" /\ target[h].skip = "unread"
    /\ \E read \in Readings(u) :
         target' = [target EXCEPT ![h] = IF read # "no" THEN [@ EXCEPT !.skip = read]
                                         ELSE [@ EXCEPT !.skip = "no", !.joins = u.going, !.before = u.of,
                                                        !.since = IF u.going THEN u.run ELSE u.run + 1]]
    /\ UNCHANGED <<unit, at, exit>>

Group(h) == (UNION {g \in Serial : h \in g}) \cup {h}
Work == {h \in Host : target[h].skip = "no"}

\* A member that cannot be planned stops its group, wherever it stands in it.
stopFailedGroups ==
    [h \in Host |-> IF h \in Work /\ \E m \in Group(h) : target[m].skip = "failed"
                    THEN [target[h] EXCEPT !.skip = "failed"] ELSE target[h]]

Planned ==
    LET work == {h \in Host : stopFailedGroups[h].skip = "no"}
        code == IF \E h \in Host : target[h].skip = "failed" THEN "failed" ELSE "ok"
    IN
    /\ at = "read" /\ \A h \in Host : target[h].skip # "unread"
    /\ IF work = {} THEN Over(code)
       ELSE at' = "ask" /\ target' = stopFailedGroups /\ exit' = IF code = "ok" THEN "none" ELSE code
    /\ UNCHANGED unit

Ask ==
    /\ at = "ask"
    /\ \/ at' = "work" /\ UNCHANGED <<target, exit>>
       \/ Over("failed")
    /\ UNCHANGED unit

-----------------------------------------------------------------------------
(* The restarts *)

\* A restart that is at work, then this machine, then the inventory's order.
Rank(h) == IF target[h].joins THEN -2 ELSE IF h = Self THEN -1 ELSE h
Precedes(g, h) == Rank(g) < Rank(h) \/ (Rank(g) = Rank(h) /\ g < h)

InTurn(h) ==
    /\ at = "work" /\ h \in Work
    /\ target[h].outcome = "none" /\ target[h].status = "none"
    /\ \A g \in Group(h) \cap Work : Precedes(g, h) => target[g].outcome # "none"

\* systemctl start joins a unit at work, or starts it; it follows 0 when it did
\* neither, for want of a connection or of sudo.
Start(h) ==
    LET u == unit[h]
        follow(n) == target' = [target EXCEPT ![h].status = "starting", ![h].follows = n]
    IN
    /\ InTurn(h)
    /\ \/ follow(0) /\ UNCHANGED unit
       \/ u.going /\ follow(u.run) /\ UNCHANGED unit
       \/ /\ ~ u.going /\ u.run < MaxRuns /\ follow(u.run + 1)
          /\ unit' = [unit EXCEPT ![h].run = @ + 1, ![h].going = TRUE, ![h].ours = TRUE]
    /\ UNCHANGED <<at, exit>>

\* It returns when the run it follows has ended, or before: the connection is
\* lost, or the limit passes.
Return(h) ==
    LET t == target[h] IN
    /\ at = "work" /\ t.status = "starting"
    /\ \/ /\ t.follows # 0 /\ unit[h].of >= t.follows /\ ~ (unit[h].going /\ unit[h].run = t.follows)
          /\ target' = [target EXCEPT ![h].status = "zero"]
       \/ target' = [target EXCEPT ![h].status = "error"]
       \/ target' = [target EXCEPT ![h].status = "timeout"]
    /\ UNCHANGED <<unit, at, exit>>

\* What the host's record says counts if the command follows a run or the
\* record is a later one than it read.
Fresh(t, u) == u.of # 0 /\ (t.joins \/ u.of > t.before)
Succeeded(t, u) == t.status = "zero" /\ Fresh(t, u) /\ u.status = "done"

\* A failure stops the rest of the group.
Stopped(h, failed) == IF failed THEN {g \in Group(h) \cap Work : target[g].outcome = "none"} \ {h} ELSE {}
Settle(h, failed) ==
    /\ target' = [g \in Host |->
                    IF g = h THEN [target[g] EXCEPT !.outcome = IF failed THEN "failed" ELSE "ok"]
                    ELSE IF g \in Stopped(h, failed) THEN [target[g] EXCEPT !.outcome = "failed"]
                    ELSE target[g]]
    /\ exit' = IF failed THEN "failed" ELSE exit

\* restart and describeOutcome: the host is read once more, which may fail.
Judge(h) ==
    LET t == target[h] IN
    /\ at = "work" /\ t.status \in {"zero", "error", "timeout"} /\ t.outcome = "none"
    /\ Settle(h, ~ Succeeded(t, unit[h])) \/ Settle(h, TRUE)
    /\ UNCHANGED <<unit, at>>

End ==
    /\ at = "work" /\ \A h \in Work : target[h].outcome # "none"
    /\ Over(IF exit = "none" THEN "ok" ELSE exit)
    /\ UNCHANGED unit

Interrupt == at # "over" /\ Over("failed") /\ UNCHANGED unit

-----------------------------------------------------------------------------
(* The hosts *)

\* The unit's script notes that it waits, ...
Waits(h) ==
    /\ unit[h].going /\ unit[h].of # unit[h].run
    /\ unit' = [unit EXCEPT ![h].of = unit[h].run, ![h].status = "waiting"]
    /\ UNCHANGED <<at, target, exit>>

\* ... and how it ended, or dies with no word, ...
Ends(h, status) ==
    /\ unit[h].going
    /\ unit' = [unit EXCEPT ![h].going = FALSE, ![h].ours = FALSE, ![h].of = unit[h].run, ![h].status = status,
                            ![h].good = IF status = "done" THEN unit[h].run ELSE @]
    /\ UNCHANGED <<at, target, exit>>

Dies(h) ==
    /\ unit[h].going
    /\ unit' = [unit EXCEPT ![h].going = FALSE, ![h].ours = FALSE]
    /\ UNCHANGED <<at, target, exit>>

\* ... and may be started by others.
ByHand(h) ==
    /\ ~ unit[h].going /\ unit[h].run < MaxRuns
    /\ unit' = [unit EXCEPT ![h].run = @ + 1, ![h].going = TRUE]
    /\ UNCHANGED <<at, target, exit>>

Next ==
    \/ Planned \/ Ask \/ End \/ Interrupt
    \/ \E h \in Host : Plan(h) \/ Start(h) \/ Return(h) \/ Judge(h) \/ Waits(h) \/ Dies(h) \/ ByHand(h)
    \/ \E h \in Host, s \in Ended : Ends(h, s)

Spec == Init /\ [][Next]_vars

-----------------------------------------------------------------------------
(* Properties *)

\* Of a serial group one restart is at work that the command started, even when
\* it did not see that restart's end.
OneStartedAtATime ==
    \A g \in Serial : \A h, k \in g :
        unit[h].going /\ unit[h].ours /\ unit[k].going /\ unit[k].ours => h = k

\* A member that was not being restarted when the command planned is not started
\* by it before the restarts of its group that it found at work have ended.
FoundFirst ==
    \A g \in Serial : \A h, k \in g :
        (/\ unit[h].going /\ unit[h].ours /\ ~ target[h].joins
         /\ k \in Work /\ target[k].joins)
            => ~ (unit[k].going /\ unit[k].run = target[k].since)

\* A command that exits 0 had every host it found in need restarted by a run that
\* it found at work or that began after it planned, and that succeeded.
SuccessIsRestart ==
    exit = "ok" => \A h \in Work : unit[h].good >= target[h].since

RestartsAreInTurn == OneStartedAtATime /\ FoundFirst /\ SuccessIsRestart
================================================================================
