------------------------------- MODULE DeployRun -------------------------------
(***************************************************************************)
(* A run of `deploy HOST' or `deploy --all' (src/tools/nix-deploy): it     *)
(* checks the hosts, evaluates every target, plans, builds what changed    *)
(* and activates it: a single host's system and then its Home Manager, or  *)
(* the fleet's systems (independent hosts at once, those that ask for a    *)
(* password one by one, serial groups member by member) and then its Home  *)
(* Managers.  Runs follow one another on the same flake, and an interrupt  *)
(* is a run whose commands fail from then on.                              *)
(***************************************************************************)
EXTENDS Integers, Sequences, FiniteSets

CONSTANTS
    HostCount,
    HomeHosts,    \* the hosts that use Home Manager
    SerialGroups, \* a sequence of sets of hosts
    Gated,        \* those with a serialReadyCommand
    Self, Prompts, \* this machine, the hosts that ask for a sudo password
    BootHosts,    \* the hosts whose systems are staged for the next boot
    Options,      \* what each run may be asked for: a sequence, which bounds the runs
    MaxTrouble    \* bound: the steps that fail in a behaviour

VARIABLES
    opt,    \* the run's options; host is 0 for --all
    at,     \* what the run does, and the step of the switch that has its terminal
    st,     \* the targets: what the run keeps of each, and what is true of its host
    serial, \* the serial group at work
    blocked, failed, exit, warned, runs, trouble

vars == <<opt, at, st, serial, blocked, failed, exit, warned, runs, trouble>>

Host == 1 .. HostCount \* in the inventory's order
Target == ({"system"} \X Host) \cup ({"hm"} \X HomeHosts)
Group(h) == {i \in DOMAIN SerialGroups : h \in SerialGroups[i]}
InGroup(t) == t[1] = "system" /\ Group(t[2]) # {}

\* What a command line may ask for.
OptionState == [mode : {"full", "nixos", "hm"}, host : 0 .. HostCount, only : {"none", "dry", "build"},
                strict : BOOLEAN, force : BOOLEAN]

\* What the inventory makes sure of: a host belongs to at most one serial group.
Settings ==
    /\ HostCount \in Nat /\ HomeHosts \subseteq Host /\ SerialGroups \in Seq(SUBSET Host)
    /\ \A i, j \in DOMAIN SerialGroups : i # j => SerialGroups[i] \cap SerialGroups[j] = {}
    /\ Options \in Seq(SUBSET OptionState) /\ MaxTrouble \in Nat

\* What a run keeps of a target: its result; whether it evaluated, with an error
\* in the log if not; its line in build.log; its activate log; the seconds of its
\* activation and its gate.  What is true: the step that really failed, what its
\* activation command did, and that the ready command saw the host in this run
\* after the last switch of its group.
NoReport == [result |-> "-", evaluation |-> "none", built |-> "no", log |-> FALSE,
             seconds |-> FALSE, gate |-> FALSE, lost |-> "none", ran |-> "no", seen |-> FALSE]
\* What outlives the run: whether the host runs, or has as its profile only, what
\* the target evaluates to; the mark of an activation that did not succeed; and that
\* one began and nothing showed it to be good.
World == [gen |-> "old", mark |-> FALSE, faulty |-> FALSE]

NoSerial == [group |-> 0, step |-> "none", turn |-> 0, switched |-> FALSE, shared |-> FALSE, failure |-> FALSE]
NoOptions == [mode |-> "full", host |-> 0, only |-> "none", strict |-> FALSE, force |-> FALSE]

Init ==
    /\ opt = NoOptions /\ at = "off"
    /\ \E new \in SUBSET {<<"system", 1>>, <<"hm", 1>>} :
         st = [t \in Target |-> [report |-> NoReport, world |-> [World EXCEPT !.gen = IF t \in new THEN "new" ELSE "old"]]]
    /\ serial = NoSerial /\ blocked = {} /\ failed = FALSE /\ exit = "none"
    /\ warned = {} /\ runs = 0 /\ trouble = 0

TypeOK ==
    /\ opt.mode \in {"full", "nixos", "hm"} /\ opt.host \in 0 .. HostCount /\ opt.only \in {"none", "dry", "build"}
    /\ at \in {"off", "sudo", "system", "hm", "evaluate", "plan", "build", "support", "jobs", "terminal", "group", "single", "homes"}
    /\ \A t \in Target :
         /\ st[t].report.result \in {"-", "skipped", "failed", "unchanged", "planned", "built", "ok"}
         /\ st[t].report.ran \in {"no", "started", "failed", "worked"}
         /\ st[t].world.gen \in {"old", "staged", "new"}
    /\ blocked \subseteq DOMAIN SerialGroups /\ exit \in {"none", "ok", "failed", "killed"}
    /\ runs \in 0 .. Len(Options) /\ trouble \in 0 .. MaxTrouble

Result(t) == st[t].report.result
Systems == opt.mode \in {"nixos", "full"}
Homes == opt.mode \in {"hm", "full"}
Selected(phase) == {t \in Target : t[1] = phase /\ (opt.host = 0 \/ opt.host = t[2])}
Asked == (IF Systems THEN Selected("system") ELSE {}) \cup (IF Homes THEN Selected("hm") ELSE {})
Targets == {t \in Asked : Result(t) # "skipped"}
Changed == {t \in Asked : st[t].report.evaluation = "ok" /\ Result(t) # "unchanged"}
Ready == {t \in Asked : st[t].report.built = "yes"}
Waiting(phase) == {t \in Ready : t[1] = phase /\ Result(t) = "-"}
First(S) == CHOOSE t \in S : \A s \in S : t[2] <= s[2]

\* Some of the run's steps fail: as many as the bound allows.
Trouble(n) == trouble + n <= MaxTrouble /\ trouble' = trouble + n
Fails(ok) == Trouble(IF ok THEN 0 ELSE 1)

Report(S, f(_)) == [t \in Target |-> IF t \in S THEN [st[t] EXCEPT !.report = f(@)] ELSE st[t]]
Failing(S, step) == Report(S, LAMBDA r : [r EXCEPT !.result = "failed", !.lost = step])

-----------------------------------------------------------------------------
(* The start and the preflight *)

Over(code) == at' = "off" /\ exit' = code /\ serial' = NoSerial

\* finish: hosts whose system switched while Home Manager did not are named.
Lagging(s) == {h \in HomeHosts : s[<<"system", h>>].report.result = "ok" /\ s[<<"hm", h>>].report.result \in {"failed", "skipped"}}
Finish(s, bad) ==
    IF opt.host = 0 THEN warned' = Lagging(s) /\ Over(IF bad THEN "failed" ELSE "ok")
    ELSE UNCHANGED warned /\ Over(IF bad THEN "failed" ELSE "ok")

Begin(options) ==
    /\ at = "off" /\ (options.mode = "hm" => options.host \in HomeHosts \cup {0})
    /\ runs' = runs + 1 /\ opt' = options
    /\ at' = IF options.host = 0 /\ options.mode # "hm" /\ options.only = "none" THEN "sudo" ELSE "system"
    /\ st' = [t \in Target |-> [st[t] EXCEPT !.report = NoReport]]
    /\ serial' = NoSerial /\ blocked' = {} /\ failed' = FALSE /\ exit' = "none" /\ warned' = {}
    /\ UNCHANGED trouble

\* startSudoKeepalive
Sudo(ok) ==
    /\ at = "sudo" /\ Fails(ok)
    /\ IF ok THEN at' = "system" /\ UNCHANGED <<serial, exit>> ELSE Over("failed")
    /\ UNCHANGED <<opt, st, blocked, failed, warned, runs>>

\* preflightHost: this machine is not checked, and none for a build only.
Checked(S) == {t \in S : t[2] # Self /\ opt.only # "build"}

\* filterReachable.  A single host that fails ends the run; a
\* skipped member of a serial group blocks the group.
Preflight(skipped) ==
    LET phase == at
        S == IF (phase = "system" /\ ~ Systems) \/ (phase = "hm" /\ ~ Homes) THEN {} ELSE Selected(phase)
        end == skipped # {} /\ (opt.strict \/ opt.host # 0)
        groups == IF phase = "system" THEN UNION {Group(t[2]) : t \in skipped} ELSE {}
    IN
    /\ at \in {"system", "hm"} /\ skipped \subseteq Checked(S) /\ Trouble(Cardinality(skipped))
    /\ IF end THEN Over("failed") /\ UNCHANGED <<st, blocked, failed>>
       ELSE /\ at' = IF phase = "system" THEN "hm" ELSE "evaluate"
            /\ st' = Report(skipped, LAMBDA r : [r EXCEPT !.result = "skipped"])
            /\ blocked' = blocked \cup groups
            /\ failed' = (failed \/ groups # {} \/ (S # {} /\ skipped = S))
            /\ UNCHANGED <<serial, exit>>
    /\ UNCHANGED <<opt, warned, runs>>

-----------------------------------------------------------------------------
(* The evaluation, the plan and the build *)

\* An evaluation that was killed leaves no error in its log.
Evaluate(bad, silent) ==
    /\ at = "evaluate" /\ silent \subseteq bad /\ bad \subseteq Targets /\ Trouble(Cardinality(bad))
    /\ st' = [t \in Target |->
                IF t \in bad
                THEN [st[t] EXCEPT !.report = [@ EXCEPT !.result = "failed", !.lost = "evaluate",
                                                        !.evaluation = IF t \in silent THEN "silent" ELSE "error"]]
                ELSE IF t \in Targets THEN [st[t] EXCEPT !.report.evaluation = "ok"] ELSE st[t]]
    /\ failed' = (failed \/ bad # {})
    /\ IF opt.host # 0 /\ opt.only # "build" /\ bad # {} THEN Over("failed")
       ELSE at' = "plan" /\ UNCHANGED <<serial, exit>>
    /\ UNCHANGED <<opt, blocked, warned, runs>>

\* The generation a host staged for the next boot has to have is its profile's.
Current(t) == st[t].world.gen = "new" \/ (st[t].world.gen = "staged" /\ t[1] = "system" /\ t[2] \in BootHosts \ {Self})
Unchanged(t) == Current(t) /\ ~ st[t].world.mark /\ ~ opt.force

\* unknown are the targets whose generation could not be read.
Plan(unknown) ==
    LET S == {t \in Targets : st[t].report.evaluation = "ok"}
        unchanged == {t \in S \ unknown : Unchanged(t)}
        marked == [t \in Target |-> IF t \in unchanged THEN [st[t] EXCEPT !.report.result = "unchanged"]
                                    ELSE IF t \in S /\ opt.only = "dry" THEN [st[t] EXCEPT !.report.result = "planned"]
                                    ELSE st[t]]
    IN
    /\ at = "plan" /\ unknown \subseteq {t \in S : Unchanged(t)} /\ Trouble(Cardinality(unknown))
    /\ st' = marked
    /\ IF opt.only = "dry" \/ (opt.host # 0 /\ opt.only = "none" /\ S = unchanged) THEN Finish(marked, failed)
       ELSE at' = "build" /\ UNCHANGED <<serial, exit, warned>>
    /\ UNCHANGED <<opt, blocked, failed, runs>>

\* buildTargets: one build of every changed target, each then looked up and
\* rooted.  Without a directory for roots nothing is built.
Build(bad, root) ==
    LET f == failed \/ bad # {}
        built == [t \in Target |->
                    IF t \in bad
                    THEN [st[t] EXCEPT !.report = [@ EXCEPT !.result = "failed", !.lost = IF root THEN "build" ELSE "setup",
                                                            !.built = IF root THEN "failed" ELSE "no"]]
                    ELSE IF t \in Changed
                    THEN [st[t] EXCEPT !.report = [@ EXCEPT !.built = "yes", !.result = IF opt.only = "build" THEN "built" ELSE Result(t)]]
                    ELSE st[t]]
    IN
    /\ at = "build" /\ bad \subseteq Changed
    /\ IF root THEN Trouble(Cardinality(bad)) ELSE Changed # {} /\ bad = Changed /\ Trouble(1)
    /\ st' = built /\ failed' = f
    /\ IF opt.only = "build" \/ (opt.host # 0 /\ f) THEN Finish(built, f)
       ELSE at' = (IF opt.host = 0 THEN "support" ELSE "single") /\ UNCHANGED <<serial, exit, warned>>
    /\ UNCHANGED <<opt, blocked, runs>>

-----------------------------------------------------------------------------
(* The activations *)

\* failed.begin, before the command; without it nothing is activated.
Started(t) == [st[t] EXCEPT !.world = [@ EXCEPT !.mark = TRUE, !.faulty = TRUE], !.report.ran = "started"]

\* What an activation command does.  A switch that an inhibitor refuses is staged
\* for the next boot and works; one that fails may have moved the host or not.
Outcomes(t) ==
    {[worked |-> TRUE, gen |-> IF t[1] = "system" /\ t[2] \in BootHosts \ {Self} /\ st[t].world.gen = "old"
                               THEN "staged" ELSE "new"],
     [worked |-> FALSE, gen |-> st[t].world.gen], [worked |-> FALSE, gen |-> "new"]}
    \cup IF t[1] = "system" /\ t[2] \notin BootHosts \ {Self} THEN {[worked |-> TRUE, gen |-> "staged"]} ELSE {}
Ran(s, t, o) == [s[t] EXCEPT !.world.gen = o.gen, !.report.ran = IF o.worked THEN "worked" ELSE "failed"]

\* recordActivation, and the end of a job.
Settled(e, ok) ==
    [e EXCEPT !.report = [@ EXCEPT !.result = IF ok THEN "ok" ELSE "failed", !.lost = IF ok THEN e.report.lost ELSE "switch"],
              !.world = [@ EXCEPT !.mark = e.world.mark /\ ~ ok, !.faulty = e.world.faulty /\ ~ ok]]

\* The systems fail at once when this machine's nixos-rebuild cannot activate a
\* store path.
Support(ok) ==
    LET systems == Waiting("system") IN
    /\ at = "support" /\ Fails(ok) /\ (ok \/ systems # {})
    /\ IF ok THEN at' = "jobs" /\ UNCHANGED <<st, failed>>
       ELSE at' = "homes" /\ st' = Failing(systems, "setup") /\ failed' = TRUE
    /\ UNCHANGED <<opt, serial, blocked, exit, warned, runs>>

\* runJobs: all at once; a job whose mark cannot be written counts as activation.
IsJob(t) == IF t[1] = "hm" THEN at = "homes"
            ELSE at = "jobs" /\ Group(t[2]) = {} /\ t[2] \notin Prompts \ {Self}
Jobs == {t \in Ready : IsJob(t)}

BeginJob(t, ok) ==
    /\ at \in {"jobs", "homes"} /\ t \in Jobs /\ Result(t) = "-" /\ st[t].report.ran = "no" /\ Fails(ok)
    /\ IF ok THEN st' = [st EXCEPT ![t] = [Started(t) EXCEPT !.report.log = TRUE]] /\ UNCHANGED failed
       ELSE /\ st' = [st EXCEPT ![t].report = [@ EXCEPT !.result = "failed", !.lost = "begin", !.seconds = TRUE]]
            /\ failed' = TRUE
    /\ UNCHANGED <<opt, at, serial, blocked, exit, warned, runs>>

EndJob(t, o) ==
    /\ t \in Jobs /\ st[t].report.ran = "started" /\ o \in Outcomes(t) /\ Fails(o.worked)
    /\ st' = [st EXCEPT ![t] = [Settled(Ran(st, t, o), o.worked) EXCEPT !.report.seconds = TRUE]]
    /\ failed' = (failed \/ ~ o.worked)
    /\ UNCHANGED <<opt, at, serial, blocked, exit, warned, runs>>

JobsDone ==
    /\ at \in {"jobs", "homes"} /\ \A t \in Jobs : Result(t) # "-"
    /\ IF at = "homes" THEN Finish(st, failed)
       ELSE at' = "terminal" /\ UNCHANGED <<serial, exit, warned>>
    /\ UNCHANGED <<opt, st, blocked, failed, runs, trouble>>

\* The systems that ask for a password, and a single host's Home Manager, one by
\* one with the terminal, which shows a Home Manager's output and that of a
\* system that is staged: those leave no log.
ReadsOutput(t) == t[1] = "system" /\ t[2] \notin BootHosts \ {Self}
Asking == {t \in Waiting("system") : Group(t[2]) = {} /\ t[2] \in Prompts \ {Self}}
Plain == IF at = "terminal" THEN Asking
         ELSE IF at # "single" \/ serial.step # "none" THEN {}
         ELSE IF Waiting("system") = {} THEN Waiting("hm") ELSE {t \in Waiting("system") : ~ InGroup(t)}

\* A single host's system needs nixos-rebuild too.
Switch(t, step, o) ==
    LET e == IF step = "setup" \/ step = "begin" THEN Failing({t}, step)[t]
             ELSE [Settled(Ran([st EXCEPT ![t] = Started(t)], t, o), o.worked)
                    EXCEPT !.report.seconds = TRUE, !.report.log = ReadsOutput(t)]
        ok == e.report.result = "ok"
    IN
    /\ Plain # {} /\ t = First(Plain) /\ o \in Outcomes(t) /\ Fails(ok)
    /\ step = "setup" => at = "single" /\ t[1] = "system"
    /\ st' = [st EXCEPT ![t] = e] /\ failed' = (failed \/ ~ ok)
    /\ IF at = "single" /\ ~ ok
       THEN /\ warned' = IF step = "switch" /\ t[1] = "hm" /\ Result(<<"system", t[2]>>) = "ok" THEN {t[2]} ELSE warned
            /\ Over("failed")
       ELSE UNCHANGED <<at, serial, exit, warned>>
    /\ UNCHANGED <<opt, blocked, runs>>

PlainDone ==
    /\ at \in {"terminal", "single"}
    /\ IF at = "terminal" THEN Asking = {} /\ at' = "group" /\ UNCHANGED <<serial, exit>>
       ELSE serial.step = "none" /\ Waiting("system") \cup Waiting("hm") = {} /\ Over("ok")
    /\ UNCHANGED <<opt, st, blocked, failed, warned, runs, trouble>>

-----------------------------------------------------------------------------
(* The serial groups: switchGroup, and switchHost for a single host *)

Members == {t \in Waiting("system") : serial.group \in Group(t[2])}
Goto(step) == serial' = [serial EXCEPT !.step = step]
Stop(step) == serial' = [serial EXCEPT !.step = step, !.failure = TRUE]
Turn == <<"system", serial.turn>>

NextGroup ==
    LET g == serial.group + 1 IN
    /\ at = "group" /\ serial.step = "none"
    /\ IF g > Len(SerialGroups) THEN at' = "homes" /\ serial' = NoSerial
       ELSE /\ UNCHANGED at
            /\ serial' = [NoSerial EXCEPT !.group = g,
                            !.step = IF \E t \in Waiting("system") : g \in Group(t[2]) THEN "reserve" ELSE "none"]
    /\ UNCHANGED <<opt, st, blocked, failed, exit, warned, runs, trouble>>

SingleGroup ==
    /\ at = "single" /\ serial.step = "none"
    /\ \E t \in Waiting("system") : \E g \in Group(t[2]) :
         serial' = [NoSerial EXCEPT !.group = g, !.step = "reserve", !.turn = t[2]]
    /\ UNCHANGED <<opt, at, st, blocked, failed, exit, warned, runs, trouble>>

\* reserveGroup; a blocked group is not even asked for.
Reserve(ok) ==
    LET may == serial.group \notin blocked IN
    /\ serial.step = "reserve" /\ Fails(ok) /\ (ok \/ may)
    /\ IF ok /\ may THEN serial' = [serial EXCEPT !.shared = TRUE, !.step = "check"] /\ UNCHANGED <<st, failed>>
       ELSE IF at = "single" THEN Stop("release") /\ st' = Failing({Turn}, "setup") /\ failed' = TRUE
       ELSE Stop("next") /\ UNCHANGED <<st, failed>>
    /\ UNCHANGED <<opt, at, blocked, exit, warned, runs>>

\* precheck: every member before the first switch of a fleet's run, else the
\* others.
Precheck(ok) ==
    LET gated == serial.group \in Gated
        checked == {t \in Target : InGroup(t) /\ serial.group \in Group(t[2]) /\ t[2] # serial.turn}
    IN
    /\ serial.step = "check" /\ Fails(ok) /\ (ok \/ gated)
    /\ IF ok
       THEN /\ Goto(IF serial.turn = 0 THEN "next" ELSE "begin") /\ UNCHANGED failed
            /\ st' = IF gated THEN Report(checked, LAMBDA r : [r EXCEPT !.seen = TRUE]) ELSE st
       ELSE IF at = "single" THEN Stop("release") /\ st' = Failing({Turn}, "setup") /\ failed' = TRUE
       ELSE Stop("next") /\ UNCHANGED <<st, failed>>
    /\ UNCHANGED <<opt, at, blocked, exit, warned, runs>>

NextMember ==
    /\ serial.step = "next"
    /\ IF Members = {} \/ serial.failure
       THEN Goto("release") /\ st' = Report(Members, LAMBDA r : [r EXCEPT !.result = "skipped"])
       ELSE /\ serial' = [serial EXCEPT !.turn = First(Members)[2],
                            !.step = IF serial.switched /\ serial.group \in Gated THEN "check" ELSE "begin"]
            /\ UNCHANGED st
    /\ UNCHANGED <<opt, at, blocked, failed, exit, warned, runs, trouble>>

After == IF at = "single" THEN "release" ELSE "next"

\* The member fails at a step, which ends the group's rollout.
FailMember(s, step) == st' = [s EXCEPT ![Turn].report = [@ EXCEPT !.result = "failed", !.lost = step]]
                       /\ failed' = TRUE /\ Stop(After)

BeginMember(step) ==
    /\ serial.step = "begin" /\ Fails(step = "start") /\ (step = "setup" => at = "single")
    /\ IF step # "start" THEN FailMember(st, step)
       ELSE /\ st' = [st EXCEPT ![Turn] = [@ EXCEPT !.world.mark = TRUE, !.report.log = ReadsOutput(Turn)]]
            /\ serial' = [serial EXCEPT !.step = "start", !.switched = TRUE] /\ UNCHANGED failed
    /\ UNCHANGED <<opt, at, blocked, exit, warned, runs>>

\* reservation.start
StartMember(ok) ==
    /\ serial.step = "start" /\ Fails(ok)
    /\ IF ok THEN st' = [st EXCEPT ![Turn] = Started(Turn)] /\ Goto("run") /\ UNCHANGED failed
       ELSE FailMember(st, "start")
    /\ UNCHANGED <<opt, at, blocked, exit, warned, runs>>

RunMember(o) ==
    /\ serial.step = "run" /\ o \in Outcomes(Turn) /\ Fails(o.worked)
    /\ st' = [st EXCEPT ![Turn] = Ran(st, Turn, o)] /\ Goto("ended")
    /\ UNCHANGED <<opt, at, blocked, failed, exit, warned, runs>>

\* reservation.ended; only then the time of the activation counts.
EndMember(ok) ==
    LET timed == [st EXCEPT ![Turn].report.seconds = TRUE] IN
    /\ serial.step = "ended" /\ Fails(ok)
    /\ IF ~ ok THEN FailMember(st, "ended")
       ELSE IF st[Turn].report.ran = "failed" THEN FailMember(timed, "switch")
       ELSE st' = timed /\ Goto("gate") /\ UNCHANGED failed
    /\ UNCHANGED <<opt, at, blocked, exit, warned, runs>>

\* waitReady: without a ready command the gate is passed at once.  A member that
\* did not rejoin keeps its mark, so that the next run switches it again.
Gate(ok) ==
    LET members == {t \in Target : InGroup(t) /\ serial.group \in Group(t[2])}
        gated == [Report(members, LAMBDA r : [r EXCEPT !.seen = FALSE]) EXCEPT ![Turn].report.gate = TRUE]
    IN
    /\ serial.step = "gate" /\ Fails(ok) /\ (ok \/ serial.group \in Gated)
    /\ IF ok THEN /\ st' = [gated EXCEPT ![Turn] = [Settled(gated[Turn], TRUE) EXCEPT !.report.seen = TRUE]]
                  /\ Goto(After) /\ UNCHANGED <<failed, warned>>
       ELSE /\ FailMember(gated, "gate")
            /\ warned' = IF at = "single" /\ opt.mode = "full" /\ serial.turn \in HomeHosts THEN {serial.turn} ELSE warned
    /\ UNCHANGED <<opt, at, blocked, exit, runs>>

\* reservation.finish, if there is one: its failure fails the run.
Release(ok) ==
    LET failure == serial.failure \/ ~ ok
        code == at = "single" /\ ~ serial.failure /\ ~ ok
    IN
    /\ serial.step = "release" /\ Fails(ok) /\ (ok \/ serial.shared)
    /\ st' = IF code THEN Failing({Turn}, "release") ELSE st
    /\ failed' = (failed \/ failure)
    /\ IF at = "single" /\ failure THEN Over("failed")
       ELSE serial' = [NoSerial EXCEPT !.group = serial.group] /\ UNCHANGED <<at, exit>>
    /\ UNCHANGED <<opt, blocked, warned, runs>>

-----------------------------------------------------------------------------

\* A run dies; an activation that it had begun has moved its host or not.
Kill(moved) ==
    /\ at # "off" /\ Trouble(1)
    /\ st' = [t \in Target |-> IF t \in moved THEN [st[t] EXCEPT !.world.gen = "new"] ELSE st[t]]
    /\ Over("killed")
    /\ UNCHANGED <<opt, blocked, failed, warned, runs>>

Next ==
    \/ at = "off" /\ runs < Len(Options) /\ \E options \in Options[runs + 1] : Begin(options)
    \/ at \in {"system", "hm"} /\ \E skipped \in SUBSET Asked : Preflight(skipped)
    \/ at = "evaluate" /\ \E bad \in SUBSET Targets : \E silent \in SUBSET bad : Evaluate(bad, silent)
    \/ at = "plan" /\ \E unknown \in SUBSET Targets : Plan(unknown)
    \/ at = "build" /\ \E bad \in SUBSET Changed, root \in BOOLEAN : Build(bad, root)
    \/ \E ok \in BOOLEAN : Sudo(ok) \/ Support(ok) \/ Reserve(ok) \/ Precheck(ok) \/ StartMember(ok) \/ EndMember(ok)
                           \/ Gate(ok) \/ Release(ok)
    \/ \E t \in Ready : \/ \E ok \in BOOLEAN : BeginJob(t, ok)
                        \/ \E o \in Outcomes(t) : EndJob(t, o)
                        \/ \E o \in Outcomes(t), step \in {"setup", "begin", "switch"} : Switch(t, step, o)
    \/ JobsDone \/ PlainDone \/ NextGroup \/ SingleGroup \/ NextMember
    \/ \E step \in {"setup", "begin", "start"} : BeginMember(step)
    \/ serial.step = "run" /\ \E o \in Outcomes(Turn) : RunMember(o)
    \/ \E moved \in SUBSET {t \in Ready : st[t].report.ran = "started"} : Kill(moved)

Spec == Init /\ [][Next]_vars

-----------------------------------------------------------------------------
(* Properties *)

\* failedStep, which triage reads off the run's record.
failedStep(t) ==
    LET r == st[t].report IN
    IF r.built = "failed" THEN "build" ELSE IF r.gate THEN "gate" ELSE IF r.log THEN "activate"
    ELSE IF r.seconds THEN "activation" ELSE IF r.evaluation = "error" THEN "evaluate" ELSE "untold"

\* Of a failed target triage names no step before or after the one that failed, and
\* one that makes it read the host's state if the activation ran; but an end that
\* the reservation could not record may leave no trace.
TriageIsRight ==
    \A t \in Target :
        LET r == st[t].report  s == failedStep(t) IN
        (at = "off" /\ exit # "killed" /\ r.result = "failed") =>
            /\ s = "evaluate" <=> r.evaluation = "error"
            /\ s = "build" <=> r.lost = "build"
            /\ s \in {"activate", "activation"} => r.built = "yes" /\ r.lost \notin {"setup", "gate", "release"}
            /\ s = "gate" <=> r.lost \in {"gate", "release"}
            /\ r.ran # "no" /\ s = "untold" => r.lost = "ended"

\* A target that the plan finds unchanged is one whose host has it, and whose last
\* activation succeeded, in this run or in an earlier one.
UnchangedIsSound == \A t \in Target : Result(t) = "unchanged" => Current(t) /\ ~ st[t].world.faulty

\* While a member of a gated group is switched, the ready command has seen every
\* other one since the group's last switch.  Of any group at most one member's
\* switch is under way or failed, and none switches after a member was skipped for
\* its preflight.
SerialInTurn ==
    \A i \in DOMAIN SerialGroups :
        LET members == {t \in Target : t[1] = "system" /\ t[2] \in SerialGroups[i]}
            switched(t) == st[t].report.ran # "no"
        IN
        /\ \A t, s \in members : i \in Gated /\ st[t].report.ran = "started" /\ s # t => st[s].report.seen
        /\ Cardinality({t \in members : switched(t) /\ Result(t) # "ok"}) <= 1
        /\ i \in blocked => \A t \in members : ~ switched(t)

\* A single host that did not evaluate or build is untouched.
UntouchedUnlessBuilt ==
    \A t \in Target :
        st[t].report.ran # "no" =>
            /\ st[t].report.built = "yes"
            /\ opt.host # 0 => \A s \in Asked : st[s].report.lost \notin {"evaluate", "build"}

\* A run that exits 0 left every target as its result says, skipped none of a
\* serial group, and named the hosts whose Home Manager is behind the system.
SuccessIsComplete ==
    exit = "ok" =>
        \A t \in Asked :
            /\ Result(t) \notin {"-", "failed"}
            /\ Result(t) = "skipped" => ~ InGroup(t)
            /\ Result(t) = "ok" => st[t].world.gen # "old" /\ ~ st[t].world.faulty
            /\ (Result(t) = "skipped" /\ t[1] = "hm" /\ Result(<<"system", t[2]>>) = "ok") => t[2] \in warned

RunIsSound == TriageIsRight /\ UnchangedIsSound /\ SerialInTurn /\ UntouchedUnlessBuilt /\ SuccessIsComplete
================================================================================
