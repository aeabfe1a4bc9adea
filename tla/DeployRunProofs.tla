---------------------------- MODULE DeployRunProofs ----------------------------
(***************************************************************************)
(* Proofs about DeployRun for any inventory, any command lines and any     *)
(* steps that fail.  Reports is about what a run keeps of a target; Early, *)
(* Late and Left about what it has at each place of a run, up to the build *)
(* and after it; Verdict about its exit code, Rollout about the serial     *)
(* group at work and Turns about the activations of a group's members.     *)
(***************************************************************************)
EXTENDS DeployRun, FiniteSetTheorems, TLAPS

-----------------------------------------------------------------------------
(* The invariants *)

ReportState == [result : {"-", "skipped", "failed", "unchanged", "planned", "built", "ok"},
                evaluation : {"none", "ok", "error", "silent"}, built : {"no", "yes", "failed"},
                log : BOOLEAN, seconds : BOOLEAN, gate : BOOLEAN,
                lost : {"none", "evaluate", "build", "setup", "begin", "start", "ended", "switch",
                        "gate", "release"},
                ran : {"no", "started", "failed", "worked"}, seen : BOOLEAN]
WorldState == [gen : {"old", "staged", "new"}, mark : BOOLEAN, faulty : BOOLEAN]
TargetState == [report : ReportState, world : WorldState]

\* A member of a group is at work, from its mark to the gate.
Switching == {"start", "run", "ended", "gate"}
SerialState == [group : 0 .. Len(SerialGroups),
                step : {"none", "reserve", "check", "begin", "next", "release"} \cup Switching,
                turn : 0 .. HostCount, switched : BOOLEAN, shared : BOOLEAN, failure : BOOLEAN]

\* The places of a run, before and after the build.
Before == {"sudo", "system", "hm", "evaluate", "plan", "build"}
Fleet == {"support", "jobs", "terminal", "group", "homes"}

\* The type invariant, of the whole state.
Typed ==
    /\ opt \in OptionState /\ at \in {"off", "single"} \cup Before \cup Fleet
    /\ st \in [Target -> TargetState] /\ serial \in SerialState
    /\ blocked \subseteq DOMAIN SerialGroups /\ failed \in BOOLEAN
    /\ exit \in {"none", "ok", "failed", "killed"}
    /\ runs \in 0 .. Len(Options) /\ trouble \in 0 .. MaxTrouble

\* Nothing was done to the target.
Untouched(r) == r.ran = "no" /\ ~ r.log /\ ~ r.seconds /\ ~ r.gate

\* What the run keeps of a failed target, by the step that failed.
Failure(r) ==
    \/ r.lost = "evaluate" /\ r.evaluation \in {"error", "silent"} /\ r.built = "no" /\ Untouched(r)
    \/ r.lost = "build" /\ r.evaluation = "ok" /\ r.built = "failed" /\ Untouched(r)
    \/ r.lost = "setup" /\ r.evaluation = "ok" /\ r.built # "failed" /\ Untouched(r)
    \/ /\ r.evaluation = "ok" /\ r.built = "yes"
       /\ \/ r.lost = "begin" /\ r.ran = "no" /\ ~ r.log /\ ~ r.gate
          \/ r.lost = "start" /\ r.ran = "no" /\ ~ r.seconds /\ ~ r.gate
          \/ r.lost = "ended" /\ r.ran \in {"failed", "worked"} /\ ~ r.seconds /\ ~ r.gate
          \/ r.lost = "switch" /\ r.ran = "failed" /\ r.seconds /\ ~ r.gate
          \/ r.lost \in {"gate", "release"} /\ r.ran = "worked" /\ r.gate

\* What a report may say, with what is true of the target.
Reported(r, w) ==
    /\ w.faulty => w.mark
    /\ r.built # "no" => r.evaluation = "ok"
    /\ r.ran # "no" => r.built = "yes"
    /\ r.ran = "started" => r.result = "-"
    /\ r.ran = "worked" => w.gen # "old"
    /\ r.result = "failed" => Failure(r)
    /\ r.result # "failed" => r.lost = "none" /\ r.built # "failed" /\ r.evaluation \in {"none", "ok"}
    /\ r.result = "skipped" => Untouched(r)
    /\ r.result = "ok" => r.ran = "worked" /\ r.evaluation = "ok" /\ ~ w.faulty
    /\ r.result = "unchanged" => r.ran = "no" /\ ~ w.mark
    /\ r.gate => r.result \in {"ok", "failed"}

Reports ==
    \A t \in Target :
        /\ Reported(st[t].report, st[t].world)
        /\ Result(t) = "unchanged" => Current(t)
        /\ Result(t) # "-" \/ st[t].report.evaluation # "none" => t \in Asked
        /\ Result(t) = "failed" => failed

\* The targets whose activation is under way.
Busy(t) == \/ IsJob(t) /\ st[t].report.ran = "started"
           \/ serial.step \in Switching /\ t = Turn

\* What there is of a target up to the build.
Early ==
    /\ at \in {"sudo", "system", "hm", "evaluate"} =>
          \A t \in Target : /\ st[t].report.evaluation = "none" /\ Result(t) \in {"-", "skipped"}
                            /\ opt.host # 0 => Result(t) # "skipped"
    /\ at \in {"plan", "build"} =>
          /\ \A t \in Asked : Result(t) = "skipped" \/ st[t].report.evaluation # "none"
          /\ \A t \in Target :
                /\ Result(t) \in {"-", "skipped", "failed"} \/ (at = "build" /\ Result(t) = "unchanged")
                /\ Result(t) = "skipped" => opt.host = 0 /\ st[t].report.evaluation = "none"
                /\ Result(t) = "failed" => st[t].report.lost = "evaluate"
                /\ opt.host # 0 /\ opt.only # "build" => st[t].report.lost # "evaluate"
    /\ at = "build" => opt.only # "dry"
    /\ at \in Before => \A t \in Target : Untouched(st[t].report) /\ st[t].report.built = "no"

\* What there is of it once the targets are built.
Late ==
    at \in Fleet \cup {"single"} =>
       /\ opt.only = "none" /\ (at = "single" <=> opt.host # 0)
       /\ \A t \in Asked : Result(t) = "-" => st[t].report.built = "yes"
       /\ \A t \in Asked : Result(t) # "-" \/ st[t].report.evaluation # "none"
       /\ \A t \in Target :
             /\ Result(t) \in {"-", "skipped", "failed", "unchanged", "ok"}
             /\ at = "single" => Result(t) # "skipped" /\ st[t].report.lost \notin {"evaluate", "build"}
             /\ Result(t) = "-" => Untouched(st[t].report) \/ Busy(t)

\* Which systems are still to be switched at each place of a fleet's run.
Left ==
    /\ at = "terminal" => \A t \in Waiting("system") : InGroup(t) \/ t[2] \in Prompts \ {Self}
    /\ at = "group" =>
          \A t \in Waiting("system") :
              /\ InGroup(t)
              /\ \A i \in Group(t[2]) :
                    i > serial.group \/ (i = serial.group /\ serial.step \notin {"none", "release"})
    /\ at = "homes" => Waiting("system") = {}

\* The exit code: nothing fails, or is skipped in its group, unnoticed.
Verdict ==
    /\ at # "off" => exit = "none"
    /\ at # "off" => \A t \in Target : InGroup(t) /\ Result(t) = "skipped" => failed \/ serial.failure
    /\ at = "single" /\ failed => serial.failure /\ serial.step = "release"
    /\ SuccessIsComplete

MembersOf(i) == {t \in Target : t[1] = "system" /\ t[2] \in SerialGroups[i]}

\* The serial group at work.
Rollout ==
    /\ at \notin {"group", "single"} => serial = NoSerial
    /\ serial.step # "none" => serial.group \in DOMAIN SerialGroups
    /\ serial.step = "none" => ~ serial.failure
    /\ at = "single" => serial.step # "next" /\ (serial.step # "none" => serial.turn # 0)
    /\ serial.step = "reserve" => ~ serial.switched /\ ~serial.failure
    /\ serial.step \in Switching \cup {"begin", "check"} => ~serial.failure
    /\ serial.step \in Switching \cup {"begin"} => serial.turn # 0
    /\ serial.step \in Switching => serial.switched
    /\ serial.step \in Switching \cup {"begin", "check"} \/ (serial.step = "next" /\ ~ serial.failure) =>
          serial.group \notin blocked
    /\ serial.step # "none" /\ serial.turn # 0 =>
          /\ serial.turn \in SerialGroups[serial.group] /\ Turn \in Asked
          /\ st[Turn].report.built = "yes"
    /\ serial.step \in Switching \cup {"reserve", "check", "begin"} /\ serial.turn # 0 =>
          Result(Turn) = "-"
    /\ serial.step \in {"reserve", "check", "begin"} /\ serial.turn # 0 => Untouched(st[Turn].report)
    /\ serial.step = "start" => st[Turn].report.ran = "no" /\ ~ st[Turn].report.seconds
    /\ serial.step = "run" => st[Turn].report.ran = "started" /\ ~ st[Turn].report.seconds
    /\ serial.step = "ended" => st[Turn].report.ran \in {"failed", "worked"} /\ ~ st[Turn].report.seconds
    /\ serial.step = "gate" => st[Turn].report.ran = "worked" /\ st[Turn].report.seconds
    /\ at = "single" /\ serial.step = "release" /\ ~ serial.failure =>
          Result(Turn) = "ok" /\ st[Turn].report.gate

\* The activations of the members of a group.
Half(t) == st[t].report.ran # "no" /\ Result(t) # "ok"
Turns ==
    /\ \A i \in DOMAIN SerialGroups : \A t, s \in MembersOf(i) :
          /\ Half(t) /\ Half(s) => t = s
          /\ i \in Gated /\ st[t].report.ran = "started" /\ s # t => st[s].report.seen
    /\ \A i \in blocked : \A t \in MembersOf(i) : st[t].report.ran = "no"
    /\ at \in {"support", "jobs", "terminal"} => \A t \in Target : InGroup(t) => st[t].report.ran = "no"
    /\ at = "group" =>
          \A t \in Target : \A i \in Group(t[2]) : InGroup(t) /\ i > serial.group => st[t].report.ran = "no"
    /\ serial.step \in {"reserve", "check", "begin", "start"} \/ (serial.step = "next" /\ ~ serial.failure) =>
          \A t \in MembersOf(serial.group) : ~ Half(t)
    /\ serial.step \in {"begin", "start", "run"} /\ serial.group \in Gated =>
          \A t \in MembersOf(serial.group) : t # Turn => st[t].report.seen
    /\ serial.step = "next" /\ ~ serial.switched /\ ~ serial.failure /\ serial.group \in Gated =>
          \A t \in MembersOf(serial.group) : st[t].report.seen

Inv == Typed /\ Reports /\ Early /\ Late /\ Left /\ Verdict /\ Rollout /\ Turns /\ UntouchedUnlessBuilt
-----------------------------------------------------------------------------
(* Targets *)

(* What a target is. *)
LEMMA TargetIs ==
    ASSUME Settings, NEW t \in Target
    PROVE  t[1] \in {"system", "hm"} /\ t[2] \in Host /\ t[2] \in Nat /\ t[2] # 0 /\ t = <<t[1], t[2]>>
<1>1. Host \subseteq Nat \ {0} /\ HomeHosts \subseteq Host
  BY DEF Host, Settings
<1>2. t \in {"system"} \X Host \/ t \in {"hm"} \X HomeHosts
  BY DEF Target
<1> HIDE DEF Host
<1> QED BY <1>1, <1>2

(* A set of natural numbers has a least element. *)
LEMMA LeastOf ==
    ASSUME NEW N \in SUBSET Nat, NEW n \in N
    PROVE  \E x \in N : \A y \in N : x <= y
<1> DEFINE R == OpToRel(<, Nat)
<1>1. \A x, y \in Nat : x < y => <<x, y>> \in R
  BY DEF OpToRel
<1>2. IsWellFoundedOn(R, Nat)
  BY NatLessThanWellFounded
<1> HIDE DEF R
<1>3. PICK x \in N : \A y \in N : ~ (<<y, x>> \in R)
  BY <1>2, WFMin
<1>4. ASSUME NEW y \in N PROVE x <= y
  <2>1. x \in Nat /\ y \in Nat
    OBVIOUS
  <2>2. ~ (y < x)
    BY <1>1, <1>3, <2>1
  <2> QED BY <2>1, <2>2
<1> QED BY <1>4

(* A set of targets has a first one. *)
LEMMA FirstOf ==
    ASSUME Settings, NEW S \in SUBSET Target, S # {}
    PROVE  First(S) \in S
<1> DEFINE N == {t[2] : t \in S}
<1>1. N \in SUBSET Nat /\ \E n : n \in N
  BY TargetIs
<1> HIDE DEF N
<1>2. \E x \in N : \A y \in N : x <= y
  BY <1>1, LeastOf
<1> USE DEF N
<1>3. \E t \in S : \A s \in S : t[2] <= s[2]
  BY <1>2
<1> QED BY <1>3 DEF First

-----------------------------------------------------------------------------
(* What the helpers do with a target's entry *)

(* The parts of an entry. *)
LEMMA EntryParts ==
    ASSUME NEW e \in TargetState
    PROVE  /\ e.report \in ReportState /\ e.world \in WorldState
           /\ e = [report |-> e.report, world |-> e.world]
BY DEF TargetState

(* The begin of an activation. *)
LEMMA StartedIs ==
    ASSUME Typed, NEW t \in Target
    PROVE  /\ Started(t) \in TargetState
           /\ Started(t).world = [st[t].world EXCEPT !.mark = TRUE, !.faulty = TRUE]
           /\ Started(t).report = [st[t].report EXCEPT !.ran = "started"]
<1>1. st[t] \in TargetState
  BY DEF Typed
<1>2. [st[t].world EXCEPT !.mark = TRUE, !.faulty = TRUE] \in WorldState
  BY <1>1, EntryParts DEF WorldState
<1>3. [st[t].report EXCEPT !.ran = "started"] \in ReportState
  BY <1>1, EntryParts DEF ReportState
<1> QED BY <1>1, <1>2, <1>3 DEF Started, TargetState

OutcomeState == [worked : BOOLEAN, gen : {"old", "staged", "new"}]

(* What an activation command may do. *)
LEMMA OutcomeIs ==
    ASSUME Typed, NEW t \in Target, NEW o \in Outcomes(t)
    PROVE  o \in OutcomeState /\ (o.worked => o.gen # "old")
<1>1. st[t].world.gen \in {"old", "staged", "new"}
  BY EntryParts DEF Typed, WorldState
<1>2. \/ o = [worked |-> TRUE, gen |-> "staged"] \/ o = [worked |-> TRUE, gen |-> "new"]
      \/ o = [worked |-> FALSE, gen |-> st[t].world.gen] \/ o = [worked |-> FALSE, gen |-> "new"]
  <2> DEFINE first == st[t].world.gen = "old" /\ t[1] = "system" /\ t[2] \in BootHosts \ {Self}
             second == t[1] = "system" /\ t[2] \notin BootHosts \ {Self}
  <2>1. CASE first BY <2>1 DEF Outcomes
  <2>2. CASE ~ first BY <2>2 DEF Outcomes
  <2> QED BY <2>1, <2>2
<1>3. ASSUME NEW w \in BOOLEAN, NEW g \in {"old", "staged", "new"}, o = [worked |-> w, gen |-> g],
             w => g # "old"
      PROVE  o \in OutcomeState /\ (o.worked => o.gen # "old")
  <2>1. o.worked = w /\ o.gen = g
    BY <1>3
  <2> QED BY <1>3, <2>1 DEF OutcomeState
<1> QED BY <1>1, <1>2, <1>3

(* The activation command. *)
LEMMA RanIs ==
    ASSUME NEW s, NEW t, s[t] \in TargetState, NEW o \in OutcomeState
    PROVE  /\ Ran(s, t, o) \in TargetState
           /\ Ran(s, t, o).world = [s[t].world EXCEPT !.gen = o.gen]
           /\ Ran(s, t, o).report =
                 [s[t].report EXCEPT !.ran = IF o.worked THEN "worked" ELSE "failed"]
<1> DEFINE e == s[t]
<1>2. [e.world EXCEPT !.gen = o.gen] \in WorldState
  BY EntryParts DEF WorldState, OutcomeState
<1>3. [e.report EXCEPT !.ran = IF o.worked THEN "worked" ELSE "failed"] \in ReportState
  BY EntryParts DEF ReportState
<1> QED BY <1>2, <1>3 DEF Ran, TargetState

(* The end of an activation. *)
LEMMA SettledIs ==
    ASSUME NEW e \in TargetState, NEW ok \in BOOLEAN
    PROVE  /\ Settled(e, ok) \in TargetState
           /\ Settled(e, ok).world = [e.world EXCEPT !.mark = e.world.mark /\ ~ ok,
                                                     !.faulty = e.world.faulty /\ ~ ok]
           /\ Settled(e, ok).report = [e.report EXCEPT !.result = IF ok THEN "ok" ELSE "failed",
                                                !.lost = IF ok THEN e.report.lost ELSE "switch"]
<1>2. [e.world EXCEPT !.mark = e.world.mark /\ ~ ok, !.faulty = e.world.faulty /\ ~ ok] \in WorldState
  BY EntryParts DEF WorldState
<1>3. [e.report EXCEPT !.result = IF ok THEN "ok" ELSE "failed",
                       !.lost = IF ok THEN e.report.lost ELSE "switch"] \in ReportState
  <2>1. e.report \in ReportState
    BY EntryParts
  <2>2. CASE ok
    BY <2>1, <2>2 DEF ReportState
  <2>3. CASE ~ ok
    BY <2>1, <2>3 DEF ReportState
  <2> QED BY <2>2, <2>3
<1> QED BY <1>2, <1>3 DEF Settled, TargetState

-----------------------------------------------------------------------------
(* A target's own step: an activation outside the serial groups *)

\* What such a step leaves of its target, and of the run.
JobStep(t) ==
    /\ t \in Ready /\ ~ InGroup(t) /\ Result(t) = "-" /\ at \in {"jobs", "terminal", "single", "homes"}
    /\ serial.step = "none" /\ opt' = opt /\ blocked' = blocked
    /\ \A s \in Target : s # t => st'[s] = st[s]
    /\ LET q == st[t].report  r == st'[t].report  w == st'[t].world IN
       /\ r.evaluation = q.evaluation /\ r.built = q.built /\ ~ r.gate /\ (w.faulty => w.mark)
       /\ \/ /\ r.result = "-" /\ r.ran = "started" /\ r.lost = q.lost /\ IsJob(t)
             /\ failed' = failed /\ at' = at /\ serial' = serial /\ exit' = exit
          \/ /\ r.result = "ok" /\ r.ran = "worked" /\ r.lost = q.lost /\ w.gen # "old" /\ ~ w.faulty
             /\ failed' = failed /\ at' = at /\ serial' = serial /\ exit' = exit
          \/ /\ r.result = "failed" /\ Failure(r) /\ r.lost \in {"setup", "begin", "switch"}
             /\ r.ran \in {"no", "failed"} /\ failed' = TRUE
             /\ \/ at # "single" /\ at' = at /\ serial' = serial /\ exit' = exit
                \/ at = "single" /\ at' = "off" /\ serial' = NoSerial /\ exit' = "failed"

(* What was asked for stays what was asked for. *)
LEMMA AskedStays == ASSUME opt' = opt PROVE Asked' = Asked
BY DEF Asked, Systems, Homes, Selected

(* The reports after such a step. *)
LEMMA JobReports ==
    ASSUME Typed, Reports, Typed', NEW t \in Target, JobStep(t)
    PROVE  Reports'
<1> USE DEF Result
<1>1. Asked' = Asked
  BY AskedStays DEF JobStep
<1>2. t \in Asked /\ st[t].report.built = "yes"
  BY DEF JobStep, Ready
<1>3. failed => failed'
  BY DEF JobStep, Typed
<1>4. ASSUME NEW s \in Target, s # t
      PROVE  /\ Reported(st'[s].report, st'[s].world)
             /\ st'[s].report.result = "unchanged" => Current(s)'
             /\ st'[s].report.result # "-" \/ st'[s].report.evaluation # "none" => s \in Asked'
             /\ st'[s].report.result = "failed" => failed'
  <2>1. st'[s] = st[s]
    BY <1>4 DEF JobStep
  <2> QED BY <1>1, <1>3, <2>1 DEF Reports, Current
<1>5. /\ Reported(st'[t].report, st'[t].world)
      /\ st'[t].report.result # "unchanged"
      /\ st'[t].report.result = "failed" => failed'
  <2> DEFINE q == st[t].report  r == st'[t].report  w == st'[t].world
  <2>1. Reported(q, st[t].world) /\ q.built = "yes" /\ q.result = "-"
    BY <1>2 DEF Reports, JobStep
  <2>2. /\ r.evaluation = q.evaluation /\ r.built = q.built /\ ~ r.gate /\ (w.faulty => w.mark)
        /\ \/ r.result = "-" /\ r.ran = "started" /\ r.lost = q.lost
           \/ r.result = "ok" /\ r.ran = "worked" /\ r.lost = q.lost /\ w.gen # "old" /\ ~ w.faulty
           \/ r.result = "failed" /\ Failure(r) /\ r.ran \in {"no", "failed"} /\ failed'
    BY DEF JobStep
  <2> HIDE DEF q, r, w
  <2>3. q.lost = "none" /\ q.evaluation = "ok"
    BY <2>1 DEF Reported
  <2>4. /\ Reported(r, w) /\ r.result # "unchanged" /\ (r.result = "failed" => failed')
    <3>1. r.evaluation = "ok" /\ r.built = "yes" /\ ~ r.gate /\ (w.faulty => w.mark)
      BY <2>1, <2>2, <2>3
    <3>2. CASE r.result = "-" BY <2>2, <2>3, <3>1, <3>2 DEF Reported
    <3>3. CASE r.result = "ok" BY <2>2, <2>3, <3>1, <3>3 DEF Reported
    <3>4. CASE r.result = "failed" BY <2>2, <3>1, <3>4 DEF Reported
    <3> QED BY <2>2, <3>2, <3>3, <3>4
  <2> QED BY <2>4 DEF r, w
<1> QED
  BY <1>1, <1>2, <1>4, <1>5 DEF Reports

(* How far the targets are. *)
LEMMA JobLate ==
    ASSUME Settings, Typed, Reports, Late, NEW t \in Target, JobStep(t)
    PROVE  Early' /\ Late'
<1> USE DEF Result
<1>1. Asked' = Asked /\ opt' = opt
  BY AskedStays DEF JobStep
<1>2. at \in Fleet \cup {"single"} /\ at' \notin Before /\ (at' = at \/ at' = "off")
  BY DEF JobStep, Fleet, Before
<1>3. t \in Asked /\ st[t].report.built = "yes" /\ st[t].report.evaluation = st'[t].report.evaluation
      /\ st'[t].report.built = "yes" /\ st[t].report.evaluation = "ok"
  BY DEF JobStep, Ready, Reports, Reported
<1>4. Early'
  BY <1>2 DEF Early, Before
<1>5. CASE at' = "off"
  BY <1>4, <1>5 DEF Late, Fleet
<1>6. CASE at' = at
  <2>1. serial' = serial /\ serial.step = "none"
    BY <1>2, <1>6 DEF JobStep, Fleet
  <2>2. \A s \in Target : s # t => st'[s] = st[s] /\ Busy(s)' = Busy(s)
    <3>1. \A s \in Target : s # t => st'[s] = st[s]
      BY DEF JobStep
    <3> QED BY <1>6, <2>1, <3>1 DEF Busy, IsJob, Turn
  <2>3. /\ st'[t].report.result \in {"-", "failed", "ok"}
        /\ st'[t].report.lost \notin {"evaluate", "build"}
        /\ st'[t].report.result = "-" => Busy(t)'
    <3>1. st[t].report.lost = "none"
      BY DEF JobStep, Reports, Reported
    <3>2. st'[t].report.lost \notin {"evaluate", "build"} /\ st'[t].report.result \in {"-", "failed", "ok"}
      BY <3>1 DEF JobStep
    <3>3. ASSUME st'[t].report.result = "-" PROVE Busy(t)'
      <4>1. IsJob(t) /\ st'[t].report.ran = "started"
        BY <3>3 DEF JobStep
      <4> QED BY <1>6, <4>1 DEF Busy, IsJob
    <3> QED BY <3>2, <3>3
  <2>4. /\ opt.only = "none" /\ (at = "single" <=> opt.host # 0)
        /\ \A s \in Asked : Result(s) = "-" => st[s].report.built = "yes"
        /\ \A s \in Asked : Result(s) # "-" \/ st[s].report.evaluation # "none"
        /\ \A s \in Target :
              /\ Result(s) \in {"-", "skipped", "failed", "unchanged", "ok"}
              /\ at = "single" => Result(s) # "skipped" /\ st[s].report.lost \notin {"evaluate", "build"}
              /\ Result(s) = "-" => Untouched(st[s].report) \/ Busy(s)
    BY <1>2 DEF Late
  <2>5. Asked \subseteq Target
    BY DEF Asked, Selected
  <2>6. \A s \in Asked : /\ st'[s].report.result = "-" => st'[s].report.built = "yes"
                         /\ st'[s].report.result # "-" \/ st'[s].report.evaluation # "none"
    BY <1>3, <2>2, <2>4, <2>5
  <2>7. \A s \in Target :
              /\ st'[s].report.result \in {"-", "skipped", "failed", "unchanged", "ok"}
              /\ at = "single" => st'[s].report.result # "skipped" /\ st'[s].report.lost \notin {"evaluate", "build"}
              /\ st'[s].report.result = "-" => Untouched(st'[s].report) \/ Busy(s)'
    <3> TAKE s \in Target
    <3>1. CASE s = t BY <2>3, <3>1
    <3>2. CASE s # t BY <2>2, <2>4, <3>2
    <3> QED BY <3>1, <3>2
  <2> QED
    BY <1>1, <1>4, <1>6, <2>4, <2>6, <2>7 DEF Late
<1> QED BY <1>2, <1>5, <1>6

(* The verdict. *)
LEMMA JobVerdict ==
    ASSUME Settings, Typed, Verdict, Rollout, NEW t \in Target, JobStep(t)
    PROVE  Verdict'
<1> USE DEF Result
<1>1. \A s \in Target : InGroup(s) => st'[s] = st[s] /\ InGroup(s)' = InGroup(s)
  BY DEF JobStep, InGroup
<1>2. at # "off" /\ exit = "none" /\ exit' \in {"none", "failed"} /\ (exit' # "none" => at' = "off")
  BY DEF JobStep, Verdict
<1>3. failed => failed'
  BY DEF JobStep, Typed
<1>4. at' # "off" => serial' = serial /\ (at' = "single" => failed' = failed) /\ at' = at
  BY DEF JobStep
<1>5. SuccessIsComplete'
  BY <1>2 DEF SuccessIsComplete
<1>6. at' # "off" => \A s \in Target : InGroup(s)' /\ st'[s].report.result = "skipped" => failed' \/ serial'.failure
  BY <1>1, <1>2, <1>3, <1>4 DEF Verdict, InGroup
<1> QED
  BY <1>2, <1>4, <1>5, <1>6 DEF Verdict

\* No step puts a target back among those that wait.
Shrinks == \A s \in Target : st'[s].report.result = "-" /\ st'[s].report.built = "yes" =>
                             st[s].report.result = "-" /\ st[s].report.built = "yes"

(* So what waits after a step waited before it. *)
LEMMA WaitingShrinks ==
    ASSUME opt' = opt, Shrinks
    PROVE  Waiting("system")' \subseteq Waiting("system")
<1>1. Asked' = Asked
  BY AskedStays
<1>2. Asked \subseteq Target
  BY DEF Asked, Selected
<1> QED
  BY <1>1, <1>2 DEF Shrinks, Waiting, Ready, Result

(* The systems that are left. *)
LEMMA JobLeft ==
    ASSUME Typed, Left, NEW t \in Target, JobStep(t)
    PROVE  Left'
<1>1. Shrinks /\ opt' = opt
  BY DEF JobStep, Shrinks, Ready, Result
<1>2. Waiting("system")' \subseteq Waiting("system")
  BY <1>1, WaitingShrinks
<1>3. at' # "group" /\ (at' = at \/ at' = "off")
  BY DEF JobStep
<1>4. \A s : InGroup(s)' = InGroup(s)
  BY DEF InGroup
<1> QED
  BY <1>2, <1>3, <1>4 DEF Left

(* The rollout. *)
LEMMA JobRollout ==
    ASSUME Settings, Typed, Rollout, NEW t \in Target, JobStep(t)
    PROVE  Rollout'
<1>1. CASE at' = at /\ serial' = serial
  BY <1>1 DEF JobStep, Rollout, Switching
<1>2. CASE at' = "off" /\ serial' = NoSerial
  BY <1>2 DEF Rollout, Switching, NoSerial
<1> QED BY <1>1, <1>2 DEF JobStep

(* A member of a group is in one. *)
LEMMA MembersAreInGroup ==
    ASSUME NEW i \in DOMAIN SerialGroups, NEW t \in MembersOf(i)
    PROVE  t \in Target /\ InGroup(t) /\ t[1] = "system" /\ i \in Group(t[2])
BY DEF MembersOf, InGroup, Group

(* A step that leaves what is kept of the members leaves their turns, at work *)
(* or once the groups are done.                                               *)
LEMMA TurnsStay ==
    ASSUME Settings, Typed, Rollout, Turns, blocked' = blocked,
           \A s \in Target : InGroup(s) => st'[s].report = st[s].report,
           (serial' = serial /\ at' = at) \/ (serial' = NoSerial /\ at' \in {"off", "homes"})
    PROVE  Turns'
<1> USE DEF Result, Half
<1>1. \A i \in DOMAIN SerialGroups : \A s \in MembersOf(i) : st'[s].report = st[s].report
  BY MembersAreInGroup
<1>2. \A i : MembersOf(i)' = MembersOf(i)
  BY DEF MembersOf
<1>3. /\ \A i \in DOMAIN SerialGroups : \A t, s \in MembersOf(i) :
            /\ Half(t)' /\ Half(s)' => t = s
            /\ i \in Gated /\ st'[t].report.ran = "started" /\ s # t => st'[s].report.seen
      /\ \A i \in blocked : \A t \in MembersOf(i) : st'[t].report.ran = "no"
  BY <1>1 DEF Turns, Typed
<1>4. CASE serial' = NoSerial /\ at' \in {"off", "homes"}
  BY <1>2, <1>3, <1>4 DEF Turns, NoSerial
<1>5. CASE serial' = serial /\ at' = at
  <2>1. at' \in {"support", "jobs", "terminal"} => \A t \in Target : InGroup(t) => st'[t].report.ran = "no"
    BY <1>5 DEF Turns
  <2>2. at' = "group" => \A t \in Target : \A i \in Group(t[2]) :
            InGroup(t) /\ i > serial'.group => st'[t].report.ran = "no"
    BY <1>5 DEF Turns
  <2>3. serial.step # "none" => serial.group \in DOMAIN SerialGroups
    BY DEF Rollout
  <2>4. serial.step # "none" => \A s \in MembersOf(serial.group) : st'[s].report = st[s].report
    BY <1>1, <2>3
  <2> QED
    BY <1>2, <1>3, <1>5, <2>1, <2>2, <2>4 DEF Turns, InGroup, Group, Turn
<1> QED BY <1>4, <1>5

(* The turns of the members. *)
LEMMA JobTurns ==
    ASSUME Settings, Typed, Rollout, Turns, NEW t \in Target, JobStep(t)
    PROVE  Turns'
<1>1. \A s \in Target : InGroup(s) => st'[s].report = st[s].report
  BY DEF JobStep
<1> QED BY <1>1, TurnsStay DEF JobStep

(* What is activated was built. *)
LEMMA JobUntouched ==
    ASSUME Settings, Typed, Reports, Late, UntouchedUnlessBuilt, NEW t \in Target, JobStep(t)
    PROVE  UntouchedUnlessBuilt'
<1> USE DEF Result
<1>1. Asked' = Asked /\ opt' = opt /\ Asked \subseteq Target
  BY AskedStays DEF JobStep, Asked, Selected
<1>2. st'[t].report.built = "yes" /\ \A s \in Target : s # t => st'[s] = st[s]
  BY DEF JobStep, Ready
<1>3. opt.host # 0 => \A s \in Target : st'[s].report.lost \notin {"evaluate", "build"}
  <2>1. ASSUME opt.host # 0 PROVE at = "single"
    BY <2>1 DEF JobStep, Late, Fleet
  <2>2. st[t].report.lost = "none"
    BY DEF JobStep, Reports, Reported
  <2>3. st'[t].report.lost \notin {"evaluate", "build"}
    BY <2>2 DEF JobStep
  <2> QED BY <1>2, <2>1, <2>3 DEF Late
<1> QED
  BY <1>1, <1>2, <1>3 DEF UntouchedUnlessBuilt

(* One target's entry is replaced. *)
LEMMA Replaced ==
    ASSUME Typed, NEW t \in Target, NEW e \in TargetState, st' = [st EXCEPT ![t] = e]
    PROVE  /\ st' \in [Target -> TargetState] /\ st'[t] = e
           /\ \A s \in Target : s # t => st'[s] = st[s]
BY DEF Typed

(* No group at work is a state of the rollout. *)
LEMMA NoSerialTyped == ASSUME Settings PROVE NoSerial \in SerialState
BY DEF Settings, NoSerial, SerialState

(* A failure is counted. *)
LEMMA Counted ==
    ASSUME Settings, Typed, NEW ok, Fails(ok)
    PROVE  trouble' \in 0 .. MaxTrouble
BY DEF Fails, Trouble, Typed, Settings

(* What is ready was asked for, evaluated and built. *)
LEMMA ReadyIs ==
    ASSUME Typed, Reports, NEW t \in Ready
    PROVE  /\ t \in Target /\ t \in Asked /\ st[t] \in TargetState
           /\ st[t].report \in ReportState /\ st[t].world \in WorldState
           /\ st[t].report.built = "yes" /\ st[t].report.evaluation = "ok"
           /\ Reported(st[t].report, st[t].world)
<1>1. t \in Target /\ t \in Asked /\ st[t].report.built = "yes"
  BY DEF Ready, Asked, Selected
<1>2. st[t] \in TargetState
  BY <1>1 DEF Typed
<1> QED BY <1>1, <1>2, EntryParts DEF Reports, Reported

(* A target that waits for its own step is untouched. *)
LEMMA WaitsUntouched ==
    ASSUME Typed, Reports, Late, Rollout, NEW t \in Ready, Result(t) = "-", ~ InGroup(t),
           at \in Fleet \cup {"single"}, serial.step = "none",
           st[t].report.ran = "no" \/ ~ IsJob(t)
    PROVE  Untouched(st[t].report)
<1>1. t \in Target
  BY ReadyIs
<1>2. ~ Busy(t)
  BY DEF Busy, Switching
<1> QED BY <1>1, <1>2 DEF Late

(* A job's begin is a target's own step. *)
LEMMA BeginJobIs ==
    ASSUME Settings, Inv, NEW t \in Ready, NEW ok \in BOOLEAN, BeginJob(t, ok)
    PROVE  JobStep(t) /\ Typed'
<1> USE DEF Result
<1>1. /\ Typed /\ Reports /\ Late /\ Rollout /\ t \in Target
      /\ at \in {"jobs", "homes"} /\ IsJob(t) /\ st[t].report.result = "-" /\ st[t].report.ran = "no"
      /\ UNCHANGED <<opt, at, serial, blocked, exit, warned, runs>>
  BY ReadyIs DEF Inv, BeginJob, Jobs
<1>2. serial.step = "none" /\ serial = NoSerial
  BY <1>1 DEF Rollout, NoSerial
<1>3. ~ InGroup(t)
  BY <1>1, TargetIs DEF IsJob, InGroup
<1>4. Untouched(st[t].report)
  BY <1>1, <1>2, <1>3, WaitsUntouched DEF Fleet
<1> DEFINE q == st[t].report
<1>5. /\ q \in ReportState /\ st[t].world \in WorldState /\ st[t] \in TargetState
      /\ q.built = "yes" /\ q.evaluation = "ok" /\ Reported(q, st[t].world)
  BY <1>1, ReadyIs
<1>6. trouble' \in 0 .. MaxTrouble
  BY <1>1, Counted DEF BeginJob
<1>7. CASE ok
  <2> DEFINE e == [Started(t) EXCEPT !.report.log = TRUE]
             r == [q EXCEPT !.ran = "started", !.log = TRUE]
             w == [st[t].world EXCEPT !.mark = TRUE, !.faulty = TRUE]
  <2>1. r \in ReportState /\ w \in WorldState
    BY <1>5 DEF ReportState, WorldState
  <2>2. e.report = r /\ e.world = w /\ e \in TargetState
    BY <1>1, <1>5, <2>1, StartedIs DEF TargetState
  <2>3. st' = [st EXCEPT ![t] = e] /\ failed' = failed
    BY <1>7 DEF BeginJob
  <2>4. /\ r.evaluation = q.evaluation /\ r.built = q.built /\ ~ r.gate /\ r.result = "-"
        /\ r.ran = "started" /\ r.lost = q.lost /\ w.mark
    BY <1>1, <1>4, <1>5 DEF ReportState, WorldState, Untouched
  <2> HIDE DEF e, r, w, q
  <2>5. /\ st' \in [Target -> TargetState] /\ st'[t].report = r /\ st'[t].world = w
        /\ \A s \in Target : s # t => st'[s] = st[s]
    BY <1>1, <2>2, <2>3, Replaced
  <2>6. JobStep(t)
    BY <1>1, <1>2, <1>3, <2>3, <2>4, <2>5 DEF JobStep, q
  <2> QED BY <1>1, <1>6, <2>3, <2>5, <2>6 DEF Typed
<1>8. CASE ~ ok
  <2> DEFINE r == [q EXCEPT !.result = "failed", !.lost = "begin", !.seconds = TRUE]
             e == [st[t] EXCEPT !.report = r]
  <2>1. r \in ReportState
    BY <1>5 DEF ReportState
  <2>2. e.report = r /\ e.world = st[t].world /\ e \in TargetState
    BY <1>5, <2>1 DEF TargetState
  <2>3. st' = [st EXCEPT ![t] = e] /\ failed' = TRUE
    BY <1>8 DEF BeginJob
  <2>4. /\ r.evaluation = q.evaluation /\ r.built = q.built /\ ~ r.gate /\ r.result = "failed"
        /\ r.ran = "no" /\ r.lost = "begin" /\ ~ r.log
    BY <1>1, <1>4, <1>5 DEF ReportState, Untouched
  <2> HIDE DEF e, r, q
  <2>5. /\ st' \in [Target -> TargetState] /\ st'[t].report = r /\ st'[t].world = st[t].world
        /\ \A s \in Target : s # t => st'[s] = st[s]
    BY <1>1, <2>2, <2>3, Replaced
  <2>6. Failure(r)
    BY <1>5, <2>4 DEF Failure
  <2>7. JobStep(t)
    BY <1>1, <1>2, <1>3, <1>5, <2>3, <2>4, <2>5, <2>6 DEF JobStep, q, Reported
  <2> QED BY <1>1, <1>6, <2>3, <2>5, <2>7 DEF Typed
<1> QED BY <1>7, <1>8

(* The end of a command, as it is kept. *)
LEMMA SettledRan ==
    ASSUME NEW s, NEW t, s[t] \in TargetState, NEW o \in OutcomeState, o.worked => o.gen # "old"
    PROVE  LET e == Settled(Ran(s, t, o), o.worked)
               q == s[t].report
           IN  /\ e \in TargetState /\ e.report \in ReportState /\ e.world \in WorldState
               /\ e.world.gen = o.gen /\ (e.world.faulty => s[t].world.faulty)
               /\ (e.world.mark <=> s[t].world.mark /\ ~ o.worked)
               /\ (e.world.faulty <=> s[t].world.faulty /\ ~ o.worked)
               /\ e.report.evaluation = q.evaluation /\ e.report.built = q.built
               /\ e.report.gate = q.gate /\ e.report.log = q.log /\ e.report.seconds = q.seconds
               /\ e.report.seen = q.seen
               /\ e.report.ran = (IF o.worked THEN "worked" ELSE "failed")
               /\ e.report.result = (IF o.worked THEN "ok" ELSE "failed")
               /\ e.report.lost = (IF o.worked THEN q.lost ELSE "switch")
<1> DEFINE f == Ran(s, t, o)
           e == Settled(f, o.worked)
           q == s[t].report
<1>1. /\ f \in TargetState
      /\ f.world = [s[t].world EXCEPT !.gen = o.gen]
      /\ f.report = [q EXCEPT !.ran = IF o.worked THEN "worked" ELSE "failed"]
  BY RanIs
<1>2. q \in ReportState /\ s[t].world \in WorldState
  BY EntryParts
<1>3. o.worked \in BOOLEAN /\ o.gen \in {"old", "staged", "new"}
  BY DEF OutcomeState
<1>4. /\ f.report.ran = (IF o.worked THEN "worked" ELSE "failed") /\ f.world.gen = o.gen
      /\ f.report.evaluation = q.evaluation /\ f.report.built = q.built /\ f.report.gate = q.gate
      /\ f.report.log = q.log /\ f.report.seconds = q.seconds /\ f.report.seen = q.seen
      /\ f.report.lost = q.lost /\ f.world.mark = s[t].world.mark /\ f.world.faulty = s[t].world.faulty
  BY <1>1, <1>2 DEF ReportState, WorldState
<1> HIDE DEF f, q
<1>5. /\ e \in TargetState
      /\ e.world = [f.world EXCEPT !.mark = f.world.mark /\ ~ o.worked,
                                   !.faulty = f.world.faulty /\ ~ o.worked]
      /\ e.report = [f.report EXCEPT !.result = IF o.worked THEN "ok" ELSE "failed",
                                     !.lost = IF o.worked THEN f.report.lost ELSE "switch"]
  BY <1>1, <1>3, SettledIs
<1>6. f.report \in ReportState /\ f.world \in WorldState
  BY <1>1, EntryParts
<1>7. e.report \in ReportState /\ e.world \in WorldState
  BY <1>5, EntryParts
<1> HIDE DEF e
<1>8. /\ e.report.ran = f.report.ran
      /\ e.report.evaluation = f.report.evaluation /\ e.report.built = f.report.built
      /\ e.report.gate = f.report.gate /\ e.report.log = f.report.log
      /\ e.report.seconds = f.report.seconds /\ e.report.seen = f.report.seen
      /\ e.report.result = (IF o.worked THEN "ok" ELSE "failed")
      /\ e.report.lost = (IF o.worked THEN f.report.lost ELSE "switch")
  BY <1>5, <1>6 DEF ReportState
<1>9. /\ e.world.gen = f.world.gen
      /\ e.world.mark = (f.world.mark /\ ~ o.worked) /\ e.world.faulty = (f.world.faulty /\ ~ o.worked)
  BY <1>5, <1>6 DEF WorldState
<1> USE DEF q
<1>10. /\ (e.world.mark <=> s[t].world.mark /\ ~ o.worked)
       /\ (e.world.faulty <=> s[t].world.faulty /\ ~ o.worked)
  BY <1>4, <1>9
<1> QED
  <2>1. /\ e.report.evaluation = q.evaluation /\ e.report.built = q.built
        /\ e.report.gate = q.gate /\ e.report.log = q.log /\ e.report.seconds = q.seconds
        /\ e.report.seen = q.seen
        /\ e.report.ran = (IF o.worked THEN "worked" ELSE "failed")
        /\ e.report.result = (IF o.worked THEN "ok" ELSE "failed")
        /\ e.report.lost = (IF o.worked THEN q.lost ELSE "switch")
    BY <1>4, <1>8
  <2> QED BY <1>4, <1>5, <1>7, <1>9, <1>10, <2>1 DEF e, f

(* A job's end is a target's own step. *)
LEMMA EndJobIs ==
    ASSUME Settings, Inv, NEW t \in Ready, NEW o, EndJob(t, o)
    PROVE  JobStep(t) /\ Typed'
<1> USE DEF Result
<1>1. /\ Typed /\ Reports /\ Late /\ Rollout /\ t \in Target
      /\ at \in {"jobs", "homes"} /\ IsJob(t) /\ st[t].report.ran = "started" /\ o \in Outcomes(t)
      /\ UNCHANGED <<opt, at, serial, blocked, exit, warned, runs>>
  BY ReadyIs DEF Inv, EndJob, Jobs, IsJob
<1>2. serial.step = "none" /\ serial = NoSerial
  BY <1>1 DEF Rollout, NoSerial
<1>3. ~ InGroup(t)
  BY <1>1, TargetIs DEF IsJob, InGroup
<1> DEFINE q == st[t].report
           f == Settled(Ran(st, t, o), o.worked)
           r == [f.report EXCEPT !.seconds = TRUE]
           e == [f EXCEPT !.report.seconds = TRUE]
<1>4. /\ q \in ReportState /\ st[t].world \in WorldState /\ st[t] \in TargetState
      /\ q.built = "yes" /\ q.evaluation = "ok" /\ Reported(q, st[t].world)
  BY <1>1, ReadyIs
<1>5. q.result = "-" /\ ~ q.gate /\ q.lost = "none" /\ (st[t].world.faulty => st[t].world.mark)
  BY <1>1, <1>4 DEF Reported
<1>6. trouble' \in 0 .. MaxTrouble
  BY <1>1, Counted DEF EndJob
<1>7. o \in OutcomeState /\ (o.worked => o.gen # "old") /\ o.worked \in BOOLEAN
  BY <1>1, OutcomeIs DEF OutcomeState
<1>8. /\ f \in TargetState /\ f.report \in ReportState /\ f.world \in WorldState
      /\ f.world.gen = o.gen /\ (f.world.mark <=> st[t].world.mark /\ ~ o.worked)
      /\ (f.world.faulty <=> st[t].world.faulty /\ ~ o.worked)
      /\ f.report.evaluation = q.evaluation /\ f.report.built = q.built
      /\ f.report.gate = q.gate
      /\ f.report.ran = (IF o.worked THEN "worked" ELSE "failed")
      /\ f.report.result = (IF o.worked THEN "ok" ELSE "failed")
      /\ f.report.lost = (IF o.worked THEN q.lost ELSE "switch")
  BY <1>4, <1>7, SettledRan
<1>9. st' = [st EXCEPT ![t] = e] /\ failed' = (failed \/ ~ o.worked)
  BY DEF EndJob
<1> HIDE DEF f
<1>10. e \in TargetState /\ e.report = r /\ e.world = f.world
  BY <1>8 DEF TargetState, ReportState
<1>11. /\ r.evaluation = f.report.evaluation /\ r.built = f.report.built /\ r.gate = f.report.gate
       /\ r.ran = f.report.ran /\ r.result = f.report.result /\ r.lost = f.report.lost /\ r.seconds
  BY <1>8 DEF ReportState
<1> HIDE DEF e, r, q
<1>12. /\ st' \in [Target -> TargetState] /\ st'[t].report = r /\ st'[t].world = f.world
       /\ \A s \in Target : s # t => st'[s] = st[s]
  BY <1>1, <1>9, <1>10, Replaced
<1>13. /\ r.evaluation = q.evaluation /\ r.built = q.built /\ ~ r.gate
       /\ (f.world.faulty => f.world.mark)
  BY <1>5, <1>8, <1>11
<1>14. ASSUME o.worked PROVE JobStep(t)
  <2>1. /\ r.result = "ok" /\ r.ran = "worked" /\ r.lost = q.lost /\ f.world.gen # "old"
        /\ ~ f.world.faulty
    BY <1>7, <1>8, <1>11, <1>14
  <2>2. failed' = failed
    BY <1>1, <1>9, <1>14 DEF Typed
  <2> QED BY <1>1, <1>2, <1>3, <1>5, <1>12, <1>13, <2>1, <2>2 DEF JobStep, q
<1>15. ASSUME ~ o.worked PROVE JobStep(t)
  <2>1. r.result = "failed" /\ r.ran = "failed" /\ r.lost = "switch" /\ r.seconds /\ failed' = TRUE
    BY <1>7, <1>8, <1>9, <1>11, <1>15
  <2>2. Failure(r)
    BY <1>4, <1>13, <2>1 DEF Failure
  <2> QED BY <1>1, <1>2, <1>3, <1>5, <1>12, <1>13, <2>1, <2>2 DEF JobStep, q
<1>16. failed' \in BOOLEAN
  BY <1>1, <1>7, <1>9 DEF Typed
<1> QED BY <1>1, <1>6, <1>12, <1>14, <1>15, <1>16 DEF Typed

\* What a failed step leaves of a report.
Lost(r, step) == [r EXCEPT !.result = "failed", !.lost = step]

(* A report with a failed step. *)
LEMMA LostIs ==
    ASSUME NEW r \in ReportState, NEW step \in {"setup", "begin", "start", "ended", "switch", "gate", "release"}
    PROVE  /\ Lost(r, step) \in ReportState /\ Lost(r, step).result = "failed" /\ Lost(r, step).lost = step
           /\ Lost(r, step).evaluation = r.evaluation /\ Lost(r, step).built = r.built
           /\ Lost(r, step).log = r.log /\ Lost(r, step).seconds = r.seconds
           /\ Lost(r, step).gate = r.gate /\ Lost(r, step).ran = r.ran /\ Lost(r, step).seen = r.seen
BY DEF Lost, ReportState

(* Some targets fail at a step. *)
LEMMA FailingIs ==
    ASSUME Typed, NEW S \in SUBSET Target, NEW step \in {"setup", "begin", "release"}
    PROVE  /\ Failing(S, step) \in [Target -> TargetState]
           /\ \A t \in Target \ S : Failing(S, step)[t] = st[t]
           /\ \A t \in S : /\ Failing(S, step)[t].report = Lost(st[t].report, step)
                           /\ Failing(S, step)[t].world = st[t].world
<1> DEFINE e(t) == [st[t] EXCEPT !.report = Lost(st[t].report, step)]
<1>1. Failing(S, step) = [t \in Target |-> IF t \in S THEN e(t) ELSE st[t]]
  BY DEF Failing, Report, Lost
<1>2. ASSUME NEW t \in Target
      PROVE  /\ e(t) \in TargetState /\ e(t).report = Lost(st[t].report, step) /\ e(t).world = st[t].world
             /\ st[t] \in TargetState
  <2>1. st[t] \in TargetState
    BY DEF Typed
  <2>2. Lost(st[t].report, step) \in ReportState
    BY <2>1, EntryParts, LostIs
  <2> QED BY <2>1, <2>2 DEF TargetState
<1> HIDE DEF e
<1> QED BY <1>1, <1>2

(* The target whose turn it is to be switched with the terminal. *)
LEMMA PlainIs ==
    ASSUME Settings, Typed, Rollout, Plain # {}
    PROVE  /\ First(Plain) \in Ready /\ ~ InGroup(First(Plain)) /\ Result(First(Plain)) = "-"
           /\ at \in {"terminal", "single"} /\ serial.step = "none"
           /\ First(Plain) \in Target
<1>1. /\ at \in {"terminal", "single"} /\ serial.step = "none"
      /\ \A t \in Plain : t \in Ready /\ ~ InGroup(t) /\ Result(t) = "-"
  <2>1. CASE at = "terminal"
    BY <2>1 DEF Plain, Asking, Waiting, InGroup, Rollout, NoSerial
  <2>2. CASE at = "single"
    BY <2>2 DEF Plain, Waiting, InGroup
  <2>3. at \in {"terminal", "single"}
    BY DEF Plain
  <2> QED BY <2>1, <2>2, <2>3
<1>2. Plain \subseteq Target
  BY <1>1 DEF Ready, Asked, Selected
<1>3. First(Plain) \in Plain
  BY <1>2, FirstOf
<1> QED BY <1>1, <1>2, <1>3

(* A switch with the terminal is a target's own step. *)
LEMMA SwitchIs ==
    ASSUME Settings, Inv, NEW t, NEW o, NEW step \in {"setup", "begin", "switch"}, Switch(t, step, o)
    PROVE  JobStep(t) /\ Typed' /\ t \in Target
<1> USE DEF Result
<1>1. Typed /\ Reports /\ Late /\ Rollout /\ t = First(Plain) /\ Plain # {}
  BY DEF Inv, Switch
<1>2. /\ t \in Ready /\ ~ InGroup(t) /\ st[t].report.result = "-" /\ t \in Target
      /\ at \in {"terminal", "single"} /\ serial.step = "none"
  BY <1>1, PlainIs
<1>3. ~ IsJob(t)
  BY <1>2 DEF IsJob
<1>4. Untouched(st[t].report)
  BY <1>1, <1>2, <1>3, WaitsUntouched DEF Fleet
<1> DEFINE q == st[t].report
           b == [st EXCEPT ![t] = Started(t)]
           f == Settled(Ran(b, t, o), o.worked)
           d == [f EXCEPT !.report.seconds = TRUE, !.report.log = ReadsOutput(t)]
           e == IF step = "setup" \/ step = "begin" THEN Failing({t}, step)[t] ELSE d
           ok == e.report.result = "ok"
<1>5. /\ q \in ReportState /\ st[t].world \in WorldState /\ st[t] \in TargetState
      /\ q.built = "yes" /\ q.evaluation = "ok" /\ Reported(q, st[t].world)
  BY <1>1, <1>2, ReadyIs
<1>6. q.result = "-" /\ ~ q.gate /\ q.lost = "none" /\ (st[t].world.faulty => st[t].world.mark)
  BY <1>2, <1>5 DEF Reported
<1>7. /\ st' = [st EXCEPT ![t] = e] /\ failed' = (failed \/ ~ ok) /\ o \in Outcomes(t) /\ Fails(ok)
      /\ IF at = "single" /\ ~ ok THEN at' = "off" /\ exit' = "failed" /\ serial' = NoSerial
         ELSE UNCHANGED <<at, serial, exit>>
      /\ UNCHANGED <<opt, blocked, runs>>
  BY DEF Switch, Over
<1>8. o \in OutcomeState /\ (o.worked => o.gen # "old") /\ o.worked \in BOOLEAN
  BY <1>1, <1>2, <1>7, OutcomeIs DEF OutcomeState
<1>9. /\ e \in TargetState
      /\ e.report.evaluation = q.evaluation /\ e.report.built = q.built /\ ~ e.report.gate
      /\ e.world.faulty => e.world.mark
      /\ \/ /\ e.report.result = "ok" /\ e.report.ran = "worked" /\ e.report.lost = q.lost
            /\ e.world.gen # "old" /\ ~ e.world.faulty
         \/ /\ e.report.result = "failed" /\ e.report.lost \in {"setup", "begin", "switch"}
            /\ e.report.ran \in {"no", "failed"} /\ Failure(e.report)
  <2>1. CASE step \in {"setup", "begin"}
    <3>1. /\ e.report = Lost(q, step) /\ e.world = st[t].world /\ e \in TargetState
      BY <1>1, <1>2, <2>1, FailingIs
    <3>2. /\ e.report.result = "failed" /\ e.report.lost = step /\ e.report.evaluation = q.evaluation
          /\ e.report.built = q.built /\ e.report.log = q.log /\ e.report.seconds = q.seconds
          /\ e.report.gate = q.gate /\ e.report.ran = q.ran
      <4> HIDE DEF e, q
      <4> QED BY <1>5, <2>1, <3>1, LostIs
    <3> HIDE DEF e
    <3>3. Failure(e.report)
      BY <1>4, <1>5, <2>1, <3>2 DEF Failure, Untouched
    <3> QED BY <1>4, <1>6, <2>1, <3>1, <3>2, <3>3 DEF Untouched
  <2>2. CASE step = "switch"
    <3>1. /\ Started(t) \in TargetState
          /\ Started(t).world = [st[t].world EXCEPT !.mark = TRUE, !.faulty = TRUE]
          /\ Started(t).report = [q EXCEPT !.ran = "started"]
      BY <1>1, <1>2, StartedIs
    <3>2. b[t] = Started(t)
      BY <1>1, <1>2 DEF Typed
    <3> HIDE DEF b
    <3>3. /\ f \in TargetState /\ f.report \in ReportState /\ f.world \in WorldState
          /\ f.world.gen = o.gen /\ (f.world.mark <=> b[t].world.mark /\ ~ o.worked)
          /\ (f.world.faulty <=> b[t].world.faulty /\ ~ o.worked)
          /\ f.report.evaluation = b[t].report.evaluation /\ f.report.built = b[t].report.built
          /\ f.report.gate = b[t].report.gate
          /\ f.report.ran = (IF o.worked THEN "worked" ELSE "failed")
          /\ f.report.result = (IF o.worked THEN "ok" ELSE "failed")
          /\ f.report.lost = (IF o.worked THEN b[t].report.lost ELSE "switch")
      BY <1>8, <3>1, <3>2, SettledRan
    <3>4. /\ b[t].world.mark /\ b[t].world.faulty
          /\ b[t].report.evaluation = q.evaluation /\ b[t].report.built = q.built
          /\ b[t].report.gate = q.gate /\ b[t].report.lost = q.lost
      <4>1. b[t].world.mark /\ b[t].world.faulty
        BY <1>5, <3>1, <3>2 DEF WorldState
      <4>2. /\ b[t].report.evaluation = q.evaluation /\ b[t].report.built = q.built
            /\ b[t].report.gate = q.gate /\ b[t].report.lost = q.lost
        <5> HIDE DEF q
        <5> QED BY <1>5, <3>1, <3>2 DEF ReportState
      <4> QED BY <4>1, <4>2
    <3> HIDE DEF f
    <3>5. ReadsOutput(t) \in BOOLEAN
      BY DEF ReadsOutput
    <3>6. /\ d \in TargetState /\ d.world = f.world
          /\ d.report = [f.report EXCEPT !.seconds = TRUE, !.log = ReadsOutput(t)]
      BY <3>3, <3>5 DEF TargetState, ReportState
    <3>7. e = d
      BY <2>2
    <3> HIDE DEF d, e
    <3>8. /\ d.report.evaluation = f.report.evaluation /\ d.report.built = f.report.built
          /\ d.report.gate = f.report.gate /\ d.report.seconds
          /\ d.report.ran = f.report.ran /\ d.report.result = f.report.result
          /\ d.report.lost = f.report.lost
      BY <3>3, <3>6 DEF ReportState
    <3> HIDE DEF q
    <3>9. /\ d.report.evaluation = q.evaluation /\ d.report.built = q.built /\ ~ d.report.gate
          /\ d.world.mark <=> ~ o.worked
          /\ d.world.faulty <=> ~ o.worked
          /\ d.report.ran = (IF o.worked THEN "worked" ELSE "failed")
          /\ d.report.result = (IF o.worked THEN "ok" ELSE "failed")
          /\ d.report.lost = (IF o.worked THEN q.lost ELSE "switch")
          /\ d.world.gen = o.gen
      BY <1>6, <3>3, <3>4, <3>6, <3>8
    <3>10. CASE o.worked
      BY <1>8, <3>6, <3>7, <3>9, <3>10
    <3>11. CASE ~ o.worked
      <4>1. d.report.ran = "failed" /\ d.report.lost = "switch" /\ d.report.result = "failed"
        BY <3>9, <3>11
      <4>2. Failure(d.report)
        BY <1>5, <3>8, <3>9, <4>1 DEF Failure
      <4> QED BY <3>6, <3>7, <3>9, <3>11, <4>1, <4>2
    <3> QED BY <3>10, <3>11
  <2> QED BY <2>1, <2>2
<1>10. trouble' \in 0 .. MaxTrouble
  BY <1>1, <1>7, Counted
<1> HIDE DEF e, q
<1>11. /\ st' \in [Target -> TargetState] /\ st'[t] = e
       /\ \A s \in Target : s # t => st'[s] = st[s]
  BY <1>1, <1>2, <1>7, <1>9, Replaced
<1>12. failed' \in BOOLEAN /\ (ok => failed' = failed) /\ (~ ok => failed' = TRUE)
  BY <1>1, <1>7 DEF Typed
<1>13. JobStep(t)
  <2>1. CASE ok
    BY <1>2, <1>6, <1>7, <1>9, <1>11, <1>12, <2>1 DEF JobStep, q
  <2>2. CASE ~ ok
    BY <1>2, <1>6, <1>7, <1>9, <1>11, <1>12, <2>2 DEF JobStep, q
  <2> QED BY <2>1, <2>2
<1>14. Typed'
  <2>1. serial' \in SerialState /\ at' \in {"off", "single"} \cup Before \cup Fleet
        /\ exit' \in {"none", "ok", "failed", "killed"}
    BY <1>1, <1>7, NoSerialTyped DEF Typed
  <2> QED BY <1>1, <1>7, <1>10, <1>11, <1>12, <2>1 DEF Typed
<1> QED BY <1>2, <1>13, <1>14

(* A target's own step keeps the invariant. *)
LEMMA JobKeeps ==
    ASSUME Settings, Inv, NEW t \in Target, JobStep(t), Typed'
    PROVE  Inv'
BY JobReports, JobLate, JobVerdict, JobLeft, JobRollout, JobTurns, JobUntouched DEF Inv

-----------------------------------------------------------------------------
(* The end of a run, and what comes between its activations *)

(* Nothing is read otherwise where nothing changed. *)
LEMMA ReportsStay ==
    ASSUME Reports, UntouchedUnlessBuilt, st' = st, opt' = opt, failed => failed'
    PROVE  Reports' /\ UntouchedUnlessBuilt'
<1>1. Asked' = Asked
  BY AskedStays
<1> QED BY <1>1 DEF Reports, UntouchedUnlessBuilt, Result, Current

(* The end of a run keeps the invariant, if the exit code is right. *)
LEMMA OverKeeps ==
    ASSUME Settings, Inv, st' = st, opt' = opt, blocked' = blocked, failed => failed',
           at' = "off", serial' = NoSerial, SuccessIsComplete', Typed'
    PROVE  Inv'
<1>1. Reports' /\ UntouchedUnlessBuilt'
  BY ReportsStay DEF Inv
<1>2. Early' /\ Late' /\ Left'
  BY DEF Early, Late, Left, Before, Fleet
<1>3. Verdict' /\ Rollout'
  BY DEF Verdict, Rollout, NoSerial, Switching
<1>4. Turns'
  BY TurnsStay DEF Inv
<1> QED BY <1>1, <1>2, <1>3, <1>4 DEF Inv

(* The end of a run that fails. *)
LEMMA OverFailed ==
    ASSUME Settings, Inv, UNCHANGED <<opt, st, blocked, runs>>, failed' \in BOOLEAN, failed => failed',
           Over("failed"), trouble' \in 0 .. MaxTrouble
    PROVE  Inv'
<1>1. Typed'
  BY NoSerialTyped DEF Inv, Typed, Over
<1>2. SuccessIsComplete'
  BY DEF SuccessIsComplete, Over
<1> QED BY <1>1, <1>2, OverKeeps DEF Over

(* A step of a fleet's run from one kind of activations to the next. *)
LEMMA FleetMoves ==
    ASSUME Settings, Inv, UNCHANGED <<opt, st, blocked, failed, exit, runs>>,
           trouble' \in 0 .. MaxTrouble, at \in Fleet, at' \in Fleet, serial' = NoSerial,
           ~ serial.failure, \A t \in Target : Result(t) = "-" => Untouched(st[t].report),
           Left', Turns'
    PROVE  Inv'
<1> USE DEF Result
<1>1. Reports' /\ UntouchedUnlessBuilt'
  BY ReportsStay DEF Inv
<1>2. Typed'
  BY NoSerialTyped DEF Inv, Typed
<1>3. Early' /\ Rollout'
  BY DEF Early, Rollout, Before, Fleet, NoSerial, Switching
<1>4. at # "single" /\ at' # "single" /\ at \in Fleet \cup {"single"} /\ at # "off" /\ at' # "off"
  BY DEF Fleet
<1>5. Asked' = Asked
  BY AskedStays
<1>6. Late'
  BY <1>4, <1>5 DEF Inv, Late
<1>7. Verdict'
  <2>1. exit' = "none"
    BY <1>4 DEF Inv, Verdict
  <2>2. \A t : InGroup(t)' = InGroup(t)
    BY DEF InGroup
  <2> QED BY <1>4, <2>1, <2>2 DEF Inv, Verdict, SuccessIsComplete
<1> QED BY <1>1, <1>2, <1>3, <1>6, <1>7 DEF Inv

(* The support is there. *)
LEMMA SupportKeeps ==
    ASSUME Settings, Inv, Support(TRUE)
    PROVE  Inv'
<1> USE DEF Result
<1>1. /\ UNCHANGED <<opt, st, blocked, failed, exit, runs, serial>> /\ at = "support" /\ at' = "jobs"
      /\ Fails(TRUE) /\ at \in Fleet /\ at' \in Fleet
  BY DEF Support, Fleet
<1>2. serial = NoSerial /\ ~ serial.failure
  BY <1>1 DEF Inv, Rollout, NoSerial
<1>3. \A t \in Target : Result(t) = "-" => Untouched(st[t].report)
  BY <1>1, <1>2 DEF Inv, Late, Busy, IsJob, NoSerial, Switching
<1>4. Left'
  BY <1>1 DEF Left
<1>5. Turns'
  BY <1>1, <1>2 DEF Inv, Turns, Half, MembersOf, NoSerial, InGroup
<1>6. trouble' \in 0 .. MaxTrouble
  BY <1>1, Counted DEF Inv
<1> QED BY <1>1, <1>2, <1>3, <1>4, <1>5, <1>6, FleetMoves

(* No job is at work once all have ended. *)
LEMMA NoJobIsLeft ==
    ASSUME Settings, Inv, at \in {"jobs", "homes"}, \A t \in Jobs : Result(t) # "-"
    PROVE  /\ \A t \in Target : Result(t) = "-" => Untouched(st[t].report)
           /\ \A t \in Ready : Result(t) = "-" => ~ IsJob(t)
           /\ serial = NoSerial /\ ~ serial.failure
<1> USE DEF Result
<1>1. serial = NoSerial /\ ~ serial.failure /\ serial.step = "none"
  BY DEF Inv, Rollout, NoSerial
<1>2. \A t \in Ready : Result(t) = "-" => ~ IsJob(t)
  BY DEF Jobs
<1>3. ASSUME NEW t \in Target, Result(t) = "-" PROVE Untouched(st[t].report)
  <2>1. SUFFICES ASSUME Busy(t) PROVE FALSE
    BY <1>3 DEF Inv, Late, Fleet
  <2>2. IsJob(t) /\ st[t].report.ran = "started"
    BY <1>1, <2>1 DEF Busy, Switching
  <2>3. t \in Ready
    BY <2>2 DEF Inv, Reports, Reported, Ready
  <2> QED BY <1>2, <1>3, <2>2, <2>3
<1> QED BY <1>1, <1>2, <1>3

(* A run that exits 0 is complete. *)
LEMMA FinishIsComplete ==
    ASSUME Settings, Reports', opt' = opt,
           exit' = "ok" => ~ failed', opt.host = 0 => warned' = Lagging(st'),
           \A t \in Asked : st'[t].report.result # "-",
           \A t \in Target : InGroup(t) /\ st'[t].report.result = "skipped" => failed',
           opt.host # 0 /\ ~ failed' => \A t \in Target : st'[t].report.result # "skipped"
    PROVE  SuccessIsComplete'
<1> USE DEF Result
<1>1. Asked' = Asked /\ Asked \subseteq Target
  BY AskedStays DEF Asked, Selected
<1>2. SUFFICES ASSUME exit' = "ok", NEW t \in Asked
               PROVE  /\ st'[t].report.result \notin {"-", "failed"}
                      /\ st'[t].report.result = "skipped" => ~ InGroup(t)
                      /\ st'[t].report.result = "ok" => st'[t].world.gen # "old" /\ ~ st'[t].world.faulty
                      /\ st'[t].report.result = "skipped" /\ t[1] = "hm"
                            /\ st'[<<"system", t[2]>>].report.result = "ok" => t[2] \in warned'
  BY <1>1 DEF SuccessIsComplete, InGroup
<1>3. ~ failed' /\ t \in Target
  BY <1>1, <1>2
<1>4. /\ Reported(st'[t].report, st'[t].world)
      /\ st'[t].report.result = "failed" => failed'
  BY <1>3 DEF Reports
<1>5. ASSUME st'[t].report.result = "skipped", t[1] = "hm", st'[<<"system", t[2]>>].report.result = "ok"
      PROVE  t[2] \in warned'
  <2>1. t = <<"hm", t[2]>> /\ t[2] \in HomeHosts
    BY <1>3, <1>5 DEF Target
  <2>2. opt.host = 0
    BY <1>3, <1>5
  <2>3. warned' = Lagging(st')
    BY <2>2
  <2> QED BY <1>5, <2>1, <2>3 DEF Lagging
<1>6. st'[t].report.result = "ok" => st'[t].world.gen # "old" /\ ~ st'[t].world.faulty
  BY <1>4 DEF Reported
<1> QED BY <1>2, <1>3, <1>4, <1>5, <1>6

(* The jobs are done. *)
LEMMA JobsDoneKeeps ==
    ASSUME Settings, Inv, JobsDone
    PROVE  Inv'
<1> USE DEF Result
<1>1. /\ at \in {"jobs", "homes"} /\ \A t \in Jobs : Result(t) # "-"
      /\ UNCHANGED <<opt, st, blocked, failed, runs, trouble>>
  BY DEF JobsDone
<1>2. /\ \A t \in Target : Result(t) = "-" => Untouched(st[t].report)
      /\ \A t \in Ready : Result(t) = "-" => ~ IsJob(t)
      /\ serial = NoSerial /\ ~ serial.failure
  BY <1>1, NoJobIsLeft
<1>3. trouble' \in 0 .. MaxTrouble /\ Typed
  BY <1>1 DEF Inv, Typed
<1>4. CASE at = "jobs"
  <2>1. at' = "terminal" /\ serial' = NoSerial /\ exit' = exit /\ at' \in Fleet /\ at \in Fleet
    BY <1>2, <1>4 DEF JobsDone, Fleet
  <2>2. ASSUME NEW t \in Waiting("system") PROVE InGroup(t) \/ t[2] \in Prompts \ {Self}
    <3>1. t \in Ready /\ t[1] = "system" /\ st[t].report.result = "-"
      BY DEF Waiting
    <3>2. ~ IsJob(t)
      BY <1>2, <3>1
    <3> QED BY <1>4, <3>1, <3>2 DEF IsJob, InGroup
  <2>3. Waiting("system")' = Waiting("system")
    BY <1>1, AskedStays DEF Waiting, Ready
  <2>4. Left'
    BY <2>1, <2>2, <2>3 DEF Left, InGroup
  <2>5. Turns'
    BY <1>1, <1>2, <1>4, <2>1 DEF Inv, Turns, Half, MembersOf, NoSerial, InGroup
  <2> QED BY <1>1, <1>2, <1>3, <2>1, <2>4, <2>5, FleetMoves
<1>5. CASE at = "homes"
  <2>1. /\ at' = "off" /\ serial' = NoSerial /\ exit' = (IF failed THEN "failed" ELSE "ok")
        /\ opt.host = 0 => warned' = Lagging(st)
    BY <1>5 DEF JobsDone, Finish, Over
  <2>2. opt.host = 0
    BY <1>5 DEF Inv, Late, Fleet
  <2>3. warned' = Lagging(st')
    BY <1>1, <2>1, <2>2 DEF Lagging
  <2>4. ASSUME NEW t \in Asked PROVE st'[t].report.result # "-"
    <3>1. SUFFICES ASSUME st[t].report.result = "-" PROVE FALSE
      BY <1>1
    <3>2. t \in Ready /\ t \in Target
      BY <1>5, <2>4, <3>1 DEF Inv, Late, Fleet, Ready, Asked, Selected
    <3>3. t[1] # "system"
      BY <1>5, <3>1, <3>2 DEF Inv, Left, Waiting
    <3> QED BY <1>2, <1>3, <1>5, <3>1, <3>2, <3>3, TargetIs DEF IsJob
  <2>5. \A t \in Target : InGroup(t) /\ st'[t].report.result = "skipped" => failed'
    BY <1>1, <1>2, <1>5 DEF Inv, Verdict
  <2>6. Reports'
    BY <1>1, ReportsStay DEF Inv
  <2>7. exit' = "ok" => ~ failed'
    BY <1>1, <2>1
  <2>8. SuccessIsComplete'
    BY <1>1, <2>2, <2>3, <2>4, <2>5, <2>6, <2>7, FinishIsComplete
  <2>9. Typed'
    BY <1>1, <1>3, <2>1, NoSerialTyped DEF Typed
  <2> QED BY <1>1, <2>1, <2>8, <2>9, OverKeeps
<1> QED BY <1>1, <1>4, <1>5

(* The switches with the terminal are done. *)
LEMMA PlainDoneKeeps ==
    ASSUME Settings, Inv, PlainDone
    PROVE  Inv'
<1> USE DEF Result
<1>1. at \in {"terminal", "single"} /\ UNCHANGED <<opt, st, blocked, failed, warned, runs, trouble>>
  BY DEF PlainDone
<1>2. trouble' \in 0 .. MaxTrouble /\ Typed /\ Typed
  BY <1>1 DEF Inv, Typed
<1>3. CASE at = "terminal"
  <2>1. Asking = {} /\ at' = "group" /\ UNCHANGED <<serial, exit>> /\ at' \in Fleet /\ at \in Fleet
    BY <1>3 DEF PlainDone, Fleet
  <2>2. serial = NoSerial /\ ~ serial.failure /\ serial.step = "none" /\ serial.group = 0
    BY <1>3 DEF Inv, Rollout, NoSerial
  <2>3. \A t \in Target : Result(t) = "-" => Untouched(st[t].report)
    BY <1>3, <2>2 DEF Inv, Late, Fleet, Busy, IsJob, Switching
  <2>4. ASSUME NEW t \in Waiting("system") PROVE InGroup(t)
    BY <1>3, <2>1 DEF Inv, Left, Asking, InGroup, Waiting
  <2>5. Waiting("system")' = Waiting("system")
    BY <1>1, AskedStays DEF Waiting, Ready
  <2>6. \A t : \A i \in Group(t[2]) : i > 0
    BY DEF Group, Settings
  <2>7. Left'
    BY <2>1, <2>2, <2>4, <2>5, <2>6 DEF Left, InGroup, Group
  <2>8. Turns'
    BY <1>1, <1>3, <2>1, <2>2 DEF Inv, Turns, Half, MembersOf, NoSerial, InGroup, Group
  <2> QED BY <1>1, <1>2, <2>1, <2>2, <2>3, <2>7, <2>8, FleetMoves
<1>4. CASE at = "single"
  <2>1. /\ serial.step = "none" /\ Waiting("system") \cup Waiting("hm") = {}
        /\ at' = "off" /\ exit' = "ok" /\ serial' = NoSerial
    BY <1>4 DEF PlainDone, Over
  <2>2. ~ failed
    BY <1>4, <2>1 DEF Inv, Verdict
  <2>3. /\ opt.host # 0
        /\ \A t \in Target : st[t].report.result # "skipped"
        /\ \A t \in Asked : st[t].report.result = "-" => st[t].report.built = "yes"
    BY <1>4 DEF Inv, Late
  <2>4. ASSUME NEW t \in Asked PROVE st'[t].report.result # "-"
    <3>1. SUFFICES ASSUME st[t].report.result = "-" PROVE FALSE
      BY <1>1
    <3>2. t \in Ready /\ t \in Target
      BY <2>3, <3>1 DEF Ready, Asked, Selected
    <3>3. t[1] \in {"system", "hm"}
      BY <3>2, TargetIs
    <3> QED BY <2>1, <3>1, <3>2, <3>3 DEF Waiting
  <2>5. Reports'
    BY <1>1, ReportsStay DEF Inv
  <2>6. SuccessIsComplete'
    BY <1>1, <2>2, <2>3, <2>4, <2>5, FinishIsComplete
  <2>7. Typed'
    BY <1>1, <1>2, <2>1, NoSerialTyped DEF Typed
  <2> QED BY <1>1, <2>1, <2>6, <2>7, OverKeeps
<1> QED BY <1>1, <1>3, <1>4

(* The systems fail at once. *)
LEMMA SupportFails ==
    ASSUME Settings, Inv, Support(FALSE)
    PROVE  Inv'
<1> USE DEF Result
<1> DEFINE S == Waiting("system")
<1>1. /\ UNCHANGED <<opt, serial, blocked, exit, warned, runs>> /\ at = "support" /\ at' = "homes"
      /\ st' = Failing(S, "setup") /\ failed' = TRUE /\ Fails(FALSE)
  BY DEF Support
<1>2. Typed /\ S \subseteq Target /\ \A t \in S : t \in Ready /\ st[t].report.result = "-" /\ t[1] = "system"
  BY DEF Inv, Waiting, Ready, Asked, Selected
<1>3. serial = NoSerial /\ ~ serial.failure /\ serial.step = "none"
  BY <1>1 DEF Inv, Rollout, NoSerial
<1>4. \A t \in S : /\ Untouched(st[t].report) /\ t \in Target /\ t \in Asked
                   /\ st[t].report \in ReportState /\ st[t].report.built = "yes" /\ st[t].report.evaluation = "ok"
                   /\ Reported(st[t].report, st[t].world)
  <2> TAKE t \in S
  <2>1. ~ Busy(t)
    BY <1>1, <1>3 DEF Busy, IsJob, Switching, NoSerial, Inv, Late, Fleet, S, Waiting
  <2>2. Untouched(st[t].report)
    BY <1>1, <1>2, <2>1 DEF Inv, Late, Fleet
  <2> QED BY <1>2, <2>2, ReadyIs DEF Inv
<1> HIDE DEF S
<1>5. /\ st' \in [Target -> TargetState] /\ \A t \in Target \ S : st'[t] = st[t]
      /\ \A t \in S : st'[t].report = Lost(st[t].report, "setup") /\ st'[t].world = st[t].world
  BY <1>1, <1>2, FailingIs
<1>6. \A t \in S : /\ st'[t].report.result = "failed" /\ st'[t].report.lost = "setup"
                   /\ st'[t].report.evaluation = "ok" /\ st'[t].report.built = "yes" /\ Untouched(st'[t].report)
                   /\ st'[t].report.ran = "no" /\ ~ st'[t].report.gate
  BY <1>4, <1>5, LostIs DEF Untouched
<1>7. \A t \in S : Reported(st'[t].report, st'[t].world)
  <2> TAKE t \in S
  <2>1. st[t].world.faulty => st[t].world.mark
    BY <1>4 DEF Reported
  <2>2. Failure(st'[t].report)
    BY <1>6 DEF Failure
  <2> QED BY <1>5, <1>6, <2>1, <2>2 DEF Reported
<1>8. Asked' = Asked /\ Asked \subseteq Target
  BY <1>1, AskedStays DEF Asked, Selected
<1>9. Typed'
  <2>1. trouble' \in 0 .. MaxTrouble
    BY <1>1, <1>2, Counted
  <2> QED BY <1>1, <1>2, <1>3, <1>5, <2>1 DEF Typed, Fleet
<1>10. Reports'
  <2>1. \A t \in Target : t \notin S => Current(t)' = Current(t)
    BY <1>5 DEF Current
  <2>2. ASSUME NEW t \in Target, t \notin S
        PROVE  /\ Reported(st'[t].report, st'[t].world)
               /\ st'[t].report.result = "unchanged" => Current(t)'
               /\ st'[t].report.result # "-" \/ st'[t].report.evaluation # "none" => t \in Asked
    BY <1>5, <2>1, <2>2 DEF Inv, Reports
  <2> QED BY <1>1, <1>4, <1>6, <1>7, <1>8, <2>2 DEF Reports
<1>11. Early' /\ Rollout'
  BY <1>1, <1>3 DEF Early, Rollout, Before, NoSerial, Switching
<1>12. Late'
  <2>1. /\ opt.only = "none" /\ opt.host = 0
        /\ \A t \in Asked : st[t].report.result = "-" => st[t].report.built = "yes"
        /\ \A t \in Asked : st[t].report.result # "-" \/ st[t].report.evaluation # "none"
        /\ \A t \in Target : /\ st[t].report.result \in {"-", "skipped", "failed", "unchanged", "ok"}
                             /\ st[t].report.result = "-" => Untouched(st[t].report)
    BY <1>1, <1>3 DEF Inv, Late, Fleet, Busy, IsJob, Switching
  <2> QED BY <1>1, <1>5, <1>6, <1>8, <2>1 DEF Late, Fleet
<1>13. Left'
  <2>1. S = Waiting("system")
    BY DEF S
  <2>2. Waiting("system")' = {}
    BY <1>5, <1>6, <1>8, <2>1 DEF Waiting, Ready
  <2> QED BY <1>1, <2>2 DEF Left
<1>14. Verdict'
  BY <1>1 DEF Inv, Verdict, SuccessIsComplete
<1>15. \A t \in Target : InGroup(t) => st'[t].report.ran = "no"
  BY <1>1, <1>5, <1>6 DEF Inv, Turns
<1>16. Turns'
  BY <1>1, <1>3, <1>15, MembersAreInGroup DEF Inv, Turns, Half, MembersOf, NoSerial, InGroup, Group, Typed
<1>17. UntouchedUnlessBuilt'
  <2>1. opt.host = 0
    BY <1>1 DEF Inv, Late, Fleet
  <2>2. \A t \in Target : st'[t].report.ran # "no" => st'[t].report.built = "yes"
    BY <1>5, <1>6 DEF Inv, UntouchedUnlessBuilt
  <2> QED BY <1>1, <2>1, <2>2 DEF UntouchedUnlessBuilt
<1> QED BY <1>9, <1>10, <1>11, <1>12, <1>13, <1>14, <1>16, <1>17 DEF Inv

(* A run that dies. *)
LEMMA KillKeeps ==
    ASSUME Settings, Inv, NEW moved, moved \subseteq {t \in Ready : st[t].report.ran = "started"}, Kill(moved)
    PROVE  Inv'
<1> USE DEF Result
<1>1. /\ UNCHANGED <<opt, blocked, failed, warned, runs>> /\ at' = "off" /\ exit' = "killed"
      /\ serial' = NoSerial /\ Trouble(1)
      /\ st' = [t \in Target |-> IF t \in moved THEN [st[t] EXCEPT !.world.gen = "new"] ELSE st[t]]
  BY DEF Kill, Over
<1>2. Typed /\ \A t \in moved : t \in Target /\ st[t].report.ran = "started"
  BY DEF Inv, Ready, Asked, Selected
<1> DEFINE w(t) == [st[t].world EXCEPT !.gen = "new"]
           e(t) == [st[t] EXCEPT !.world.gen = "new"]
<1>3. \A t \in Target : /\ e(t) \in TargetState /\ e(t).report = st[t].report /\ e(t).world = w(t)
                        /\ w(t).gen = "new" /\ w(t).mark = st[t].world.mark /\ w(t).faulty = st[t].world.faulty
                        /\ st[t] \in TargetState
  <2> TAKE t \in Target
  <2>1. st[t] \in TargetState /\ st[t].report \in ReportState /\ st[t].world \in WorldState
    BY <1>2, EntryParts DEF Typed
  <2>2. w(t) \in WorldState /\ w(t).gen = "new" /\ w(t).mark = st[t].world.mark /\ w(t).faulty = st[t].world.faulty
    BY <2>1 DEF WorldState
  <2>3. e(t) \in TargetState /\ e(t).report = st[t].report /\ e(t).world = w(t)
    BY <2>1, <2>2 DEF TargetState
  <2> QED BY <2>1, <2>2, <2>3
<1>4. st' = [t \in Target |-> IF t \in moved THEN e(t) ELSE st[t]]
  BY <1>1
<1> HIDE DEF e
<1>5. /\ st' \in [Target -> TargetState]
      /\ \A t \in Target : t \notin moved => st'[t] = st[t]
      /\ \A t \in moved : st'[t] = e(t)
  BY <1>2, <1>3, <1>4
<1>6. Typed'
  <2>1. trouble' \in 0 .. MaxTrouble
    BY <1>1, <1>2 DEF Trouble, Typed, Settings
  <2> QED BY <1>1, <1>2, <1>5, <2>1, NoSerialTyped DEF Typed
<1>7. Asked' = Asked
  BY <1>1, AskedStays
<1>8. \A t \in Target : /\ st'[t].report = st[t].report /\ st'[t].world.mark = st[t].world.mark
                        /\ st'[t].world.faulty = st[t].world.faulty
                        /\ st'[t].world = st[t].world \/ st'[t].world.gen = "new"
  <2> HIDE DEF w
  <2> QED BY <1>2, <1>3, <1>5
<1>9. Reports'
  <2>1. ASSUME NEW t \in Target
        PROVE  /\ Reported(st'[t].report, st'[t].world)
               /\ st'[t].report.result = "unchanged" => Current(t)'
    <3>1. Reported(st[t].report, st[t].world) /\ (st[t].report.result = "unchanged" => Current(t))
      BY DEF Inv, Reports
    <3>2. CASE st'[t].world.gen = "new"
      BY <1>8, <3>1, <3>2 DEF Reported, Current
    <3>3. CASE st'[t].world = st[t].world
      BY <1>8, <3>1, <3>3 DEF Current
    <3> QED BY <1>8, <3>2, <3>3
  <2> QED BY <1>1, <1>7, <1>8, <2>1 DEF Inv, Reports
<1>10. Early' /\ Late' /\ Left'
  BY <1>1 DEF Early, Late, Left, Before, Fleet
<1>11. Verdict' /\ Rollout'
  BY <1>1 DEF Verdict, Rollout, NoSerial, Switching, SuccessIsComplete
<1>12. Turns'
  BY <1>1, <1>8, TurnsStay DEF Inv
<1>13. UntouchedUnlessBuilt'
  BY <1>1, <1>7, <1>8 DEF Inv, UntouchedUnlessBuilt, Asked, Selected
<1> QED BY <1>6, <1>9, <1>10, <1>11, <1>12, <1>13 DEF Inv

-----------------------------------------------------------------------------
(* A member's turn *)

\* Two reports that say the same, but for what the ready command saw.
Alike(r, q) ==
    /\ r.result = q.result /\ r.evaluation = q.evaluation /\ r.built = q.built /\ r.log = q.log
    /\ r.seconds = q.seconds /\ r.gate = q.gate /\ r.lost = q.lost /\ r.ran = q.ran

(* Such reports are as good as each other. *)
LEMMA AlikeReports ==
    ASSUME NEW r, NEW q, NEW w, Alike(r, q)
    PROVE  /\ Reported(q, w) => Reported(r, w)
           /\ Untouched(q) => Untouched(r)
<1>1. Untouched(q) => Untouched(r)
  BY DEF Alike, Untouched
<1>2. Failure(q) => Failure(r)
  BY <1>1 DEF Alike, Failure
<1>3. Reported(q, w) => Reported(r, w)
  BY <1>1, <1>2 DEF Alike, Reported
<1> QED BY <1>1, <1>3

\* What a step of a member's turn leaves of the member, of the others and of the run.
MemberStep ==
    LET q == st[Turn].report  r == st'[Turn].report  w == st'[Turn].world IN
    /\ serial.step \in Switching \cup {"reserve", "check", "begin"} /\ serial.turn # 0
    /\ opt' = opt /\ at' = at /\ blocked' = blocked /\ exit' = exit
    /\ \A s \in Target : s # Turn => Alike(st'[s].report, st[s].report) /\ st'[s].world = st[s].world
    /\ r.evaluation = q.evaluation /\ r.built = q.built /\ Reported(r, w)
    /\ r.lost \notin {"evaluate", "build"} /\ (r.ran # q.ran => serial.step \in Switching)
    /\ serial'.group = serial.group /\ serial'.turn = serial.turn
    /\ \/ /\ r.result = "failed" /\ r.ran # "started" /\ failed' = TRUE
          /\ serial'.failure /\ serial'.step = After
       \/ /\ r.result = "-" /\ failed' = failed /\ ~ serial'.failure
          /\ \/ serial.step = "begin" /\ serial'.step = "start" /\ r.ran = "no"
             \/ serial.step = "start" /\ serial'.step = "run" /\ r.ran = "started"
             \/ serial'.step \in {"ended", "gate"} /\ r.ran # "started"
          /\ \A s \in Target : st'[s].report.seen = st[s].report.seen
       \/ /\ r.result = "ok" /\ r.ran = "worked" /\ failed' = failed /\ ~ serial'.failure
          /\ serial'.step = After /\ serial'.switched

(* Whose turn it is, and that of the others nothing is under way. *)
LEMMA TurnIs ==
    ASSUME Settings, Inv, serial.step \in Switching \cup {"reserve", "check", "begin"}, serial.turn # 0
    PROVE  /\ at \in {"group", "single"} /\ Turn \in Target /\ Turn \in Asked /\ Turn \in Ready
           /\ serial.group \in DOMAIN SerialGroups /\ Turn \in MembersOf(serial.group)
           /\ Turn' = Turn \/ serial'.turn # serial.turn
           /\ st[Turn] \in TargetState /\ Reported(st[Turn].report, st[Turn].world)
           /\ st[Turn].report \in ReportState /\ st[Turn].world \in WorldState
           /\ st[Turn].report.built = "yes" /\ st[Turn].report.evaluation = "ok"
           /\ st[Turn].report.result = "-" /\ ~ st[Turn].report.gate /\ ~ serial.failure
           /\ st[Turn].report.lost = "none"
           /\ InGroup(Turn) /\ Turn[1] = "system" /\ Turn[2] = serial.turn
<1> USE DEF Result
<1>1. at \in {"group", "single"}
  BY DEF Inv, Rollout, NoSerial, Switching
<1>2. /\ serial.group \in DOMAIN SerialGroups /\ serial.turn \in SerialGroups[serial.group]
      /\ Turn \in Asked /\ st[Turn].report.built = "yes" /\ st[Turn].report.result = "-"
      /\ ~ serial.failure
  BY DEF Inv, Rollout, Switching
<1>3. Turn \in Target /\ Turn \in Ready /\ Turn[1] = "system" /\ Turn[2] = serial.turn
  BY <1>2 DEF Asked, Selected, Ready, Turn
<1>4. Turn \in MembersOf(serial.group) /\ InGroup(Turn)
  BY <1>2, <1>3 DEF MembersOf, InGroup, Group
<1>5. /\ st[Turn] \in TargetState /\ st[Turn].report \in ReportState /\ st[Turn].world \in WorldState
      /\ st[Turn].report.evaluation = "ok" /\ Reported(st[Turn].report, st[Turn].world)
  BY <1>3, ReadyIs DEF Inv
<1>6. ~ st[Turn].report.gate /\ st[Turn].report.lost = "none"
  BY <1>2, <1>5 DEF Reported
<1> QED BY <1>1, <1>2, <1>3, <1>4, <1>5, <1>6 DEF Turn

(* Only a member at its turn is at work while the groups are rolled out. *)
LEMMA OnlyTheTurnWorks ==
    ASSUME Inv, at \in {"group", "single"}, NEW t \in Target, t # Turn \/ serial.step \notin Switching
    PROVE  /\ ~ Busy(t) /\ (Result(t) = "-" => Untouched(st[t].report))
           /\ st[t].report.ran # "started"
<1> USE DEF Result
<1>1. ~ Busy(t)
  BY DEF Busy, IsJob
<1>2. Result(t) = "-" => Untouched(st[t].report)
  BY <1>1 DEF Inv, Late, Fleet
<1>3. st[t].report.ran # "started"
  BY <1>2 DEF Inv, Reports, Reported, Untouched
<1> QED BY <1>1, <1>2, <1>3

(* Of the members of the group at work only the one whose turn it is has an *)
(* activation that did not succeed.                                         *)
LEMMA OnlyTheTurnIsHalf ==
    ASSUME Settings, Inv, serial.step \in Switching \cup {"reserve", "check", "begin"}, serial.turn # 0,
           NEW t \in MembersOf(serial.group), t # Turn
    PROVE  ~ Half(t)
<1> USE DEF Result
<1>1. CASE serial.step \in {"reserve", "check", "begin", "start"}
  BY <1>1 DEF Inv, Turns
<1>2. CASE serial.step \in {"run", "ended", "gate"}
  <2>1. /\ Turn \in MembersOf(serial.group) /\ st[Turn].report.result = "-"
        /\ serial.group \in DOMAIN SerialGroups
    BY TurnIs
  <2>2. st[Turn].report.ran # "no"
    BY <1>2 DEF Inv, Rollout
  <2>3. Half(Turn)
    BY <2>1, <2>2 DEF Half
  <2> QED BY <2>1, <2>3 DEF Inv, Turns
<1> QED BY <1>1, <1>2 DEF Switching

(* A member is in one group only. *)
LEMMA OneGroup ==
    ASSUME Settings, NEW i \in DOMAIN SerialGroups, NEW j \in DOMAIN SerialGroups,
           NEW t \in MembersOf(i), t \in MembersOf(j)
    PROVE  i = j
BY DEF Settings, MembersOf

(* The reports after a step of a member's turn. *)
LEMMA MemberReports ==
    ASSUME Settings, Inv, MemberStep
    PROVE  Reports' /\ UntouchedUnlessBuilt'
<1> USE DEF Result
<1>1. Asked' = Asked /\ opt' = opt /\ Asked \subseteq Target
  BY AskedStays DEF MemberStep, Asked, Selected
<1>2. failed => failed'
  BY DEF MemberStep, Inv, Typed
<1>3. /\ Turn \in Target /\ Turn \in Asked /\ st[Turn].report.built = "yes"
      /\ at \in {"group", "single"}
  BY TurnIs DEF MemberStep
<1> DEFINE r == st'[Turn].report
<1>4. /\ Reported(r, st'[Turn].world) /\ r.result \in {"-", "failed", "ok"} /\ r.built = "yes"
      /\ r.result = "failed" => failed'
      /\ r.lost \notin {"evaluate", "build"}
  BY <1>3 DEF MemberStep
<1>5. \A s \in Target : s # Turn => Alike(st'[s].report, st[s].report) /\ st'[s].world = st[s].world
  BY DEF MemberStep
<1>6. ASSUME NEW s \in Target, s # Turn
      PROVE  /\ Reported(st'[s].report, st'[s].world)
             /\ st'[s].report.result = "unchanged" => Current(s)'
             /\ st'[s].report.result # "-" \/ st'[s].report.evaluation # "none" => s \in Asked
             /\ st'[s].report.result = "failed" => failed'
  <2>1. /\ Reported(st[s].report, st[s].world)
        /\ st[s].report.result = "unchanged" => Current(s)
        /\ st[s].report.result # "-" \/ st[s].report.evaluation # "none" => s \in Asked
        /\ st[s].report.result = "failed" => failed
    BY <1>6 DEF Inv, Reports
  <2>2. Alike(st'[s].report, st[s].report) /\ st'[s].world = st[s].world
    BY <1>5, <1>6
  <2>3. st'[s].report.result = st[s].report.result /\ st'[s].report.evaluation = st[s].report.evaluation
    BY <2>2 DEF Alike
  <2>4. Current(s)' = Current(s)
    BY <2>2 DEF Current
  <2> QED BY <1>2, <2>1, <2>2, <2>3, <2>4, AlikeReports
<1> HIDE DEF r
<1>7. Reports'
  <2> SUFFICES ASSUME NEW s \in Target
               PROVE  /\ Reported(st'[s].report, st'[s].world)
                      /\ st'[s].report.result = "unchanged" => Current(s)'
                      /\ st'[s].report.result # "-" \/ st'[s].report.evaluation # "none" => s \in Asked
                      /\ st'[s].report.result = "failed" => failed'
    BY <1>1 DEF Reports
  <2>1. CASE s = Turn BY <1>3, <1>4, <2>1 DEF r
  <2>2. CASE s # Turn BY <1>6, <2>2
  <2> QED BY <2>1, <2>2
<1>8. \A s \in Target : s # Turn =>
          /\ st'[s].report.ran = st[s].report.ran /\ st'[s].report.built = st[s].report.built
          /\ st'[s].report.lost = st[s].report.lost
  BY <1>5 DEF Alike
<1>9. UntouchedUnlessBuilt'
  <2>1. \A s \in Target : st'[s].report.ran # "no" => st'[s].report.built = "yes"
    BY <1>3, <1>4, <1>8 DEF Inv, UntouchedUnlessBuilt, r
  <2>2. ASSUME opt.host # 0 PROVE \A s \in Target : st'[s].report.lost \notin {"evaluate", "build"}
    <3>1. at = "single"
      BY <1>3, <2>2 DEF Inv, Late, Fleet
    <3> QED BY <1>4, <1>8, <3>1 DEF Inv, Late, r
  <2> QED BY <1>1, <2>1, <2>2 DEF UntouchedUnlessBuilt
<1> QED BY <1>7, <1>9

(* How far the targets are after it. *)
LEMMA MemberLate ==
    ASSUME Settings, Inv, MemberStep
    PROVE  Early' /\ Late' /\ Left' /\ Verdict'
<1> USE DEF Result
<1>1. Asked' = Asked /\ opt' = opt /\ Asked \subseteq Target /\ at' = at
  BY AskedStays DEF MemberStep, Asked, Selected
<1>2. /\ Turn \in Target /\ Turn \in Asked /\ st[Turn].report.built = "yes" /\ st[Turn].report.result = "-"
      /\ st[Turn].report.evaluation = "ok" /\ at \in {"group", "single"} /\ ~ serial.failure
  BY TurnIs DEF MemberStep
<1> DEFINE r == st'[Turn].report
<1>3. /\ r.result \in {"-", "failed", "ok"} /\ r.built = "yes" /\ r.evaluation = "ok"
      /\ r.lost \notin {"evaluate", "build"}
      /\ r.result = "-" => serial'.step \in Switching
      /\ serial'.group = serial.group /\ serial'.turn = serial.turn
      /\ serial'.step \in Switching \cup {After}
  BY <1>2 DEF MemberStep, Switching
<1>4. \A s \in Target : s # Turn =>
         /\ st'[s].report.result = st[s].report.result /\ st'[s].report.built = st[s].report.built
         /\ st'[s].report.evaluation = st[s].report.evaluation /\ st'[s].report.lost = st[s].report.lost
         /\ (Untouched(st[s].report) => Untouched(st'[s].report))
  BY AlikeReports DEF MemberStep, Alike
<1>5. Early'
  BY <1>1, <1>2 DEF Early, Before
<1>6. Late'
  <2>1. /\ opt.only = "none" /\ (at = "single" <=> opt.host # 0)
        /\ \A s \in Asked : st[s].report.result = "-" => st[s].report.built = "yes"
        /\ \A s \in Asked : st[s].report.result # "-" \/ st[s].report.evaluation # "none"
        /\ \A s \in Target :
              /\ st[s].report.result \in {"-", "skipped", "failed", "unchanged", "ok"}
              /\ at = "single" => st[s].report.result # "skipped" /\ st[s].report.lost \notin {"evaluate", "build"}
    BY <1>2 DEF Inv, Late, Fleet
  <2>2. r.result = "-" => Busy(Turn)'
    BY <1>3 DEF Busy, Turn
  <2>3. ASSUME NEW s \in Target, s # Turn, st'[s].report.result = "-" PROVE Untouched(st'[s].report)
    BY <1>2, <1>4, <2>3, OnlyTheTurnWorks
  <2>4. \A s \in Asked : /\ st'[s].report.result = "-" => st'[s].report.built = "yes"
                         /\ st'[s].report.result # "-" \/ st'[s].report.evaluation # "none"
    BY <1>1, <1>3, <1>4, <2>1
  <2>5. \A s \in Target :
              /\ st'[s].report.result \in {"-", "skipped", "failed", "unchanged", "ok"}
              /\ at = "single" => st'[s].report.result # "skipped" /\ st'[s].report.lost \notin {"evaluate", "build"}
    BY <1>3, <1>4, <2>1
  <2>6. ASSUME NEW s \in Target, st'[s].report.result = "-" PROVE Untouched(st'[s].report) \/ Busy(s)'
    <3>1. CASE s = Turn
      <4>1. Busy(Turn)' BY <2>2, <2>6, <3>1
      <4>2. Turn' = Turn BY <1>3 DEF Turn
      <4> QED BY <1>3, <2>6, <3>1, <4>2 DEF Busy
    <3>2. CASE s # Turn BY <2>3, <2>6, <3>2
    <3> QED BY <3>1, <3>2
  <2> QED BY <1>1, <2>1, <2>4, <2>5, <2>6 DEF Late
<1>7. Left'
  <2>1. Shrinks
    BY <1>2, <1>4 DEF Shrinks
  <2>2. Waiting("system")' \subseteq Waiting("system")
    BY <1>1, <2>1, WaitingShrinks
  <2>3. at = "group" => serial'.step \notin {"none", "release"} /\ serial.step \notin {"none", "release"}
    BY <1>2, <1>3 DEF After, Switching, MemberStep
  <2>4. \A s : InGroup(s)' = InGroup(s) /\ Group(s[2])' = Group(s[2])
    BY DEF InGroup, Group
  <2> QED BY <1>1, <1>2, <1>3, <2>2, <2>3, <2>4 DEF Inv, Left
<1>8. Verdict'
  <2>1. exit' = "none" /\ at # "off"
    BY <1>2 DEF MemberStep, Inv, Verdict
  <2>2. failed => failed'
    BY DEF MemberStep, Inv, Typed
  <2>3. \A s \in Target : InGroup(s) /\ st'[s].report.result = "skipped" => failed'
    BY <1>2, <1>3, <1>4, <2>1, <2>2 DEF Inv, Verdict
  <2>4. ASSUME at = "single", failed' PROVE serial'.failure /\ serial'.step = "release"
    <3>1. ~ failed
      BY <1>2, <2>4 DEF Inv, Verdict, MemberStep, Switching
    <3> QED BY <2>4, <3>1 DEF MemberStep, After
  <2>5. \A s : InGroup(s)' = InGroup(s)
    BY DEF InGroup
  <2> QED BY <1>1, <2>1, <2>3, <2>4, <2>5 DEF Verdict, SuccessIsComplete
<1> QED BY <1>5, <1>6, <1>7, <1>8

(* The turns of the members after it. *)
LEMMA MemberTurns ==
    ASSUME Settings, Inv, MemberStep
    PROVE  Turns'
<1> USE DEF Result
<1> DEFINE r == st'[Turn].report
           g == serial.group
<1>1. /\ Turn \in Target /\ st[Turn].report.result = "-" /\ InGroup(Turn)
      /\ at \in {"group", "single"} /\ ~ serial.failure
      /\ g \in DOMAIN SerialGroups /\ Turn \in MembersOf(g)
  BY TurnIs DEF MemberStep
<1>2. /\ blocked' = blocked /\ at' = at /\ serial'.group = g /\ serial'.turn = serial.turn
      /\ Turn' = Turn
  BY DEF MemberStep, Turn
<1>3. \A s \in Target : s # Turn => /\ st'[s].report.ran = st[s].report.ran
                                    /\ st'[s].report.result = st[s].report.result
  BY DEF MemberStep, Alike
<1>4. /\ serial.step \in Switching \cup {"reserve", "check", "begin"} /\ serial.turn # 0
      /\ r.ran # st[Turn].report.ran => serial.step \in Switching
  BY DEF MemberStep
<1>5. \/ /\ r.result = "failed" /\ r.ran # "started" /\ serial'.failure /\ serial'.step \in {"next", "release"}
      \/ /\ r.result = "-" /\ ~ serial'.failure
         /\ \/ serial.step = "begin" /\ serial'.step = "start" /\ r.ran = "no"
            \/ serial.step = "start" /\ serial'.step = "run" /\ r.ran = "started"
            \/ serial'.step \in {"ended", "gate"} /\ r.ran # "started"
         /\ \A s \in Target : st'[s].report.seen = st[s].report.seen
      \/ /\ r.result = "ok" /\ r.ran = "worked" /\ ~ serial'.failure
         /\ serial'.step \in {"next", "release"} /\ serial'.switched
  BY DEF MemberStep, After
<1>6. \A i : MembersOf(i)' = MembersOf(i)
  BY DEF MembersOf
<1>7. \A i \in DOMAIN SerialGroups : \A t \in MembersOf(i) : t \in Target /\ (i # g => t # Turn)
  BY <1>1, OneGroup, MembersAreInGroup
<1>8. \A t \in MembersOf(g) : t # Turn => ~ Half(t)
  BY <1>4, OnlyTheTurnIsHalf
<1>9. ASSUME NEW i \in DOMAIN SerialGroups, NEW t \in MembersOf(i), NEW s \in MembersOf(i), Half(t)', Half(s)'
      PROVE  t = s
  <2>1. CASE i = g
    BY <1>3, <1>7, <1>8, <1>9, <2>1 DEF Half
  <2>2. CASE i # g
    BY <1>3, <1>7, <1>9, <2>2 DEF Half, Inv, Turns
  <2> QED BY <2>1, <2>2
<1> HIDE DEF r
<1>10. ASSUME NEW i \in DOMAIN SerialGroups, NEW t \in MembersOf(i), NEW s \in MembersOf(i),
              i \in Gated, st'[t].report.ran = "started", s # t
       PROVE  st'[s].report.seen
  <2>1. t = Turn
    BY <1>1, <1>3, <1>7, <1>10, OnlyTheTurnWorks
  <2>2. i = g
    BY <1>7, <1>10, <2>1
  <2>3. /\ serial.step = "start" /\ \A k \in Target : st'[k].report.seen = st[k].report.seen
    BY <1>5, <1>10, <2>1 DEF r
  <2>4. st[s].report.seen
    BY <1>10, <2>1, <2>2, <2>3 DEF Inv, Turns
  <2> QED BY <1>7, <2>3, <2>4
<1>11. ASSUME NEW i \in blocked, NEW t \in MembersOf(i) PROVE st'[t].report.ran = "no"
  <2>1. i \in DOMAIN SerialGroups /\ st[t].report.ran = "no"
    BY DEF Inv, Typed, Turns
  <2>2. CASE t # Turn
    BY <1>3, <1>7, <2>1, <2>2
  <2>3. CASE t = Turn
    <3>1. i = g
      BY <1>7, <2>1, <2>3
    <3>2. serial.step \notin Switching
      BY <3>1 DEF Inv, Rollout
    <3> QED BY <1>4, <2>1, <2>3, <3>2 DEF r
  <2> QED BY <2>2, <2>3
<1>12. ASSUME at' = "group", NEW t \in Target, NEW i \in Group(t[2]), InGroup(t), i > g
       PROVE  st'[t].report.ran = "no"
  <2>1. st[t].report.ran = "no"
    BY <1>2, <1>12 DEF Inv, Turns
  <2>2. t # Turn
    <3>1. i \in DOMAIN SerialGroups /\ t \in MembersOf(i) /\ i # g
      BY <1>1, <1>12 DEF Group, InGroup, MembersOf, Settings
    <3> QED BY <1>7, <3>1
  <2> QED BY <1>3, <2>1, <2>2
<1>13. ASSUME serial'.step \in {"reserve", "check", "begin", "start"} \/ (serial'.step = "next" /\ ~ serial'.failure),
              NEW t \in MembersOf(g)
       PROVE  ~ Half(t)'
  <2>1. CASE t = Turn
    BY <1>5, <1>13, <2>1 DEF Half, r
  <2>2. CASE t # Turn
    BY <1>1, <1>3, <1>7, <1>8, <2>2 DEF Half
  <2> QED BY <2>1, <2>2
<1>14. ASSUME serial'.step \in {"begin", "start", "run"}, g \in Gated, NEW t \in MembersOf(g), t # Turn
       PROVE  st'[t].report.seen
  <2>1. /\ serial.step \in {"begin", "start"} /\ \A k \in Target : st'[k].report.seen = st[k].report.seen
    BY <1>5, <1>14
  <2>2. st[t].report.seen
    BY <1>14, <2>1 DEF Inv, Turns
  <2> QED BY <1>1, <1>7, <2>1, <2>2
<1>15. ~ (serial'.step = "next" /\ ~ serial'.switched /\ ~ serial'.failure)
  BY <1>5
<1>16. at' \notin {"support", "jobs", "terminal"}
  BY <1>1, <1>2
<1> QED
  BY <1>2, <1>6, <1>9, <1>10, <1>11, <1>12, <1>13, <1>14, <1>15, <1>16 DEF Turns, InGroup, Group

(* A member's step keeps the invariant, if it leads where the rollout may be. *)
LEMMA MemberKeeps ==
    ASSUME Settings, Inv, MemberStep, Rollout', Typed'
    PROVE  Inv'
BY MemberReports, MemberLate, MemberTurns DEF Inv

Steps == {"none", "reserve", "check", "begin", "next", "release"} \cup Switching

(* The rollout goes on at another step. *)
LEMMA GotoIs ==
    ASSUME serial \in SerialState, NEW step \in Steps, NEW sw \in BOOLEAN, NEW f \in BOOLEAN,
           serial' = [serial EXCEPT !.step = step, !.switched = sw, !.failure = f]
    PROVE  /\ serial' \in SerialState /\ serial'.step = step /\ serial'.failure = f
           /\ serial'.group = serial.group /\ serial'.turn = serial.turn
           /\ serial'.switched = sw /\ serial'.shared = serial.shared
BY DEF SerialState, Steps

(* The member fails at a step. *)
LEMMA MemberFails ==
    ASSUME Settings, Inv, serial.step \in Switching \cup {"reserve", "check", "begin"}, serial.turn # 0,
           UNCHANGED <<opt, at, blocked, exit, runs>>, trouble' \in 0 .. MaxTrouble,
           failed' = TRUE, serial' = [serial EXCEPT !.step = After, !.failure = TRUE],
           st' \in [Target -> TargetState],
           \A s \in Target : s # Turn => Alike(st'[s].report, st[s].report) /\ st'[s].world = st[s].world,
           st'[Turn].world = st[Turn].world, NEW p \in ReportState,
           NEW step \in {"setup", "begin", "start", "ended", "switch", "gate"},
           st'[Turn].report = Lost(p, step), p.evaluation = "ok", p.built = "yes",
           p.ran = st[Turn].report.ran, p.ran # "started", Failure(Lost(p, step))
    PROVE  Inv'
<1> USE DEF Result
<1>1. /\ Turn \in Target /\ Turn \in Asked /\ at \in {"group", "single"} /\ ~ serial.failure
      /\ serial.group \in DOMAIN SerialGroups
      /\ Reported(st[Turn].report, st[Turn].world) /\ Turn[2] = serial.turn
      /\ st[Turn].report.built = "yes" /\ st[Turn].report.evaluation = "ok"
  BY TurnIs
<1> DEFINE r == st'[Turn].report
<1>2. /\ r.result = "failed" /\ r.lost = step /\ r.evaluation = "ok" /\ r.built = "yes"
      /\ r.ran = p.ran
  BY LostIs
<1>3. Typed /\ serial \in SerialState /\ serial.switched \in BOOLEAN
  BY DEF Inv, Typed, SerialState
<1>4. After \in {"next", "release"} /\ After \in Steps /\ (at = "single" => After = "release")
  BY DEF After, Steps
<1> HIDE DEF r
<1>5. /\ serial' \in SerialState /\ serial'.step = After /\ serial'.failure
      /\ serial'.group = serial.group /\ serial'.turn = serial.turn
  <2> HIDE DEF After
  <2> QED BY <1>3, <1>4 DEF SerialState, Steps
<1>6. Reported(r, st'[Turn].world)
  <2>1. Failure(r)
    BY DEF r
  <2> QED BY <1>1, <1>2, <2>1 DEF Reported
<1>7. Turn' = Turn /\ Asked' = Asked
  BY <1>5, AskedStays DEF Turn
<1>8. MemberStep
  BY <1>1, <1>2, <1>5, <1>6 DEF MemberStep, r
<1>9. serial.turn \in SerialGroups[serial.group]
  BY DEF Inv, Rollout, Switching
<1>10. Rollout'
  BY <1>1, <1>2, <1>4, <1>5, <1>7, <1>9 DEF Rollout, Switching, r
<1>11. Typed'
  BY <1>3, <1>5 DEF Typed
<1> QED BY <1>8, <1>10, <1>11, MemberKeeps

(* The member fails before anything else of its turn changed. *)
LEMMA MemberFailsAtOnce ==
    ASSUME Settings, Inv, serial.step \in Switching \cup {"reserve", "check", "begin"}, serial.turn # 0,
           UNCHANGED <<opt, at, blocked, exit, runs>>, trouble' \in 0 .. MaxTrouble,
           failed' = TRUE, serial' = [serial EXCEPT !.step = After, !.failure = TRUE],
           NEW step \in {"setup", "begin", "start", "ended"},
           st' = [st EXCEPT ![Turn].report = Lost(@, step)] \/ (step = "setup" /\ st' = Failing({Turn}, step)),
           Failure(Lost(st[Turn].report, step)), st[Turn].report.ran # "started"
    PROVE  Inv'
<1>1. /\ Turn \in Target /\ st[Turn] \in TargetState /\ st[Turn].report \in ReportState
      /\ st[Turn].report.built = "yes" /\ st[Turn].report.evaluation = "ok" /\ Typed
  BY TurnIs DEF Inv
<1>2. /\ st' \in [Target -> TargetState] /\ \A s \in Target : s # Turn => st'[s] = st[s]
      /\ st'[Turn].world = st[Turn].world /\ st'[Turn].report = Lost(st[Turn].report, step)
  <2>1. CASE st' = [st EXCEPT ![Turn].report = Lost(@, step)]
    <3> DEFINE r == Lost(st[Turn].report, step)
               e == [st[Turn] EXCEPT !.report = r]
    <3>1. r \in ReportState
      BY <1>1, LostIs
    <3>2. e \in TargetState /\ e.report = r /\ e.world = st[Turn].world
      BY <1>1, <3>1 DEF TargetState
    <3>3. st' = [st EXCEPT ![Turn] = e]
      BY <2>1
    <3> HIDE DEF e, r
    <3>4. /\ st' \in [Target -> TargetState] /\ st'[Turn] = e
          /\ \A s \in Target : s # Turn => st'[s] = st[s]
      BY <1>1, <3>2, <3>3, Replaced
    <3> QED BY <3>2, <3>4 DEF r
  <2>2. CASE step = "setup" /\ st' = Failing({Turn}, step)
    BY <1>1, <2>2, FailingIs
  <2> QED BY <2>1, <2>2
<1>3. \A s \in Target : s # Turn => Alike(st'[s].report, st[s].report) /\ st'[s].world = st[s].world
  BY <1>2 DEF Alike
<1> QED BY <1>1, <1>2, <1>3, MemberFails

(* The preparation of the group, or of the member, fails. *)
LEMMA SetupFails ==
    ASSUME Settings, Inv, at = "single", serial.step \in {"reserve", "check", "begin"},
           UNCHANGED <<opt, at, blocked, exit, runs>>, trouble' \in 0 .. MaxTrouble,
           failed' = TRUE, Stop("release"),
           st' = Failing({Turn}, "setup") \/ st' = [st EXCEPT ![Turn].report = Lost(@, "setup")]
    PROVE  Inv'
<1>1. serial.turn # 0 /\ Untouched(st[Turn].report)
  BY DEF Inv, Rollout
<1>2. st[Turn].report.evaluation = "ok" /\ st[Turn].report.built = "yes" /\ st[Turn].report \in ReportState
  BY <1>1, TurnIs
<1>3. Failure(Lost(st[Turn].report, "setup")) /\ st[Turn].report.ran # "started"
  <2> DEFINE r == Lost(st[Turn].report, "setup")
  <2>1. /\ r.lost = "setup" /\ r.evaluation = "ok" /\ r.built = "yes" /\ r.ran = st[Turn].report.ran
        /\ r.log = st[Turn].report.log /\ r.seconds = st[Turn].report.seconds
        /\ r.gate = st[Turn].report.gate
    BY <1>2, LostIs
  <2> HIDE DEF r
  <2>2. Failure(r)
    BY <1>1, <2>1 DEF Failure, Untouched
  <2> QED BY <1>1, <2>2 DEF r, Untouched
<1>4. serial' = [serial EXCEPT !.step = After, !.failure = TRUE]
  BY DEF Stop, After
<1> QED BY <1>1, <1>3, <1>4, MemberFailsAtOnce

-----------------------------------------------------------------------------
(* What comes between the turns *)

\* A step that leaves the targets, but for what the ready command saw.
QuietStep ==
    /\ at \in {"group", "single"} /\ serial.step \notin Switching /\ serial'.step \notin Switching
    /\ opt' = opt /\ at' = at /\ blocked' = blocked /\ exit' = exit
    /\ \A s \in Target : Alike(st'[s].report, st[s].report) /\ st'[s].world = st[s].world
    /\ failed => failed'
    /\ at = "single" => ~ failed'
    /\ serial.failure => serial'.failure \/ failed'
    /\ at = "group" => serial'.group >= serial.group

\* What it has to show of the members of the group.
Prepared ==
    /\ serial'.step \in {"reserve", "check", "begin"} \/ (serial'.step = "next" /\ ~ serial'.failure) =>
          \A t \in MembersOf(serial'.group) : ~ Half(t)
    /\ serial'.step = "begin" /\ serial'.group \in Gated =>
          \A t \in MembersOf(serial'.group) : t[2] # serial'.turn => st'[t].report.seen
    /\ serial'.step = "next" /\ ~ serial'.switched /\ ~ serial'.failure /\ serial'.group \in Gated =>
          \A t \in MembersOf(serial'.group) : st'[t].report.seen

(* Such a step keeps the invariant. *)
LEMMA QuietKeeps ==
    ASSUME Settings, Inv, QuietStep, Prepared, Left', Rollout', Typed'
    PROVE  Inv'
<1> USE DEF Result
<1>1. /\ at \in {"group", "single"} /\ serial.step \notin Switching /\ serial'.step \notin Switching
      /\ opt' = opt /\ at' = at /\ blocked' = blocked /\ exit' = exit
      /\ Asked' = Asked /\ Asked \subseteq Target
  BY AskedStays DEF QuietStep, Asked, Selected
<1>2. \A s \in Target :
         /\ st'[s].world = st[s].world /\ Alike(st'[s].report, st[s].report)
         /\ st'[s].report.result = st[s].report.result /\ st'[s].report.built = st[s].report.built
         /\ st'[s].report.evaluation = st[s].report.evaluation /\ st'[s].report.lost = st[s].report.lost
         /\ st'[s].report.ran = st[s].report.ran
         /\ (Untouched(st[s].report) => Untouched(st'[s].report))
  BY AlikeReports DEF QuietStep, Alike
<1>3. /\ failed => failed'
      /\ at = "single" => ~ failed'
      /\ serial.failure => serial'.failure \/ failed'
      /\ at = "group" => serial'.group >= serial.group
  BY DEF QuietStep
<1>4. Reports'
  <2> SUFFICES ASSUME NEW s \in Target
               PROVE  /\ Reported(st'[s].report, st'[s].world)
                      /\ st'[s].report.result = "unchanged" => Current(s)'
                      /\ st'[s].report.result # "-" \/ st'[s].report.evaluation # "none" => s \in Asked
                      /\ st'[s].report.result = "failed" => failed'
    BY <1>1 DEF Reports
  <2>1. Current(s)' = Current(s)
    BY <1>2 DEF Current
  <2>2. /\ Reported(st[s].report, st[s].world)
        /\ st[s].report.result = "unchanged" => Current(s)
        /\ st[s].report.result # "-" \/ st[s].report.evaluation # "none" => s \in Asked
        /\ st[s].report.result = "failed" => failed
    BY DEF Inv, Reports
  <2> QED BY <1>2, <1>3, <2>1, <2>2, AlikeReports
<1>5. Early'
  BY <1>1 DEF Early, Before
<1>6. Late'
  <2>1. \A s \in Target : st[s].report.result = "-" => Untouched(st[s].report)
    BY <1>1, OnlyTheTurnWorks
  <2>2. /\ opt.only = "none" /\ (at = "single" <=> opt.host # 0)
        /\ \A s \in Asked : st[s].report.result = "-" => st[s].report.built = "yes"
        /\ \A s \in Asked : st[s].report.result # "-" \/ st[s].report.evaluation # "none"
        /\ \A s \in Target :
              /\ st[s].report.result \in {"-", "skipped", "failed", "unchanged", "ok"}
              /\ at = "single" => st[s].report.result # "skipped" /\ st[s].report.lost \notin {"evaluate", "build"}
    BY <1>1 DEF Inv, Late, Fleet
  <2> QED BY <1>1, <1>2, <2>1, <2>2 DEF Late
<1>7. Verdict'
  <2>1. exit' = "none"
    BY <1>1 DEF Inv, Verdict
  <2>2. \A s \in Target : InGroup(s) /\ st'[s].report.result = "skipped" => failed' \/ serial'.failure
    BY <1>1, <1>2, <1>3 DEF Inv, Verdict
  <2>3. \A s : InGroup(s)' = InGroup(s)
    BY DEF InGroup
  <2> QED BY <1>1, <1>3, <2>1, <2>2, <2>3 DEF Verdict, SuccessIsComplete
<1>8. UntouchedUnlessBuilt'
  BY <1>1, <1>2 DEF Inv, UntouchedUnlessBuilt
<1>9. Turns'
  <2>1. \A i \in DOMAIN SerialGroups : \A t \in MembersOf(i) : t \in Target
    BY MembersAreInGroup
  <2>2. \A t \in Target : (Half(t)' <=> Half(t)) /\ st'[t].report.ran # "started"
    BY <1>1, <1>2, OnlyTheTurnWorks DEF Half
  <2>3. \A i : MembersOf(i)' = MembersOf(i)
    BY DEF MembersOf
  <2>4. /\ \A i \in DOMAIN SerialGroups : \A t, s \in MembersOf(i) : Half(t)' /\ Half(s)' => t = s
        /\ \A i \in blocked : \A t \in MembersOf(i) : st'[t].report.ran = "no"
    BY <1>2, <2>1, <2>2 DEF Inv, Turns, Typed
  <2>5. ASSUME at = "group", NEW t \in Target, NEW i \in Group(t[2]), InGroup(t), i > serial'.group
        PROVE  st'[t].report.ran = "no"
    <3>1. serial.group \in Int /\ serial'.group \in Int /\ i \in Int
      BY DEF Inv, Typed, SerialState, Group, Settings
    <3>2. i > serial.group
      BY <1>3, <2>5, <3>1
    <3> QED BY <1>2, <2>5, <3>2 DEF Inv, Turns
  <2>6. serial'.step # "none" => serial'.group \in DOMAIN SerialGroups
    BY DEF Rollout
  <2>7. serial'.step \in {"reserve", "check", "begin"} \/ (serial'.step = "next" /\ ~ serial'.failure) =>
          \A t \in MembersOf(serial'.group) : ~ Half(t)'
    BY <2>1, <2>2, <2>6 DEF Prepared
  <2>8. serial'.step = "begin" /\ serial'.group \in Gated =>
          \A t \in MembersOf(serial'.group) : t # Turn' => st'[t].report.seen
    <3>1. \A t \in MembersOf(serial'.group) : t # Turn' => t[2] # serial'.turn
      BY DEF MembersOf, Target, Turn
    <3> QED BY <3>1 DEF Prepared
  <2>9. serial'.step \notin {"start", "run"}
    BY <1>1 DEF Switching
  <2>10. serial'.step = "next" /\ ~ serial'.switched /\ ~ serial'.failure /\ serial'.group \in Gated =>
          \A t \in MembersOf(serial'.group) : st'[t].report.seen
    BY DEF Prepared
  <2> QED
    BY <1>1, <2>1, <2>2, <2>3, <2>4, <2>5, <2>7, <2>8, <2>9, <2>10 DEF Turns, InGroup, Group
<1> QED BY <1>4, <1>5, <1>6, <1>7, <1>8, <1>9 DEF Inv

(* The ready command sees some hosts, or has to see them again. *)
LEMMA SeenIs ==
    ASSUME Typed, NEW S \in SUBSET Target, NEW v \in BOOLEAN, NEW s,
           s = Report(S, LAMBDA r : [r EXCEPT !.seen = v])
    PROVE  /\ s \in [Target -> TargetState]
           /\ \A t \in Target : Alike(s[t].report, st[t].report) /\ s[t].world = st[t].world
           /\ \A t \in S : s[t].report.seen = v
<1> DEFINE r(t) == [st[t].report EXCEPT !.seen = v]
           e(t) == [st[t] EXCEPT !.report = r(t)]
<1>1. s = [t \in Target |-> IF t \in S THEN e(t) ELSE st[t]]
  BY DEF Report
<1>2. ASSUME NEW t \in Target
      PROVE  /\ e(t) \in TargetState /\ e(t).world = st[t].world /\ Alike(e(t).report, st[t].report)
             /\ e(t).report.seen = v /\ st[t] \in TargetState
  <2>1. st[t] \in TargetState /\ st[t].report \in ReportState
    BY EntryParts DEF Typed
  <2>2. r(t) \in ReportState /\ Alike(r(t), st[t].report) /\ r(t).seen = v
    BY <2>1 DEF ReportState, Alike
  <2> HIDE DEF r
  <2>3. e(t) \in TargetState /\ e(t).report = r(t) /\ e(t).world = st[t].world
    BY <2>1, <2>2 DEF TargetState
  <2> HIDE DEF e
  <2> QED BY <2>1, <2>2, <2>3
<1>3. \A t \in Target : Alike(st[t].report, st[t].report)
  BY DEF Alike
<1> HIDE DEF e
<1> QED BY <1>1, <1>2, <1>3

(* All are as they were. *)
LEMMA SameIsAlike ==
    ASSUME st' = st
    PROVE  \A s \in Target : Alike(st'[s].report, st[s].report) /\ st'[s].world = st[s].world
BY DEF Alike

(* While the group's rollout goes on, no system that waits was passed by. *)
LEMMA LeftStays ==
    ASSUME Settings, Inv, opt' = opt, at \in {"group", "single"}, at' = at, serial'.group = serial.group,
           serial.step \notin {"none", "release"}, serial'.step \notin {"none", "release"},
           \A s \in Target : Alike(st'[s].report, st[s].report)
    PROVE  Left'
<1>1. Shrinks
  BY DEF Shrinks, Alike
<1>2. Waiting("system")' \subseteq Waiting("system")
  BY <1>1, WaitingShrinks
<1>3. \A s : InGroup(s)' = InGroup(s) /\ Group(s[2])' = Group(s[2])
  BY DEF InGroup, Group
<1> QED BY <1>2, <1>3 DEF Inv, Left

(* The group's rollout ends before its first switch, or between two. *)
LEMMA GroupStops ==
    ASSUME Settings, Inv, at # "single", serial.step \in {"reserve", "check"},
           UNCHANGED <<opt, at, st, blocked, failed, exit, runs>>, trouble' \in 0 .. MaxTrouble,
           Stop("next")
    PROVE  Inv'
<1>1. Typed /\ serial \in SerialState /\ serial.switched \in BOOLEAN /\ at = "group"
      /\ serial.step \notin {"none", "release"} \cup Switching
  BY DEF Inv, Typed, SerialState, Rollout, NoSerial, Switching
<1>2. /\ serial' \in SerialState /\ serial'.step = "next" /\ serial'.failure
      /\ serial'.group = serial.group /\ serial'.turn = serial.turn
  BY <1>1 DEF Stop, SerialState, Switching
<1>3. QuietStep
  BY <1>1, <1>2, SameIsAlike DEF QuietStep, Switching, SerialState
<1>4. Prepared
  BY <1>2 DEF Prepared
<1>5. Left'
  BY <1>1, <1>2, SameIsAlike, LeftStays
<1>6. Rollout'
  <2>1. Asked' = Asked /\ Turn' = Turn
    BY <1>2, AskedStays DEF Turn
  <2> QED BY <1>1, <1>2, <2>1 DEF Inv, Rollout, Switching
<1>7. Typed'
  BY <1>1, <1>2 DEF Typed
<1> QED BY <1>3, <1>4, <1>5, <1>6, <1>7, QuietKeeps

(* The reservation. *)
LEMMA ReserveKeeps ==
    ASSUME Settings, Inv, NEW ok \in BOOLEAN, Reserve(ok)
    PROVE  Inv'
<1>1. /\ serial.step = "reserve" /\ UNCHANGED <<opt, at, blocked, exit, warned, runs>>
      /\ trouble' \in 0 .. MaxTrouble /\ Typed
  BY Counted DEF Reserve, Inv
<1>2. CASE ok /\ serial.group \notin blocked
  <2>1. serial' = [serial EXCEPT !.shared = TRUE, !.step = "check"] /\ UNCHANGED <<st, failed>>
    BY <1>2 DEF Reserve
  <2>2. serial \in SerialState /\ at \in {"group", "single"}
    BY <1>1 DEF Inv, Typed, Rollout, NoSerial
  <2>3. /\ serial' \in SerialState /\ serial'.step = "check" /\ serial'.failure = serial.failure
        /\ serial'.group = serial.group /\ serial'.turn = serial.turn /\ serial'.switched = serial.switched
    BY <2>1, <2>2 DEF SerialState
  <2>4. at = "single" => ~ failed
    BY <1>1 DEF Inv, Verdict
  <2>5. QuietStep
    BY <1>1, <2>1, <2>2, <2>3, <2>4, SameIsAlike DEF QuietStep, Switching, SerialState
  <2>6. Prepared
    BY <1>1, <2>3 DEF Prepared, Inv, Turns
  <2>7. Left'
    BY <1>1, <2>1, <2>2, <2>3, SameIsAlike, LeftStays
  <2>8. Asked' = Asked /\ Turn' = Turn
    BY <1>1, <2>3, AskedStays DEF Turn
  <2>9. Rollout'
    BY <1>1, <1>2, <2>1, <2>2, <2>3, <2>8 DEF Inv, Rollout, Switching, Result
  <2>10. Typed'
    BY <1>1, <2>1, <2>3 DEF Typed
  <2> QED BY <2>5, <2>6, <2>7, <2>9, <2>10, QuietKeeps
<1>3. CASE ~ (ok /\ serial.group \notin blocked) /\ at = "single"
  BY <1>1, <1>3, SetupFails DEF Reserve
<1>4. CASE ~ (ok /\ serial.group \notin blocked) /\ at # "single"
  BY <1>1, <1>4, GroupStops DEF Reserve
<1> QED BY <1>2, <1>3, <1>4

(* The check of the members. *)
LEMMA PrecheckKeeps ==
    ASSUME Settings, Inv, NEW ok \in BOOLEAN, Precheck(ok)
    PROVE  Inv'
<1>1. /\ serial.step = "check" /\ UNCHANGED <<opt, at, blocked, exit, warned, runs>>
      /\ trouble' \in 0 .. MaxTrouble /\ Typed
  BY Counted DEF Precheck, Inv
<1>2. CASE ok
  <2> DEFINE checked == {t \in Target : InGroup(t) /\ serial.group \in Group(t[2]) /\ t[2] # serial.turn}
             step == IF serial.turn = 0 THEN "next" ELSE "begin"
  <2>1. /\ serial' = [serial EXCEPT !.step = step] /\ UNCHANGED failed
        /\ st' = IF serial.group \in Gated THEN Report(checked, LAMBDA r : [r EXCEPT !.seen = TRUE]) ELSE st
    BY <1>2 DEF Precheck, Goto
  <2>2. /\ serial \in SerialState /\ at \in {"group", "single"} /\ serial.group \in DOMAIN SerialGroups
        /\ ~ serial.failure /\ serial.group \notin blocked
    BY <1>1 DEF Inv, Typed, Rollout, NoSerial, Switching
  <2>3. /\ serial' \in SerialState /\ serial'.step = step /\ serial'.failure = serial.failure
        /\ serial'.group = serial.group /\ serial'.turn = serial.turn /\ serial'.switched = serial.switched
    BY <2>1, <2>2 DEF SerialState
  <2>4. at = "single" => ~ failed /\ serial.turn # 0
    BY <1>1 DEF Inv, Verdict, Rollout
  <2>5. /\ st' \in [Target -> TargetState]
        /\ \A t \in Target : Alike(st'[t].report, st[t].report) /\ st'[t].world = st[t].world
        /\ serial.group \in Gated => \A t \in checked : st'[t].report.seen
    <3>1. CASE serial.group \in Gated
      <4> DEFINE s == Report(checked, LAMBDA r : [r EXCEPT !.seen = TRUE])
      <4>1. st' = s /\ checked \in SUBSET Target
        BY <2>1, <3>1
      <4> HIDE DEF checked
      <4>2. /\ s \in [Target -> TargetState]
            /\ \A t \in Target : Alike(s[t].report, st[t].report) /\ s[t].world = st[t].world
            /\ \A t \in checked : s[t].report.seen = TRUE
        BY <1>1, <4>1, SeenIs
      <4> HIDE DEF s
      <4> QED BY <4>1, <4>2
    <3>2. CASE serial.group \notin Gated
      <4>1. st' = st
        BY <2>1, <3>2
      <4> QED BY <1>1, <3>2, <4>1, SameIsAlike DEF Typed
    <3> QED BY <3>1, <3>2
  <2>6. step \in {"next", "begin"} /\ (step = "next" <=> serial.turn = 0)
    OBVIOUS
  <2>7. \A t \in MembersOf(serial.group) : t[2] # serial.turn => t \in checked
    BY <2>2, MembersAreInGroup
  <2>8. \A t \in MembersOf(serial.group) : t[2] # 0
    BY TargetIs DEF MembersOf
  <2> HIDE DEF step, checked
  <2>9. QuietStep
    <3>1. failed' = failed /\ serial'.group = serial.group /\ serial.group \in Int
      BY <2>1, <2>2, <2>3 DEF SerialState
    <3>2. serial.step \notin Switching /\ serial'.step \notin Switching
      BY <1>1, <2>3, <2>6 DEF Switching
    <3> QED BY <1>1, <2>2, <2>4, <2>5, <3>1, <3>2 DEF QuietStep
  <2>10. Prepared
    <3>1. \A t \in MembersOf(serial.group) : ~ Half(t)
      BY <1>1 DEF Inv, Turns
    <3> QED BY <2>3, <2>5, <2>6, <2>7, <2>8, <3>1 DEF Prepared
  <2>11. Left'
    BY <1>1, <2>2, <2>3, <2>5, <2>6, LeftStays
  <2>12. Asked' = Asked /\ Turn' = Turn
    BY <1>1, <2>3, AskedStays DEF Turn
  <2>13. Rollout'
    <3>1. serial.turn # 0 => /\ serial.turn \in SerialGroups[serial.group] /\ Turn \in Asked /\ Turn \in Target
                             /\ st[Turn].report.built = "yes" /\ st[Turn].report.result = "-"
                             /\ Untouched(st[Turn].report)
      BY <1>1 DEF Inv, Rollout, Result, Asked, Selected
    <3>2. serial.turn # 0 => /\ st'[Turn].report.built = "yes" /\ st'[Turn].report.result = "-"
                             /\ Untouched(st'[Turn].report)
      BY <2>5, <3>1, AlikeReports DEF Alike
    <3> QED BY <1>1, <2>2, <2>3, <2>4, <2>6, <2>12, <3>1, <3>2 DEF Rollout, Switching, Result
  <2>14. Typed'
    BY <1>1, <2>1, <2>3, <2>5 DEF Typed
  <2> QED BY <2>9, <2>10, <2>11, <2>13, <2>14, QuietKeeps
<1>3. CASE ~ ok /\ at = "single"
  BY <1>1, <1>3, SetupFails DEF Precheck
<1>4. CASE ~ ok /\ at # "single"
  BY <1>1, <1>4, GroupStops DEF Precheck
<1> QED BY <1>2, <1>3, <1>4

(* The next group of a fleet's run. *)
LEMMA NextGroupKeeps ==
    ASSUME Settings, Inv, NextGroup
    PROVE  Inv'
<1> USE DEF Result
<1> DEFINE g == serial.group + 1
<1>1. /\ at = "group" /\ serial.step = "none" /\ UNCHANGED <<opt, st, blocked, failed, exit, warned, runs, trouble>>
  BY DEF NextGroup
<1>2. /\ Typed /\ serial \in SerialState /\ ~ serial.failure /\ serial.group \in Nat /\ g \in Nat \ {0}
      /\ trouble' \in 0 .. MaxTrouble /\ Turns /\ Rollout /\ Len(SerialGroups) \in Nat
  BY <1>1 DEF Inv, Typed, SerialState, Rollout, Settings
<1>3. \A t \in Target : Result(t) = "-" => Untouched(st[t].report)
  BY <1>1, OnlyTheTurnWorks DEF Switching
<1>4. Waiting("system")' = Waiting("system") /\ \A s : InGroup(s)' = InGroup(s) /\ Group(s[2])' = Group(s[2])
  BY <1>1, AskedStays DEF Waiting, Ready, InGroup, Group
<1>5. ASSUME NEW t \in Waiting("system")
      PROVE  InGroup(t) /\ \A i \in Group(t[2]) : i \in 1 .. Len(SerialGroups) /\ i >= g
  <2>1. InGroup(t) /\ \A i \in Group(t[2]) : i > serial.group
    BY <1>1 DEF Inv, Left
  <2>2. \A i \in Group(t[2]) : i \in 1 .. Len(SerialGroups)
    BY DEF Group, Settings
  <2> QED BY <1>2, <2>1, <2>2
<1>6. CASE g > Len(SerialGroups)
  <2>1. at' = "homes" /\ serial' = NoSerial /\ at \in Fleet /\ at' \in Fleet
    BY <1>1, <1>6 DEF NextGroup, Fleet
  <2>2. Waiting("system") = {}
    <3>1. SUFFICES ASSUME NEW t \in Waiting("system") PROVE FALSE
      OBVIOUS
    <3>2. PICK i \in Group(t[2]) : TRUE
      BY <1>5, <3>1 DEF InGroup
    <3>3. i \in 1 .. Len(SerialGroups) /\ i >= g
      BY <1>5
    <3> HIDE DEF g
    <3> QED BY <1>2, <1>6, <3>3
  <2>3. Left'
    BY <1>4, <2>1, <2>2 DEF Left
  <2>4. Turns'
    BY <1>1, <1>2, <2>1, TurnsStay
  <2> QED BY <1>1, <1>2, <1>3, <2>1, <2>3, <2>4, FleetMoves
<1>7. CASE ~ (g > Len(SerialGroups))
  <2> DEFINE step == IF \E t \in Waiting("system") : g \in Group(t[2]) THEN "reserve" ELSE "none"
  <2>1. at' = at /\ serial' = [NoSerial EXCEPT !.group = g, !.step = step]
    BY <1>1, <1>7 DEF NextGroup
  <2>2. g \in 1 .. Len(SerialGroups) /\ g \in DOMAIN SerialGroups /\ g \in 0 .. Len(SerialGroups)
    BY <1>2, <1>7 DEF Settings
  <2>3. step \in {"none", "reserve"}
    OBVIOUS
  <2>4. \A t \in Waiting("system") : g \in Group(t[2]) => step = "reserve"
    OBVIOUS
  <2>5. serial.group <= g /\ \A i \in 1 .. Len(SerialGroups) : i > g => i > serial.group
    BY <1>2
  <2>6. g > serial.group
    BY <1>2
  <2> HIDE DEF step, g
  <2>7. /\ serial' \in SerialState /\ serial'.step = step /\ serial'.group = g /\ serial'.turn = 0
        /\ ~ serial'.failure /\ ~ serial'.switched
    <3>1. 0 \in 0 .. HostCount
      BY DEF Settings
    <3> QED BY <2>1, <2>2, <2>3, <3>1 DEF NoSerial, SerialState
  <2>8. QuietStep
    <3>1. serial.step \notin Switching /\ serial'.step \notin Switching
      BY <1>1, <2>3, <2>7 DEF Switching
    <3>2. \A s \in Target : Alike(st'[s].report, st[s].report) /\ st'[s].world = st[s].world
      BY <1>1, SameIsAlike
    <3> QED BY <1>1, <1>2, <2>1, <2>5, <2>7, <3>1, <3>2 DEF QuietStep
  <2>9. Prepared
    <3>1. ASSUME NEW t \in MembersOf(g) PROVE ~ Half(t)
      <4>1. t \in Target /\ InGroup(t) /\ g \in Group(t[2])
        BY <2>2, MembersAreInGroup
      <4> QED BY <1>1, <1>2, <2>6, <4>1 DEF Turns, Half
    <3> QED BY <2>3, <2>7, <3>1 DEF Prepared
  <2>10. Left'
    <3>1. ASSUME NEW t \in Waiting("system"), NEW i \in Group(t[2])
          PROVE  i > g \/ (i = g /\ step \notin {"none", "release"})
      <4>1. i \in 1 .. Len(SerialGroups) /\ i >= g
        BY <1>5
      <4>2. CASE i = g
        BY <2>4, <4>2
      <4>3. CASE i # g
        BY <1>2, <2>2, <4>1, <4>3
      <4> QED BY <4>2, <4>3
    <3> QED BY <1>1, <1>4, <1>5, <2>1, <2>7, <3>1 DEF Left
  <2>11. Rollout'
    BY <1>1, <2>1, <2>2, <2>3, <2>7 DEF Rollout, Switching
  <2>12. Typed'
    BY <1>1, <1>2, <2>1, <2>7 DEF Typed
  <2> QED BY <2>8, <2>9, <2>10, <2>11, <2>12, QuietKeeps
<1> QED BY <1>6, <1>7

(* A single host's group. *)
LEMMA SingleGroupKeeps ==
    ASSUME Settings, Inv, SingleGroup
    PROVE  Inv'
<1> USE DEF Result
<1>1. /\ at = "single" /\ serial.step = "none" /\ UNCHANGED <<opt, at, st, blocked, failed, exit, warned, runs, trouble>>
  BY DEF SingleGroup
<1>2. /\ Typed /\ ~ serial.failure /\ ~ failed /\ trouble' \in 0 .. MaxTrouble /\ opt.host # 0 /\ Reports
  BY <1>1 DEF Inv, Typed, Rollout, Verdict, Late
<1>3. PICK t \in Waiting("system") : \E g \in Group(t[2]) :
         serial' = [NoSerial EXCEPT !.group = g, !.step = "reserve", !.turn = t[2]]
  BY DEF SingleGroup
<1>14. PICK g \in Group(t[2]) : serial' = [NoSerial EXCEPT !.group = g, !.step = "reserve", !.turn = t[2]]
  BY <1>3
<1>4. /\ t \in Ready /\ t[1] = "system" /\ st[t].report.result = "-" /\ t \in Target /\ t \in Asked
      /\ st[t].report.built = "yes" /\ t[2] \in 1 .. HostCount /\ t = <<"system", t[2]>>
  BY <1>2, ReadyIs, TargetIs DEF Waiting, Host
<1>5. g \in DOMAIN SerialGroups /\ t[2] \in SerialGroups[g] /\ g \in 0 .. Len(SerialGroups)
  BY DEF Group, Settings
<1>6. t[2] \in 0 .. HostCount /\ t[2] # 0
  BY <1>4 DEF Settings
<1>7. Untouched(st[t].report)
  BY <1>1, <1>4, OnlyTheTurnWorks DEF Switching
<1>8. /\ serial' \in SerialState /\ serial'.step = "reserve" /\ serial'.group = g /\ serial'.turn = t[2]
      /\ ~ serial'.failure /\ ~ serial'.switched
  BY <1>5, <1>6, <1>14 DEF NoSerial, SerialState
<1>9. QuietStep
  <2>1. serial.step \notin Switching /\ serial'.step \notin Switching
    BY <1>1, <1>8 DEF Switching
  <2> QED BY <1>1, <1>2, <2>1, SameIsAlike DEF QuietStep
<1>10. Prepared
  <2>1. ASSUME NEW s \in MembersOf(g), Half(s) PROVE FALSE
    <3>1. s \in Target /\ s[1] = "system" /\ st[s].report.ran # "no"
      BY <1>5, <2>1, MembersAreInGroup DEF Half
    <3>2. st[s].report.evaluation = "ok"
      BY <1>2, <3>1 DEF Reports, Reported
    <3>3. s \in Asked
      BY <1>2, <3>1, <3>2 DEF Reports
    <3>4. s[2] = opt.host /\ t[2] = opt.host
      BY <1>2, <1>4, <3>3 DEF Asked, Selected
    <3>5. s = t
      BY <1>4, <3>1, <3>4, TargetIs
    <3> QED BY <1>7, <3>1, <3>5 DEF Untouched
  <2> QED BY <1>8, <2>1 DEF Prepared
<1>11. Left'
  BY <1>1 DEF Left
<1>12. Rollout'
  <2>1. Turn' = t /\ Asked' = Asked
    BY <1>1, <1>4, <1>8, AskedStays DEF Turn
  <2> QED BY <1>1, <1>4, <1>5, <1>6, <1>7, <1>8, <2>1 DEF Rollout, Switching
<1>13. Typed'
  BY <1>1, <1>2, <1>8 DEF Typed
<1> QED BY <1>9, <1>10, <1>11, <1>12, <1>13, QuietKeeps

(* The members that wait. *)
LEMMA MembersWait ==
    ASSUME Settings, Inv, serial.step = "next"
    PROVE  /\ at = "group" /\ serial.group \in DOMAIN SerialGroups /\ Members \subseteq Target
           /\ \A t \in Members :
                 /\ t \in Target /\ t \in Asked /\ t[1] = "system" /\ InGroup(t) /\ t[2] \in SerialGroups[serial.group]
                 /\ st[t].report.built = "yes" /\ Result(t) = "-" /\ Untouched(st[t].report)
                 /\ t[2] \in 1 .. HostCount /\ t = <<"system", t[2]>> /\ st[t] \in TargetState
<1> USE DEF Result
<1>1. at = "group" /\ serial.group \in DOMAIN SerialGroups /\ Typed /\ Reports
  BY DEF Inv, Rollout, NoSerial
<1>2. ASSUME NEW t \in Members
      PROVE  /\ t \in Target /\ t \in Asked /\ t[1] = "system" /\ InGroup(t) /\ t[2] \in SerialGroups[serial.group]
             /\ st[t].report.built = "yes" /\ st[t].report.result = "-" /\ Untouched(st[t].report)
             /\ t[2] \in 1 .. HostCount /\ t = <<"system", t[2]>> /\ st[t] \in TargetState
  <2>1. t \in Waiting("system") /\ serial.group \in Group(t[2])
    BY DEF Members
  <2>2. /\ t \in Ready /\ t[1] = "system" /\ st[t].report.result = "-" /\ t \in Target /\ t \in Asked
        /\ st[t].report.built = "yes" /\ t[2] \in 1 .. HostCount /\ t = <<"system", t[2]>>
        /\ st[t] \in TargetState
    BY <1>1, <2>1, ReadyIs, TargetIs DEF Waiting, Host
  <2>3. InGroup(t) /\ t[2] \in SerialGroups[serial.group]
    BY <2>1, <2>2 DEF InGroup, Group
  <2>4. Untouched(st[t].report)
    BY <1>1, <2>2, OnlyTheTurnWorks DEF Switching
  <2> QED BY <2>2, <2>3, <2>4
<1> QED BY <1>1, <1>2

(* The turn of the next member. *)
LEMMA TurnBegins ==
    ASSUME Settings, Inv, NextMember, Members # {}, ~ serial.failure
    PROVE  Inv'
<1> USE DEF Result
<1> DEFINE t == First(Members)
           step == IF serial.switched /\ serial.group \in Gated THEN "check" ELSE "begin"
<1>1. /\ serial.step = "next" /\ UNCHANGED <<opt, at, st, blocked, failed, exit, warned, runs, trouble>>
      /\ serial' = [serial EXCEPT !.turn = t[2], !.step = step]
  BY DEF NextMember
<1>2. at = "group" /\ serial.group \in DOMAIN SerialGroups /\ Members \subseteq Target
  BY <1>1, MembersWait
<1>3. t \in Members
  BY <1>2, FirstOf
<1>4. step \in {"check", "begin"} /\ (step = "begin" /\ serial.group \in Gated => ~ serial.switched)
  OBVIOUS
<1> HIDE DEF t, step
<1>5. /\ t \in Asked /\ t[2] \in SerialGroups[serial.group] /\ st[t].report.built = "yes"
      /\ st[t].report.result = "-" /\ Untouched(st[t].report) /\ t[2] \in 1 .. HostCount /\ t = <<"system", t[2]>>
  BY <1>1, <1>3, MembersWait
<1>6. Typed /\ serial \in SerialState /\ serial.switched \in BOOLEAN /\ serial.group \in Int /\ HostCount \in Nat
  BY DEF Inv, Typed, SerialState, Settings
<1>7. t[2] \in 0 .. HostCount /\ t[2] # 0
  BY <1>5, <1>6
<1>8. /\ serial' \in SerialState /\ serial'.step = step /\ serial'.group = serial.group
      /\ serial'.turn = t[2] /\ serial'.failure = serial.failure /\ serial'.switched = serial.switched
  BY <1>1, <1>4, <1>6, <1>7 DEF SerialState
<1>9. QuietStep
  <2>1. serial.step \notin Switching /\ serial'.step \notin Switching
    BY <1>1, <1>4, <1>8 DEF Switching
  <2> QED BY <1>1, <1>2, <1>6, <1>8, <2>1, SameIsAlike DEF QuietStep
<1>10. Prepared
  <2>1. /\ \A s \in MembersOf(serial.group) : ~ Half(s)
        /\ ~ serial.switched /\ serial.group \in Gated => \A s \in MembersOf(serial.group) : st[s].report.seen
    BY <1>1 DEF Inv, Turns
  <2> QED BY <1>1, <1>4, <1>8, <2>1 DEF Prepared
<1>11. Left'
  BY <1>1, <1>2, <1>4, <1>8, SameIsAlike, LeftStays
<1>12. Rollout'
  <2>1. Turn' = t /\ Asked' = Asked
    BY <1>1, <1>5, <1>8, AskedStays DEF Turn
  <2>2. serial.group \notin blocked
    BY <1>1 DEF Inv, Rollout
  <2> QED BY <1>1, <1>2, <1>4, <1>5, <1>7, <1>8, <2>1, <2>2 DEF Rollout, Switching
<1>13. Typed'
  BY <1>1, <1>8 DEF Inv, Typed
<1> QED BY <1>9, <1>10, <1>11, <1>12, <1>13, QuietKeeps

(* The members that are left when the group's rollout ends. *)
LEMMA GroupEnds ==
    ASSUME Settings, Inv, NextMember, Members = {} \/ serial.failure
    PROVE  Inv'
<1> USE DEF Result
<1> DEFINE e(t) == [st[t] EXCEPT !.report = [st[t].report EXCEPT !.result = "skipped"]]
<1>1. /\ serial.step = "next" /\ UNCHANGED <<opt, at, blocked, failed, exit, warned, runs, trouble>>
      /\ serial' = [serial EXCEPT !.step = "release"]
      /\ st' = [t \in Target |-> IF t \in Members THEN e(t) ELSE st[t]]
  BY DEF NextMember, Goto, Report
<1>2. /\ at = "group" /\ serial.group \in DOMAIN SerialGroups
      /\ \A t \in Members :
            /\ t \in Target /\ t \in Asked /\ InGroup(t)
            /\ st[t].report.built = "yes" /\ st[t].report.result = "-" /\ Untouched(st[t].report)
  BY <1>1, MembersWait
<1>3. Typed /\ Asked' = Asked /\ Asked \subseteq Target
  BY <1>1, AskedStays DEF Inv, Asked, Selected
<1>4. ASSUME NEW t \in Members
      PROVE  /\ e(t) \in TargetState /\ e(t).world = st[t].world /\ e(t).report.result = "skipped"
             /\ Reported(e(t).report, st[t].world) /\ Untouched(e(t).report)
             /\ e(t).report.built = "yes" /\ e(t).report.ran = "no" /\ e(t).report.evaluation = "ok"
             /\ e(t).report.lost = st[t].report.lost
  <2> DEFINE q == st[t].report
             r == [q EXCEPT !.result = "skipped"]
  <2>1. st[t] \in TargetState /\ q \in ReportState /\ t \in Target
    BY <1>2, <1>3, EntryParts DEF Typed
  <2>2. Reported(q, st[t].world) /\ Untouched(q) /\ q.built = "yes" /\ q.result = "-"
    BY <1>2, <2>1 DEF Inv, Reports
  <2> HIDE DEF q
  <2>3. /\ r \in ReportState /\ r.result = "skipped" /\ r.evaluation = q.evaluation /\ r.built = q.built
        /\ r.log = q.log /\ r.seconds = q.seconds /\ r.gate = q.gate /\ r.lost = q.lost /\ r.ran = q.ran
    BY <2>1 DEF ReportState
  <2>4. e(t) \in TargetState /\ e(t).report = r /\ e(t).world = st[t].world
    BY <2>1, <2>3 DEF TargetState, q
  <2> HIDE DEF r, e
  <2>5. Untouched(r) /\ Reported(r, st[t].world)
    BY <2>2, <2>3 DEF Untouched, Reported
  <2>6. r.ran = "no" /\ r.evaluation = "ok"
    BY <2>2, <2>3 DEF Untouched, Reported
  <2> QED BY <2>2, <2>3, <2>4, <2>5, <2>6 DEF q
<1> HIDE DEF e
<1>5. /\ st' \in [Target -> TargetState]
      /\ \A t \in Members : st'[t] = e(t)
      /\ \A t \in Target : t \notin Members => st'[t] = st[t]
  BY <1>1, <1>2, <1>3, <1>4 DEF Typed
<1>6. \A t \in Target :
         /\ st'[t].report.built = st[t].report.built /\ st'[t].report.ran = st[t].report.ran
         /\ st'[t].report.lost = st[t].report.lost
         /\ st'[t].report.result = st[t].report.result \/ (t \in Members /\ st'[t].report.result = "skipped")
         /\ st'[t].report.evaluation = st[t].report.evaluation \/ st'[t].report.evaluation = "ok"
  BY <1>2, <1>4, <1>5 DEF Untouched
<1>7. serial \in SerialState
  BY <1>3 DEF Typed
<1>8. /\ serial' \in SerialState /\ serial'.step = "release" /\ serial'.group = serial.group
      /\ serial'.turn = serial.turn /\ serial'.failure = serial.failure
  BY <1>1, <1>7 DEF SerialState
<1>9. Reports'
  <2> SUFFICES ASSUME NEW t \in Target
               PROVE  /\ Reported(st'[t].report, st'[t].world)
                      /\ st'[t].report.result = "unchanged" => Current(t)'
                      /\ st'[t].report.result # "-" \/ st'[t].report.evaluation # "none" => t \in Asked
                      /\ st'[t].report.result = "failed" => failed'
    BY <1>3 DEF Reports
  <2>1. CASE t \in Members
    BY <1>2, <1>4, <1>5, <2>1
  <2>2. CASE t \notin Members
    BY <1>1, <1>5, <2>2 DEF Inv, Reports, Current
  <2> QED BY <2>1, <2>2
<1>10. Early'
  BY <1>1, <1>2 DEF Early, Before
<1>11. \A t \in Target : st[t].report.result = "-" => Untouched(st[t].report)
  BY <1>1, <1>2, OnlyTheTurnWorks DEF Switching
<1>12. Late'
  <2>1. /\ opt.only = "none" /\ (at = "single" <=> opt.host # 0)
        /\ \A s \in Asked : st[s].report.result = "-" => st[s].report.built = "yes"
        /\ \A s \in Asked : st[s].report.result # "-" \/ st[s].report.evaluation # "none"
        /\ \A s \in Target : st[s].report.result \in {"-", "skipped", "failed", "unchanged", "ok"}
    BY <1>2 DEF Inv, Late, Fleet
  <2>2. \A s \in Target : st'[s].report.result = "-" => st'[s] = st[s] /\ st[s].report.result = "-"
    <3>1. \A s \in Members : st'[s].report.result = "skipped"
      BY <1>4, <1>5
    <3> QED BY <1>5, <3>1
  <2>3. \A s \in Asked : st'[s].report.result = "-" => st'[s].report.built = "yes"
    BY <1>3, <2>1, <2>2
  <2>4. \A s \in Asked : st'[s].report.result # "-" \/ st'[s].report.evaluation # "none"
    BY <1>3, <2>1, <2>2
  <2>5. \A s \in Target : /\ st'[s].report.result \in {"-", "skipped", "failed", "unchanged", "ok"}
                          /\ st'[s].report.result = "-" => Untouched(st'[s].report)
    BY <1>6, <1>11, <2>1, <2>2
  <2> QED BY <1>1, <1>2, <1>3, <2>1, <2>3, <2>4, <2>5 DEF Late
<1>13. Left'
  <2>1. Waiting("system")' \subseteq Waiting("system") /\ \A t \in Waiting("system")' : t \notin Members
    <3>1. Shrinks
      BY <1>6 DEF Shrinks
    <3>2. \A t \in Members : st'[t].report.result = "skipped"
      BY <1>4, <1>5
    <3> QED BY <1>1, <3>1, <3>2, WaitingShrinks DEF Waiting
  <2>2. ASSUME NEW t \in Waiting("system")'
        PROVE  InGroup(t) /\ \A i \in Group(t[2]) : i > serial.group
    <3>1. t \in Waiting("system") /\ serial.group \notin Group(t[2])
      BY <2>1, <2>2 DEF Members
    <3> QED BY <1>2, <3>1 DEF Inv, Left
  <2> QED BY <1>1, <1>2, <1>8, <2>2 DEF Left, InGroup, Group
<1>14. Verdict'
  <2>1. exit' = "none"
    BY <1>1, <1>2 DEF Inv, Verdict
  <2>2. ASSUME NEW t \in Target, InGroup(t), st'[t].report.result = "skipped" PROVE failed' \/ serial'.failure
    <3>1. CASE t \in Members
      <4>1. serial.failure
        BY <3>1
      <4> QED BY <1>8, <4>1
    <3>2. CASE t \notin Members
      <4>1. failed \/ serial.failure
        BY <1>2, <1>5, <2>2, <3>2 DEF Inv, Verdict
      <4> QED BY <1>1, <1>8, <4>1
    <3> QED BY <3>1, <3>2
  <2>3. \A s : InGroup(s)' = InGroup(s)
    BY DEF InGroup
  <2> QED BY <1>1, <1>2, <2>1, <2>2, <2>3 DEF Verdict, SuccessIsComplete
<1>15. Rollout'
  <2>1. Turn' = Turn
    BY <1>8 DEF Turn
  <2>2. serial.turn # 0 => /\ serial.turn \in SerialGroups[serial.group] /\ Turn \in Asked
                           /\ st[Turn].report.built = "yes"
    BY <1>1 DEF Inv, Rollout
  <2> QED BY <1>1, <1>2, <1>3, <1>6, <1>8, <2>1, <2>2 DEF Rollout, Switching
<1>16. Turns'
  <2>1. \A t \in Target : /\ Half(t)' => Half(t)
                          /\ st'[t].report.ran = st[t].report.ran /\ st[t].report.ran # "started"
    <3>1. \A t \in Target : st[t].report.ran # "started"
      BY <1>1, <1>2, OnlyTheTurnWorks DEF Switching
    <3>2. \A t \in Members : st'[t].report.ran = "no"
      BY <1>4, <1>5
    <3> QED BY <1>6, <3>1, <3>2 DEF Half
  <2>2. \A i \in DOMAIN SerialGroups : \A t \in MembersOf(i) : t \in Target
    BY MembersAreInGroup
  <2>3. \A i : MembersOf(i)' = MembersOf(i)
    BY DEF MembersOf
  <2>4. /\ \A i \in DOMAIN SerialGroups : \A t, s \in MembersOf(i) :
              /\ Half(t)' /\ Half(s)' => t = s
              /\ i \in Gated /\ st'[t].report.ran = "started" /\ s # t => st'[s].report.seen
        /\ \A i \in blocked : \A t \in MembersOf(i) : st'[t].report.ran = "no"
    BY <1>3, <2>1, <2>2 DEF Inv, Turns, Typed
  <2>5. \A t \in Target : \A i \in Group(t[2]) : InGroup(t) /\ i > serial.group => st'[t].report.ran = "no"
    BY <1>2, <2>1 DEF Inv, Turns
  <2> QED BY <1>1, <1>2, <1>8, <2>3, <2>4, <2>5 DEF Turns, InGroup, Group
<1>17. UntouchedUnlessBuilt'
  BY <1>1, <1>3, <1>6 DEF Inv, UntouchedUnlessBuilt
<1>18. Typed'
  BY <1>1, <1>3, <1>5, <1>8 DEF Typed
<1> QED BY <1>9, <1>10, <1>12, <1>13, <1>14, <1>15, <1>16, <1>17, <1>18 DEF Inv

-----------------------------------------------------------------------------
(* The turn of a member that goes well *)

(* The member's turn goes on with what was done to it. *)
LEMMA TurnGoesOn ==
    ASSUME Settings, Inv, serial.step \in Switching \cup {"begin"}, serial.turn # 0,
           UNCHANGED <<opt, at, blocked, failed, exit, runs>>, trouble' \in 0 .. MaxTrouble,
           NEW e \in TargetState, st' = [st EXCEPT ![Turn] = e],
           NEW step \in {"start", "run", "ended", "gate"}, serial' \in SerialState, serial'.step = step,
           serial'.group = serial.group, serial'.turn = serial.turn,
           serial'.failure = serial.failure, serial'.switched,
           e.report.evaluation = "ok", e.report.built = "yes", e.report.result = "-", e.report.lost = "none",
           e.report.seen = st[Turn].report.seen, Reported(e.report, e.world),
           step = "start" <=> serial.step = "begin", step = "run" <=> serial.step = "start",
           step = "start" => e.report.ran = "no" /\ ~ e.report.seconds,
           step = "run" => e.report.ran = "started" /\ ~ e.report.seconds,
           step = "ended" => e.report.ran \in {"failed", "worked"} /\ ~ e.report.seconds,
           step = "gate" => e.report.ran = "worked" /\ e.report.seconds
    PROVE  Inv'
<1> USE DEF Result
<1>1. /\ Turn \in Target /\ Turn \in Asked /\ at \in {"group", "single"} /\ ~ serial.failure
      /\ serial.group \in DOMAIN SerialGroups /\ st[Turn].report.result = "-"
      /\ st[Turn].report.built = "yes" /\ st[Turn].report.evaluation = "ok"
  BY TurnIs
<1>2. Typed
  BY DEF Inv
<1>3. /\ st' \in [Target -> TargetState] /\ st'[Turn] = e
      /\ \A s \in Target : s # Turn => st'[s] = st[s]
  BY <1>1, <1>2, Replaced
<1>4. Turn' = Turn /\ Asked' = Asked
  BY AskedStays DEF Turn
<1>5. serial.turn \in SerialGroups[serial.group] /\ serial.group \notin blocked
  BY DEF Inv, Rollout, Switching
<1>6. serial.step = "begin" => st[Turn].report.ran = "no"
  BY DEF Inv, Rollout, Untouched
<1>7. MemberStep
  <2>1. \A s \in Target : s # Turn => Alike(st'[s].report, st[s].report) /\ st'[s].world = st[s].world
    BY <1>3 DEF Alike
  <2>2. \A s \in Target : st'[s].report.seen = st[s].report.seen
    BY <1>1, <1>3
  <2>3. e.report.ran # st[Turn].report.ran => serial.step \in Switching
    BY <1>6
  <2>4. \/ serial.step = "begin" /\ serial'.step = "start" /\ e.report.ran = "no"
        \/ serial.step = "start" /\ serial'.step = "run" /\ e.report.ran = "started"
        \/ serial'.step \in {"ended", "gate"} /\ e.report.ran # "started"
    OBVIOUS
  <2> QED BY <1>1, <1>3, <2>1, <2>2, <2>3, <2>4 DEF MemberStep
<1>8. Rollout'
  BY <1>1, <1>3, <1>4, <1>5 DEF Rollout, Switching
<1>9. Typed'
  BY <1>2, <1>3 DEF Typed
<1> QED BY <1>7, <1>8, <1>9, MemberKeeps

(* Another step of the rollout. *)
LEMMA StepIs ==
    ASSUME Settings, Typed, NEW step \in Steps, Goto(step)
    PROVE  /\ serial' \in SerialState /\ serial'.step = step /\ serial'.failure = serial.failure
           /\ serial'.group = serial.group /\ serial'.turn = serial.turn
           /\ serial'.switched = serial.switched
<1>1. serial \in SerialState
  BY DEF Typed
<1> QED BY <1>1 DEF Goto, SerialState, Steps

(* The begin of a member's turn: its mark. *)
LEMMA BeginMemberKeeps ==
    ASSUME Settings, Inv, BeginMember("start")
    PROVE  Inv'
<1> USE DEF Result
<1>1. /\ serial.step = "begin" /\ UNCHANGED <<opt, at, blocked, exit, warned, runs, failed>> /\ Fails(TRUE)
      /\ st' = [st EXCEPT ![Turn] = [@ EXCEPT !.world.mark = TRUE, !.report.log = ReadsOutput(Turn)]]
      /\ serial' = [serial EXCEPT !.step = "start", !.switched = TRUE]
  BY DEF BeginMember
<1>2. Typed /\ serial \in SerialState /\ serial.turn # 0 /\ trouble' \in 0 .. MaxTrouble
  BY <1>1, Counted DEF Inv, Typed, Rollout
<1>3. /\ Turn \in Target /\ st[Turn] \in TargetState /\ st[Turn].report \in ReportState
      /\ st[Turn].world \in WorldState /\ Reported(st[Turn].report, st[Turn].world)
      /\ st[Turn].report.built = "yes" /\ st[Turn].report.evaluation = "ok"
      /\ st[Turn].report.result = "-" /\ st[Turn].report.lost = "none"
  BY <1>1, <1>2, TurnIs
<1>4. Untouched(st[Turn].report)
  BY <1>1, <1>2 DEF Inv, Rollout
<1> DEFINE q == st[Turn].report
           v == st[Turn].world
           r == [q EXCEPT !.log = ReadsOutput(Turn)]
           w == [v EXCEPT !.mark = TRUE]
           e == [st[Turn] EXCEPT !.world = w, !.report = r]
<1>5. st' = [st EXCEPT ![Turn] = e]
  BY <1>1, <1>2, <1>3 DEF Typed
<1>6. ReadsOutput(Turn) \in BOOLEAN
  BY DEF ReadsOutput
<1> HIDE DEF q, v
<1>7. /\ r \in ReportState /\ r.result = q.result /\ r.evaluation = q.evaluation /\ r.built = q.built
      /\ r.seconds = q.seconds /\ r.gate = q.gate /\ r.lost = q.lost /\ r.ran = q.ran /\ r.seen = q.seen
  BY <1>3, <1>6 DEF ReportState, q
<1>8. w \in WorldState /\ w.mark = TRUE /\ w.gen = v.gen /\ w.faulty = v.faulty
  BY <1>3 DEF WorldState, v
<1> HIDE DEF r, w
<1>9. e \in TargetState /\ e.report = r /\ e.world = w
  BY <1>3, <1>7, <1>8 DEF TargetState
<1> HIDE DEF e
<1>10. r.ran = "no" /\ ~ r.seconds /\ ~ r.gate
  BY <1>4, <1>7 DEF Untouched, q
<1>11. Reported(r, w)
  BY <1>3, <1>7, <1>8, <1>10 DEF Reported, q
<1>12. /\ serial' \in SerialState /\ serial'.step = "start" /\ serial'.failure = serial.failure
       /\ serial'.group = serial.group /\ serial'.turn = serial.turn /\ serial'.switched
  BY <1>1, <1>2 DEF SerialState, Switching
<1>15. e.report.ran = "no" /\ ~ e.report.seconds /\ serial.step = "begin"
  BY <1>1, <1>9, <1>10
<1>13. /\ e.report.evaluation = "ok" /\ e.report.built = "yes" /\ e.report.result = "-"
      /\ e.report.lost = "none" /\ e.report.seen = st[Turn].report.seen /\ Reported(e.report, e.world)
  BY <1>3, <1>7, <1>9, <1>11 DEF q
<1>14. serial.step \in Switching \cup {"begin"} /\ UNCHANGED <<opt, at, blocked, failed, exit, runs>>
  BY <1>1
<1> QED BY <1>2, <1>5, <1>9, <1>12, <1>13, <1>14, <1>15, TurnGoesOn

(* The start of a member's activation. *)
LEMMA StartMemberKeeps ==
    ASSUME Settings, Inv, StartMember(TRUE)
    PROVE  Inv'
<1> USE DEF Result
<1>1. /\ serial.step = "start" /\ UNCHANGED <<opt, at, blocked, exit, warned, runs, failed>> /\ Fails(TRUE)
      /\ st' = [st EXCEPT ![Turn] = Started(Turn)] /\ Goto("run")
  BY DEF StartMember
<1>2. /\ Typed /\ serial.turn # 0 /\ trouble' \in 0 .. MaxTrouble /\ serial.step \in Switching
      /\ serial.switched
  BY <1>1, Counted DEF Inv, Rollout, Switching
<1>3. /\ Turn \in Target /\ st[Turn].report \in ReportState
      /\ st[Turn].world \in WorldState /\ Reported(st[Turn].report, st[Turn].world)
      /\ st[Turn].report.built = "yes" /\ st[Turn].report.evaluation = "ok"
      /\ st[Turn].report.result = "-" /\ st[Turn].report.lost = "none" /\ ~ st[Turn].report.gate
  BY <1>2, TurnIs
<1>4. st[Turn].report.ran = "no" /\ ~ st[Turn].report.seconds
  BY <1>1 DEF Inv, Rollout
<1> DEFINE q == st[Turn].report
           v == st[Turn].world
           e == Started(Turn)
           r == e.report
           w == e.world
<1>5. /\ e \in TargetState /\ w = [v EXCEPT !.mark = TRUE, !.faulty = TRUE]
      /\ r = [q EXCEPT !.ran = "started"]
  BY <1>2, <1>3, StartedIs
<1> HIDE DEF q, v, r, w
<1>6. /\ r.result = q.result /\ r.evaluation = q.evaluation /\ r.built = q.built /\ r.ran = "started"
      /\ r.seconds = q.seconds /\ r.gate = q.gate /\ r.lost = q.lost /\ r.seen = q.seen
  BY <1>3, <1>5 DEF ReportState, q
<1>7. w.mark = TRUE
  BY <1>3, <1>5 DEF WorldState, v
<1>8. Reported(r, w)
  BY <1>3, <1>6, <1>7 DEF Reported, q
<1>9. /\ serial' \in SerialState /\ serial'.step = "run" /\ serial'.failure = serial.failure
      /\ serial'.group = serial.group /\ serial'.turn = serial.turn
      /\ serial'.switched
  BY <1>1, <1>2, StepIs DEF Steps, Switching
<1> HIDE DEF e
<1>10. st' = [st EXCEPT ![Turn] = e] /\ r = e.report /\ w = e.world
  BY <1>1 DEF e, r, w
<1>15. e.report.ran = "started" /\ ~ e.report.seconds /\ serial.step = "start"
  BY <1>1, <1>4, <1>6, <1>10 DEF q
<1>16. e \in TargetState /\ st' = [st EXCEPT ![Turn] = e]
  BY <1>5, <1>10
<1>13. /\ e.report.evaluation = "ok" /\ e.report.built = "yes" /\ e.report.result = "-"
      /\ e.report.lost = "none" /\ e.report.seen = st[Turn].report.seen /\ Reported(e.report, e.world)
  BY <1>3, <1>6, <1>8, <1>10 DEF q
<1>14. serial.step \in Switching \cup {"begin"} /\ UNCHANGED <<opt, at, blocked, failed, exit, runs>>
  BY <1>1 DEF Switching
<1> QED BY <1>2, <1>9, <1>13, <1>14, <1>15, <1>16, TurnGoesOn

(* The activation command of a member. *)
LEMMA RunMemberKeeps ==
    ASSUME Settings, Inv, NEW o \in Outcomes(Turn), RunMember(o)
    PROVE  Inv'
<1> USE DEF Result
<1>1. /\ serial.step = "run" /\ UNCHANGED <<opt, at, blocked, exit, warned, runs, failed>> /\ Fails(o.worked)
      /\ st' = [st EXCEPT ![Turn] = Ran(st, Turn, o)] /\ Goto("ended")
  BY DEF RunMember
<1>2. /\ Typed /\ serial.turn # 0 /\ trouble' \in 0 .. MaxTrouble /\ serial.step \in Switching
      /\ serial.switched
  BY <1>1, Counted DEF Inv, Rollout, Switching
<1>3. /\ Turn \in Target /\ st[Turn].report \in ReportState /\ st[Turn] \in TargetState
      /\ st[Turn].world \in WorldState /\ Reported(st[Turn].report, st[Turn].world)
      /\ st[Turn].report.built = "yes" /\ st[Turn].report.evaluation = "ok"
      /\ st[Turn].report.result = "-" /\ st[Turn].report.lost = "none" /\ ~ st[Turn].report.gate
  BY <1>2, TurnIs
<1>4. ~ st[Turn].report.seconds
  BY <1>1 DEF Inv, Rollout
<1>5. o \in OutcomeState /\ (o.worked => o.gen # "old")
  BY <1>2, <1>3, OutcomeIs
<1> DEFINE q == st[Turn].report
           v == st[Turn].world
           ran == IF o.worked THEN "worked" ELSE "failed"
           e == Ran(st, Turn, o)
           r == e.report
           w == e.world
<1>6. /\ e \in TargetState /\ w = [v EXCEPT !.gen = o.gen]
      /\ r = [q EXCEPT !.ran = ran]
  BY <1>3, <1>5, RanIs
<1>7. ran \in {"failed", "worked"} /\ (ran = "worked" => o.gen # "old")
  BY <1>5
<1> HIDE DEF q, v, r, w, ran
<1>8. /\ r.result = q.result /\ r.evaluation = q.evaluation /\ r.built = q.built /\ r.ran = ran
      /\ r.seconds = q.seconds /\ r.gate = q.gate /\ r.lost = q.lost /\ r.seen = q.seen
  BY <1>3, <1>6 DEF ReportState, q
<1>9. w.mark = v.mark /\ w.faulty = v.faulty /\ w.gen = o.gen
  BY <1>3, <1>6 DEF WorldState, v
<1>10. Reported(r, w)
  BY <1>3, <1>7, <1>8, <1>9 DEF Reported, q, v
<1>11. /\ serial' \in SerialState /\ serial'.step = "ended" /\ serial'.failure = serial.failure
       /\ serial'.group = serial.group /\ serial'.turn = serial.turn
       /\ serial'.switched
  BY <1>1, <1>2, StepIs DEF Steps, Switching
<1> HIDE DEF e
<1>12. st' = [st EXCEPT ![Turn] = e] /\ r = e.report /\ w = e.world
  BY <1>1 DEF e, r, w
<1>15. e.report.ran \in {"failed", "worked"} /\ ~ e.report.seconds /\ serial.step = "run"
  BY <1>1, <1>4, <1>7, <1>8, <1>12 DEF q
<1>16. e \in TargetState /\ st' = [st EXCEPT ![Turn] = e]
  BY <1>6, <1>12
<1>13. /\ e.report.evaluation = "ok" /\ e.report.built = "yes" /\ e.report.result = "-"
      /\ e.report.lost = "none" /\ e.report.seen = st[Turn].report.seen /\ Reported(e.report, e.world)
  BY <1>3, <1>8, <1>10, <1>12 DEF q
<1>14. serial.step \in Switching \cup {"begin"} /\ UNCHANGED <<opt, at, blocked, failed, exit, runs>>
  BY <1>1 DEF Switching
<1> QED BY <1>2, <1>11, <1>13, <1>14, <1>15, <1>16, TurnGoesOn

(* The end of a member's activation, with its time. *)
LEMMA TimedIs ==
    ASSUME Settings, Inv, serial.step = "ended", NEW s, s = [st EXCEPT ![Turn].report.seconds = TRUE]
    PROVE  /\ s \in [Target -> TargetState] /\ \A t \in Target : t # Turn => s[t] = st[t]
           /\ s = [st EXCEPT ![Turn] = s[Turn]] /\ s[Turn] \in TargetState
           /\ s[Turn].world = st[Turn].world /\ s[Turn].report \in ReportState
           /\ s[Turn].report.evaluation = "ok" /\ s[Turn].report.built = "yes"
           /\ s[Turn].report.result = "-" /\ s[Turn].report.lost = "none" /\ ~ s[Turn].report.gate
           /\ s[Turn].report.seconds /\ s[Turn].report.seen = st[Turn].report.seen
           /\ s[Turn].report.ran = st[Turn].report.ran /\ st[Turn].report.ran \in {"failed", "worked"}
           /\ Reported(s[Turn].report, s[Turn].world)
<1>1. Typed /\ serial.turn # 0 /\ st[Turn].report.ran \in {"failed", "worked"}
  BY DEF Inv, Rollout, Switching
<1>2. /\ Turn \in Target /\ st[Turn].report \in ReportState /\ st[Turn] \in TargetState
      /\ Reported(st[Turn].report, st[Turn].world)
      /\ st[Turn].report.built = "yes" /\ st[Turn].report.evaluation = "ok"
      /\ st[Turn].report.result = "-" /\ st[Turn].report.lost = "none" /\ ~ st[Turn].report.gate
  BY <1>1, TurnIs DEF Switching
<1> DEFINE q == st[Turn].report
           r == [q EXCEPT !.seconds = TRUE]
           e == [st[Turn] EXCEPT !.report = r]
<1>3. s = [st EXCEPT ![Turn] = e]
  BY <1>1, <1>2 DEF Typed
<1> HIDE DEF q
<1>4. /\ r \in ReportState /\ r.result = q.result /\ r.evaluation = q.evaluation /\ r.built = q.built
      /\ r.seconds /\ r.gate = q.gate /\ r.lost = q.lost /\ r.ran = q.ran /\ r.seen = q.seen
  BY <1>2 DEF ReportState, q
<1> HIDE DEF r
<1>5. e \in TargetState /\ e.report = r /\ e.world = st[Turn].world
  BY <1>2, <1>4 DEF TargetState
<1> HIDE DEF e
<1>6. Reported(r, st[Turn].world)
  BY <1>1, <1>2, <1>4 DEF Reported, q
<1>7. s \in [Target -> TargetState] /\ s[Turn] = e /\ \A t \in Target : t # Turn => s[t] = st[t]
  BY <1>1, <1>2, <1>3, <1>5 DEF Typed
<1> QED BY <1>1, <1>2, <1>3, <1>4, <1>5, <1>6, <1>7 DEF q

(* The end of a member's activation. *)
LEMMA EndMemberKeeps ==
    ASSUME Settings, Inv, EndMember(TRUE)
    PROVE  Inv'
<1> USE DEF Result
<1> DEFINE s == [st EXCEPT ![Turn].report.seconds = TRUE]
<1>1. /\ serial.step = "ended" /\ UNCHANGED <<opt, at, blocked, exit, warned, runs>> /\ Fails(TRUE)
      /\ IF st[Turn].report.ran = "failed" THEN FailMember(s, "switch")
         ELSE st' = s /\ Goto("gate") /\ UNCHANGED failed
  BY DEF EndMember
<1> HIDE DEF s
<1>2. /\ Typed /\ serial.turn # 0 /\ trouble' \in 0 .. MaxTrouble /\ serial.step \in Switching
      /\ serial.switched
  BY <1>1, Counted DEF Inv, Rollout, Switching
<1>3. /\ s \in [Target -> TargetState] /\ \A t \in Target : t # Turn => s[t] = st[t]
      /\ s = [st EXCEPT ![Turn] = s[Turn]] /\ s[Turn] \in TargetState
      /\ s[Turn].world = st[Turn].world /\ s[Turn].report \in ReportState
      /\ s[Turn].report.evaluation = "ok" /\ s[Turn].report.built = "yes"
      /\ s[Turn].report.result = "-" /\ s[Turn].report.lost = "none" /\ ~ s[Turn].report.gate
      /\ s[Turn].report.seconds /\ s[Turn].report.seen = st[Turn].report.seen
      /\ s[Turn].report.ran = st[Turn].report.ran /\ st[Turn].report.ran \in {"failed", "worked"}
      /\ Reported(s[Turn].report, s[Turn].world)
  BY <1>1, TimedIs DEF s
<1>4. Turn \in Target
  BY <1>2, TurnIs
<1>5. CASE st[Turn].report.ran = "failed"
  <2> DEFINE p == s[Turn].report
             r == Lost(p, "switch")
             e == [s[Turn] EXCEPT !.report = r]
  <2>1. /\ st' = [s EXCEPT ![Turn] = e] /\ failed' = TRUE
        /\ serial' = [serial EXCEPT !.step = After, !.failure = TRUE]
    BY <1>1, <1>3, <1>4, <1>5 DEF FailMember, Stop, Lost
  <2>2. /\ r \in ReportState /\ r.lost = "switch" /\ r.evaluation = "ok" /\ r.built = "yes"
        /\ r.ran = "failed" /\ r.seconds /\ ~ r.gate
    BY <1>3, <1>5, LostIs
  <2> HIDE DEF r
  <2>3. Failure(r)
    BY <2>2 DEF Failure
  <2>4. e \in TargetState /\ e.report = r /\ e.world = st[Turn].world
    BY <1>3, <2>2 DEF TargetState
  <2> HIDE DEF e
  <2>5. /\ st' \in [Target -> TargetState] /\ st'[Turn] = e
        /\ \A t \in Target : t # Turn => st'[t] = st[t]
    BY <1>3, <1>4, <2>1, <2>4
  <2>6. \A t \in Target : t # Turn => Alike(st'[t].report, st[t].report) /\ st'[t].world = st[t].world
    BY <2>5 DEF Alike
  <2>7. st'[Turn].report = Lost(p, "switch") /\ Failure(Lost(p, "switch")) /\ st'[Turn].world = st[Turn].world
    BY <2>3, <2>4, <2>5 DEF r
  <2>8. /\ p \in ReportState /\ p.evaluation = "ok" /\ p.built = "yes" /\ p.ran = st[Turn].report.ran
        /\ p.ran # "started"
    BY <1>3
  <2>9. UNCHANGED <<opt, at, blocked, exit, runs>> /\ failed' = TRUE
    BY <1>1, <2>1
  <2>10. serial.step \in Switching \cup {"reserve", "check", "begin"}
    BY <1>2
  <2>11. serial' = [serial EXCEPT !.step = After, !.failure = TRUE]
    BY <2>1
  <2> HIDE DEF p
  <2> QED BY <1>2, <2>5, <2>6, <2>7, <2>8, <2>9, <2>10, <2>11, MemberFails
<1>6. CASE st[Turn].report.ran # "failed"
  <2> DEFINE e == s[Turn]
  <2>1. Goto("gate") /\ UNCHANGED <<opt, at, blocked, failed, exit, runs>>
    BY <1>1, <1>6
  <2>2. st' = [st EXCEPT ![Turn] = e]
    BY <1>1, <1>3, <1>6
  <2>3. /\ e \in TargetState /\ e.report.evaluation = "ok" /\ e.report.built = "yes" /\ e.report.result = "-"
        /\ e.report.lost = "none" /\ e.report.seen = st[Turn].report.seen /\ Reported(e.report, e.world)
        /\ e.report.ran = "worked" /\ e.report.seconds
    BY <1>3, <1>6
  <2>4. /\ serial' \in SerialState /\ serial'.step = "gate" /\ serial'.failure = serial.failure
        /\ serial'.group = serial.group /\ serial'.turn = serial.turn /\ serial'.switched
    BY <1>2, <2>1, StepIs DEF Steps, Switching
  <2>5. serial.step \in Switching \cup {"begin"} /\ serial.step # "begin" /\ serial.step # "start"
    BY <1>1, <1>2
  <2> HIDE DEF e
  <2> QED BY <1>2, <2>1, <2>2, <2>3, <2>4, <2>5, TurnGoesOn
<1> QED BY <1>5, <1>6

(* The end of a member's activation, which has to be seen by the others. *)
LEMMA GatedIs ==
    ASSUME Settings, Inv, serial.step = "gate", NEW members \in SUBSET Target, NEW s,
           s = [Report(members, LAMBDA r : [r EXCEPT !.seen = FALSE]) EXCEPT ![Turn].report.gate = TRUE]
    PROVE  /\ s \in [Target -> TargetState] /\ s[Turn] \in TargetState /\ s[Turn].world = st[Turn].world
           /\ \A t \in Target : t # Turn => Alike(s[t].report, st[t].report) /\ s[t].world = st[t].world
           /\ s[Turn].report \in ReportState /\ s[Turn].report.evaluation = "ok"
           /\ s[Turn].report.built = "yes" /\ s[Turn].report.lost = "none" /\ s[Turn].report.gate
           /\ s[Turn].report.ran = "worked" /\ st[Turn].report.ran = "worked"
<1>1. Typed /\ serial.turn # 0 /\ st[Turn].report.ran = "worked"
  BY DEF Inv, Rollout, Switching
<1>2. /\ Turn \in Target /\ st[Turn].report \in ReportState
      /\ st[Turn].report.built = "yes" /\ st[Turn].report.evaluation = "ok"
      /\ st[Turn].report.lost = "none"
  BY <1>1, TurnIs DEF Switching
<1> DEFINE u == Report(members, LAMBDA r : [r EXCEPT !.seen = FALSE])
<1>3. /\ u \in [Target -> TargetState]
      /\ \A t \in Target : Alike(u[t].report, st[t].report) /\ u[t].world = st[t].world
      /\ \A t \in members : u[t].report.seen = FALSE
  BY <1>1, SeenIs
<1>4. s = [u EXCEPT ![Turn].report.gate = TRUE]
  OBVIOUS
<1> HIDE DEF u
<1> DEFINE q == u[Turn].report
           r == [q EXCEPT !.gate = TRUE]
           e == [u[Turn] EXCEPT !.report = r]
<1>5. s = [u EXCEPT ![Turn] = e]
  BY <1>2, <1>3, <1>4
<1>6. /\ u[Turn] \in TargetState /\ q \in ReportState /\ q.evaluation = "ok" /\ q.built = "yes"
      /\ q.lost = "none" /\ q.ran = "worked" /\ u[Turn].world = st[Turn].world
  BY <1>1, <1>2, <1>3, EntryParts DEF Alike
<1> HIDE DEF q
<1>7. /\ r \in ReportState /\ r.evaluation = "ok" /\ r.built = "yes" /\ r.lost = "none" /\ r.gate
      /\ r.ran = "worked"
  BY <1>6 DEF ReportState
<1> HIDE DEF r
<1>8. e \in TargetState /\ e.report = r /\ e.world = st[Turn].world
  BY <1>6, <1>7 DEF TargetState
<1> HIDE DEF e
<1>9. s \in [Target -> TargetState] /\ s[Turn] = e /\ \A t \in Target : t # Turn => s[t] = u[t]
  BY <1>2, <1>3, <1>5, <1>8
<1>10. \A t \in Target : t # Turn => Alike(s[t].report, st[t].report) /\ s[t].world = st[t].world
  BY <1>3, <1>9
<1> QED BY <1>1, <1>7, <1>8, <1>9, <1>10

(* The member rejoined. *)
LEMMA GateKeeps ==
    ASSUME Settings, Inv, Gate(TRUE)
    PROVE  Inv'
<1> USE DEF Result
<1> DEFINE members == {t \in Target : InGroup(t) /\ serial.group \in Group(t[2])}
           g == [Report(members, LAMBDA r : [r EXCEPT !.seen = FALSE]) EXCEPT ![Turn].report.gate = TRUE]
           d == Settled(g[Turn], TRUE)
           r == [d.report EXCEPT !.seen = TRUE]
           e == [d EXCEPT !.report = r]
<1>1. /\ serial.step = "gate" /\ UNCHANGED <<opt, at, blocked, failed, exit, runs>> /\ Fails(TRUE)
      /\ st' = [g EXCEPT ![Turn] = [d EXCEPT !.report.seen = TRUE]] /\ Goto(After)
  BY DEF Gate
<1>2. members \in SUBSET Target
  OBVIOUS
<1> HIDE DEF members
<1>3. /\ g \in [Target -> TargetState] /\ g[Turn] \in TargetState /\ g[Turn].world = st[Turn].world
      /\ \A t \in Target : t # Turn => Alike(g[t].report, st[t].report) /\ g[t].world = st[t].world
      /\ g[Turn].report \in ReportState /\ g[Turn].report.evaluation = "ok"
      /\ g[Turn].report.built = "yes" /\ g[Turn].report.lost = "none" /\ g[Turn].report.gate
      /\ g[Turn].report.ran = "worked" /\ st[Turn].report.ran = "worked"
  BY <1>1, <1>2, GatedIs
<1> HIDE DEF g
<1>4. /\ Typed /\ serial.turn # 0 /\ trouble' \in 0 .. MaxTrouble /\ serial.step \in Switching
      /\ serial.switched /\ serial.group \notin blocked /\ serial.turn \in SerialGroups[serial.group]
  BY <1>1, Counted DEF Inv, Rollout, Switching
<1>5. /\ Turn \in Target /\ Turn \in Asked /\ at \in {"group", "single"} /\ ~ serial.failure
      /\ serial.group \in DOMAIN SerialGroups /\ st[Turn].world \in WorldState
      /\ Reported(st[Turn].report, st[Turn].world)
      /\ st[Turn].report.built = "yes" /\ st[Turn].report.evaluation = "ok"
  BY <1>4, TurnIs
<1>6. /\ d \in TargetState
      /\ d.world = [g[Turn].world EXCEPT !.mark = g[Turn].world.mark /\ ~ TRUE, !.faulty = g[Turn].world.faulty /\ ~ TRUE]
      /\ d.report = [g[Turn].report EXCEPT !.result = "ok", !.lost = g[Turn].report.lost]
  BY <1>3, SettledIs
<1> HIDE DEF d
<1>7. d.world.gen = st[Turn].world.gen /\ ~ d.world.faulty
  <2> DEFINE v == g[Turn].world
  <2>1. v \in WorldState /\ v.gen = st[Turn].world.gen
    BY <1>3, EntryParts
  <2>2. d.world = [v EXCEPT !.mark = v.mark /\ ~ TRUE, !.faulty = v.faulty /\ ~ TRUE]
    BY <1>6
  <2> HIDE DEF v
  <2>3. d.world.gen = v.gen /\ d.world.faulty = (v.faulty /\ ~ TRUE)
    BY <2>1, <2>2 DEF WorldState
  <2> QED BY <2>1, <2>3
<1>8. /\ d.report \in ReportState /\ d.report.result = "ok" /\ d.report.evaluation = "ok"
      /\ d.report.built = "yes" /\ d.report.lost = "none" /\ d.report.gate /\ d.report.ran = "worked"
  BY <1>3, <1>6, EntryParts DEF ReportState
<1>9. /\ r \in ReportState /\ r.result = "ok" /\ r.evaluation = "ok" /\ r.built = "yes"
      /\ r.lost = "none" /\ r.gate /\ r.ran = "worked"
  BY <1>8 DEF ReportState
<1>10. st' = [g EXCEPT ![Turn] = e]
  BY <1>1, <1>3, <1>6
<1> HIDE DEF r
<1>11. e \in TargetState /\ e.report = r /\ e.world = d.world
  BY <1>6, <1>9 DEF TargetState
<1> HIDE DEF e
<1>12. st' \in [Target -> TargetState] /\ st'[Turn] = e /\ \A t \in Target : t # Turn => st'[t] = g[t]
  BY <1>3, <1>5, <1>10, <1>11
<1>13. Reported(r, e.world)
  BY <1>3, <1>5, <1>7, <1>9, <1>11 DEF Reported
<1>14. \A t \in Target : t # Turn => Alike(st'[t].report, st[t].report) /\ st'[t].world = st[t].world
  BY <1>3, <1>12
<1>15. After \in Steps /\ After \in {"next", "release"} /\ (at = "single" <=> After = "release")
  BY DEF After, Steps
<1>16. /\ serial' \in SerialState /\ serial'.step = After /\ ~ serial'.failure
       /\ serial'.group = serial.group /\ serial'.turn = serial.turn /\ serial'.switched
  BY <1>1, <1>4, <1>5, <1>15, StepIs
<1>17. Turn' = Turn /\ Asked' = Asked
  BY <1>1, <1>16, AskedStays DEF Turn
<1>18. /\ st'[Turn].report.result = "ok" /\ st'[Turn].report.ran = "worked" /\ st'[Turn].report.gate
       /\ st'[Turn].report.evaluation = "ok" /\ st'[Turn].report.built = "yes"
       /\ st'[Turn].report.lost = "none" /\ Reported(st'[Turn].report, st'[Turn].world)
  BY <1>9, <1>11, <1>12, <1>13
<1>19. MemberStep
  <2>1. UNCHANGED <<opt, at, blocked, failed, exit>> /\ serial.step \in Switching
    BY <1>1, <1>4
  <2> QED BY <1>4, <1>5, <1>14, <1>16, <1>18, <2>1 DEF MemberStep
<1>20. Rollout'
  BY <1>1, <1>4, <1>5, <1>15, <1>16, <1>17, <1>18 DEF Rollout, Switching
<1>21. Typed'
  BY <1>1, <1>4, <1>12, <1>16 DEF Typed
<1> QED BY <1>19, <1>20, <1>21, MemberKeeps

(* The member did not rejoin. *)
LEMMA GateFails ==
    ASSUME Settings, Inv, Gate(FALSE)
    PROVE  Inv'
<1> USE DEF Result
<1> DEFINE members == {t \in Target : InGroup(t) /\ serial.group \in Group(t[2])}
           g == [Report(members, LAMBDA r : [r EXCEPT !.seen = FALSE]) EXCEPT ![Turn].report.gate = TRUE]
           p == g[Turn].report
           r == Lost(p, "gate")
           e == [g[Turn] EXCEPT !.report = r]
<1>1. /\ serial.step = "gate" /\ UNCHANGED <<opt, at, blocked, exit, runs>> /\ Fails(FALSE)
      /\ FailMember(g, "gate")
  BY DEF Gate
<1>2. members \in SUBSET Target
  OBVIOUS
<1> HIDE DEF members
<1>3. /\ g \in [Target -> TargetState] /\ g[Turn] \in TargetState /\ g[Turn].world = st[Turn].world
      /\ \A t \in Target : t # Turn => Alike(g[t].report, st[t].report) /\ g[t].world = st[t].world
      /\ g[Turn].report \in ReportState /\ g[Turn].report.evaluation = "ok"
      /\ g[Turn].report.built = "yes" /\ g[Turn].report.lost = "none" /\ g[Turn].report.gate
      /\ g[Turn].report.ran = "worked" /\ st[Turn].report.ran = "worked"
  BY <1>1, <1>2, GatedIs
<1> HIDE DEF g
<1>4. Typed /\ serial.turn # 0 /\ trouble' \in 0 .. MaxTrouble /\ serial.step \in Switching
  BY <1>1, Counted DEF Inv, Rollout, Switching
<1>5. Turn \in Target
  BY <1>4, TurnIs
<1>6. /\ st' = [g EXCEPT ![Turn] = e] /\ failed' = TRUE
      /\ serial' = [serial EXCEPT !.step = After, !.failure = TRUE]
  BY <1>1, <1>3, <1>5 DEF FailMember, Stop, Lost
<1>7. /\ r \in ReportState /\ r.lost = "gate" /\ r.evaluation = "ok" /\ r.built = "yes"
      /\ r.ran = "worked" /\ r.gate
  BY <1>3, LostIs
<1> HIDE DEF r
<1>8. Failure(r)
  BY <1>7 DEF Failure
<1>9. e \in TargetState /\ e.report = r /\ e.world = st[Turn].world
  BY <1>3, <1>7 DEF TargetState
<1> HIDE DEF e
<1>10. /\ st' \in [Target -> TargetState] /\ st'[Turn] = e
       /\ \A t \in Target : t # Turn => st'[t] = g[t]
  BY <1>3, <1>5, <1>6, <1>9
<1>11. \A t \in Target : t # Turn => Alike(st'[t].report, st[t].report) /\ st'[t].world = st[t].world
  BY <1>3, <1>10
<1>12. st'[Turn].report = Lost(p, "gate") /\ Failure(Lost(p, "gate")) /\ st'[Turn].world = st[Turn].world
  BY <1>8, <1>9, <1>10 DEF r
<1>13. /\ p \in ReportState /\ p.evaluation = "ok" /\ p.built = "yes" /\ p.ran = st[Turn].report.ran
       /\ p.ran # "started"
  BY <1>3
<1>14. UNCHANGED <<opt, at, blocked, exit, runs>> /\ failed' = TRUE
  BY <1>1, <1>6
<1>15. serial.step \in Switching \cup {"reserve", "check", "begin"}
  BY <1>4
<1>16. serial' = [serial EXCEPT !.step = After, !.failure = TRUE]
  BY <1>6
<1> HIDE DEF p
<1> QED BY <1>4, <1>10, <1>11, <1>12, <1>13, <1>14, <1>15, <1>16, MemberFails

(* A member's step fails before its activation, or as it ends. *)
LEMMA MemberStepFails ==
    ASSUME Settings, Inv, \/ \E step \in {"setup", "begin"} : BeginMember(step)
                          \/ StartMember(FALSE) \/ EndMember(FALSE)
    PROVE  Inv'
<1> DEFINE q == st[Turn].report
<1>1. /\ serial.step \in {"begin", "start", "ended"} /\ UNCHANGED <<opt, at, blocked, exit, runs>>
      /\ Fails(FALSE)
      /\ \/ serial.step = "begin" /\ FailMember(st, "setup") /\ at = "single"
         \/ serial.step = "begin" /\ FailMember(st, "begin")
         \/ serial.step = "start" /\ FailMember(st, "start")
         \/ serial.step = "ended" /\ FailMember(st, "ended")
  BY DEF BeginMember, StartMember, EndMember
<1>2. Typed /\ serial.turn # 0 /\ trouble' \in 0 .. MaxTrouble
  BY <1>1, Counted DEF Inv, Rollout, Switching
<1>3. q \in ReportState /\ q.evaluation = "ok" /\ q.built = "yes" /\ ~ q.gate
  BY <1>1, <1>2, TurnIs DEF Switching
<1>4. ASSUME NEW step \in {"begin", "start", "ended"}, serial.step = step, FailMember(st, step)
      PROVE  Inv'
  <2> DEFINE r == Lost(q, step)
  <2>1. /\ r.lost = step /\ r.evaluation = "ok" /\ r.built = "yes" /\ r.ran = q.ran
        /\ r.log = q.log /\ r.seconds = q.seconds /\ ~ r.gate
    BY <1>3, LostIs
  <2>2. /\ step = "begin" => q.ran = "no" /\ ~ q.log
        /\ step = "start" => q.ran = "no" /\ ~ q.seconds
        /\ step = "ended" => q.ran \in {"failed", "worked"} /\ ~ q.seconds
    BY <1>2, <1>4 DEF Inv, Rollout, Untouched
  <2> HIDE DEF r, q
  <2>3. Failure(r) /\ q.ran # "started"
    BY <2>1, <2>2 DEF Failure
  <2>4. /\ st' = [st EXCEPT ![Turn].report = Lost(@, step)] /\ failed' = TRUE
        /\ serial' = [serial EXCEPT !.step = After, !.failure = TRUE]
    BY <1>4 DEF FailMember, Stop, Lost
  <2>5. Failure(Lost(st[Turn].report, step)) /\ st[Turn].report.ran # "started"
    BY <2>3 DEF r, q
  <2>6. serial.step \in Switching \cup {"reserve", "check", "begin"} /\ step \in {"setup", "begin", "start", "ended"}
    BY <1>1 DEF Switching
  <2> QED BY <1>1, <1>2, <2>4, <2>5, <2>6, MemberFailsAtOnce
<1>5. ASSUME serial.step = "begin", FailMember(st, "setup"), at = "single"
      PROVE  Inv'
  <2>1. /\ st' = [st EXCEPT ![Turn].report = Lost(@, "setup")] /\ failed' = TRUE /\ Stop("release")
    BY <1>5 DEF FailMember, Lost, After
  <2> QED BY <1>1, <1>2, <1>5, <2>1, SetupFails
<1> QED BY <1>1, <1>4, <1>5

-----------------------------------------------------------------------------
(* The release of a group *)

(* A single host is the only target of its group. *)
LEMMA OnlyTheHost ==
    ASSUME Settings, Inv, opt.host # 0, NEW i \in DOMAIN SerialGroups, NEW s \in MembersOf(i),
           NEW t \in Asked, t[1] = "system", st[s].report.ran # "no"
    PROVE  s = t
<1>1. s \in Target /\ s[1] = "system" /\ t \in Target
  BY MembersAreInGroup DEF Asked, Selected
<1>2. st[s].report.evaluation = "ok"
  BY <1>1 DEF Inv, Reports, Reported
<1>3. s \in Asked
  BY <1>1, <1>2 DEF Inv, Reports
<1>4. s[2] = opt.host /\ t[2] = opt.host
  BY <1>3 DEF Asked, Selected
<1> QED BY <1>1, <1>4, TargetIs

(* The release fails after a single host's good switch. *)
LEMMA ReleaseIsLost ==
    ASSUME Settings, Inv, Release(FALSE), at = "single", ~ serial.failure
    PROVE  Inv'
<1> USE DEF Result
<1>1. /\ serial.step = "release" /\ UNCHANGED <<opt, blocked, warned, runs>> /\ Fails(FALSE)
      /\ st' = Failing({Turn}, "release") /\ failed' = (failed \/ TRUE)
      /\ at' = "off" /\ exit' = "failed" /\ serial' = NoSerial
  BY DEF Release, Over
<1>2. /\ Typed /\ serial.turn # 0 /\ Turn \in Asked /\ st[Turn].report.built = "yes"
      /\ st[Turn].report.result = "ok" /\ st[Turn].report.gate /\ opt.host # 0
      /\ trouble' \in 0 .. MaxTrouble
  BY <1>1, Counted DEF Inv, Rollout, Late
<1>3. Turn \in Target /\ Turn[1] = "system" /\ Asked' = Asked /\ Asked \subseteq Target /\ {Turn} \in SUBSET Target
  BY <1>1, <1>2, AskedStays DEF Turn, Asked, Selected
<1> DEFINE q == st[Turn].report
           r == Lost(q, "release")
<1>4. /\ st' \in [Target -> TargetState] /\ \A t \in Target : t # Turn => st'[t] = st[t]
      /\ st'[Turn].report = r /\ st'[Turn].world = st[Turn].world
  BY <1>1, <1>2, <1>3, FailingIs
<1>5. /\ q \in ReportState /\ Reported(q, st[Turn].world) /\ q.ran = "worked" /\ q.evaluation = "ok"
      /\ q.built = "yes"
  BY <1>2, <1>3, EntryParts DEF Inv, Typed, Reports, Reported
<1>6. /\ r.result = "failed" /\ r.lost = "release" /\ r.evaluation = "ok" /\ r.built = "yes"
      /\ r.ran = "worked" /\ r.gate
  BY <1>2, <1>5, LostIs
<1> HIDE DEF q, r
<1>7. Reported(r, st[Turn].world)
  <2>1. Failure(r)
    BY <1>6 DEF Failure
  <2> QED BY <1>5, <1>6, <2>1 DEF Reported, q
<1>8. Reports'
  <2> SUFFICES ASSUME NEW t \in Target
               PROVE  /\ Reported(st'[t].report, st'[t].world)
                      /\ st'[t].report.result = "unchanged" => Current(t)'
                      /\ st'[t].report.result # "-" \/ st'[t].report.evaluation # "none" => t \in Asked
                      /\ st'[t].report.result = "failed" => failed'
    BY <1>3 DEF Reports
  <2>1. CASE t = Turn
    BY <1>1, <1>2, <1>4, <1>6, <1>7, <2>1
  <2>2. CASE t # Turn
    <3>1. st'[t] = st[t]
      BY <1>4, <2>2
    <3> QED BY <1>1, <3>1 DEF Inv, Reports, Current
  <2> QED BY <2>1, <2>2
<1>9. Early' /\ Late' /\ Left'
  BY <1>1 DEF Early, Late, Left, Before, Fleet
<1>10. Verdict' /\ Rollout'
  BY <1>1 DEF Verdict, Rollout, SuccessIsComplete, NoSerial, Switching
<1>11. \A t \in Target : st'[t].report.ran = st[t].report.ran /\ st[t].report.ran # "started"
  <2>1. \A t \in Target : st[t].report.ran # "started"
    BY <1>1, OnlyTheTurnWorks DEF Switching
  <2> QED BY <1>4, <1>5, <1>6, <2>1 DEF q
<1>12. Turns'
  <2>1. \A i \in DOMAIN SerialGroups : \A t \in MembersOf(i) : t \in Target
    BY MembersAreInGroup
  <2>2. ASSUME NEW i \in DOMAIN SerialGroups, NEW t \in MembersOf(i), NEW s \in MembersOf(i),
               Half(t)', Half(s)'
        PROVE  t = s
    <3>1. st[t].report.ran # "no" /\ st[s].report.ran # "no"
      BY <1>11, <2>1, <2>2 DEF Half
    <3>2. t = Turn /\ s = Turn
      BY <1>2, <1>3, <3>1, OnlyTheHost
    <3> QED BY <3>2
  <2>3. \A i \in blocked : \A t \in MembersOf(i) : st'[t].report.ran = "no"
    BY <1>2, <1>11, <2>1 DEF Inv, Turns, Typed
  <2>4. \A i \in DOMAIN SerialGroups : \A t \in MembersOf(i) : st'[t].report.ran # "started"
    BY <1>11, <2>1
  <2>5. \A i : MembersOf(i)' = MembersOf(i)
    BY DEF MembersOf
  <2> QED BY <1>1, <2>2, <2>3, <2>4, <2>5 DEF Turns, NoSerial
<1>13. UntouchedUnlessBuilt'
  <2>1. \A s \in Target : st'[s].report.ran # "no" => st'[s].report.built = "yes"
    BY <1>4, <1>6 DEF Inv, UntouchedUnlessBuilt
  <2>2. \A s \in Target : st'[s].report.lost \notin {"evaluate", "build"}
    BY <1>4, <1>6 DEF Inv, Late
  <2> QED BY <1>3, <2>1, <2>2 DEF UntouchedUnlessBuilt
<1>14. Typed'
  BY <1>1, <1>2, <1>4, NoSerialTyped DEF Typed
<1> QED BY <1>8, <1>9, <1>10, <1>12, <1>13, <1>14 DEF Inv

(* The group is released, and the run goes on. *)
LEMMA ReleaseGoesOn ==
    ASSUME Settings, Inv, NEW ok \in BOOLEAN, Release(ok), at # "single" \/ (~ serial.failure /\ ok)
    PROVE  Inv'
<1> USE DEF Result
<1>1. /\ serial.step = "release" /\ UNCHANGED <<opt, st, blocked, at, exit, runs>> /\ Fails(ok)
      /\ failed' = (failed \/ serial.failure \/ ~ ok)
      /\ serial' = [NoSerial EXCEPT !.group = serial.group]
  BY DEF Release
<1>2. /\ Typed /\ at \in {"group", "single"} /\ serial \in SerialState /\ trouble' \in 0 .. MaxTrouble
      /\ serial.group \in Int /\ serial.failure \in BOOLEAN /\ failed \in BOOLEAN
  BY <1>1, Counted DEF Inv, Typed, Rollout, NoSerial, SerialState
<1>3. /\ serial' \in SerialState /\ serial'.step = "none" /\ serial'.group = serial.group
      /\ serial'.turn = 0 /\ ~ serial'.failure /\ ~ serial'.switched
  <2>1. NoSerial \in SerialState
    BY NoSerialTyped
  <2> QED BY <1>1, <1>2, <2>1 DEF NoSerial, SerialState
<1>4. /\ failed => failed'
      /\ serial.failure => failed'
      /\ at = "single" => ~ failed'
  <2>1. at = "single" => ~ failed
    BY <1>1 DEF Inv, Verdict
  <2> QED BY <1>1, <2>1
<1>5. QuietStep
  <2>1. serial.step \notin Switching /\ serial'.step \notin Switching
    BY <1>1, <1>3 DEF Switching
  <2> QED BY <1>1, <1>2, <1>3, <1>4, <2>1, SameIsAlike DEF QuietStep
<1>6. Prepared
  BY <1>3 DEF Prepared
<1>7. Left'
  <2>1. Waiting("system")' = Waiting("system")
    BY <1>1, AskedStays DEF Waiting, Ready
  <2> QED BY <1>1, <1>2, <1>3, <2>1 DEF Inv, Left, InGroup, Group
<1>8. Rollout'
  BY <1>1, <1>2, <1>3 DEF Rollout, Switching
<1>9. Typed'
  BY <1>1, <1>2, <1>3 DEF Typed
<1> QED BY <1>5, <1>6, <1>7, <1>8, <1>9, QuietKeeps

(* The release. *)
LEMMA ReleaseKeeps ==
    ASSUME Settings, Inv, NEW ok \in BOOLEAN, Release(ok)
    PROVE  Inv'
<1>1. CASE at # "single" \/ (~ serial.failure /\ ok)
  BY <1>1, ReleaseGoesOn
<1>2. CASE at = "single" /\ ~ serial.failure /\ ~ ok
  BY <1>2, ReleaseIsLost
<1>3. CASE at = "single" /\ serial.failure
  <2>1. /\ UNCHANGED <<opt, st, blocked, runs>> /\ failed' = TRUE /\ Over("failed") /\ Fails(ok)
    BY <1>3 DEF Release
  <2>2. trouble' \in 0 .. MaxTrouble
    BY <2>1, Counted DEF Inv
  <2> QED BY <2>1, <2>2, OverFailed
<1> QED BY <1>1, <1>2, <1>3

-----------------------------------------------------------------------------
(* The steps up to the build *)

(* A set of targets has a number of members. *)
LEMMA TargetsAreFinite ==
    ASSUME Settings, NEW S \in SUBSET Target
    PROVE  Cardinality(S) \in Nat
<1>1. IsFiniteSet(Host)
  BY FS_Interval DEF Host, Settings
<1>2. IsFiniteSet(HomeHosts)
  BY <1>1, FS_Subset DEF Settings
<1>3. IsFiniteSet({"system"}) /\ IsFiniteSet({"hm"})
  BY FS_Singleton
<1>4. IsFiniteSet({"system"} \X Host) /\ IsFiniteSet({"hm"} \X HomeHosts)
  BY <1>1, <1>2, <1>3, FS_Product
<1>5. IsFiniteSet(Target)
  BY <1>4, FS_Union DEF Target
<1>6. IsFiniteSet(S)
  BY <1>5, FS_Subset
<1> QED BY <1>6, FS_CardinalityType

(* The steps that fail are counted. *)
LEMMA CountedAll ==
    ASSUME Settings, Typed, NEW S \in SUBSET Target, Trouble(Cardinality(S)) \/ Trouble(1)
    PROVE  trouble' \in 0 .. MaxTrouble
<1>1. Cardinality(S) \in Nat
  BY TargetsAreFinite
<1> QED BY <1>1 DEF Trouble, Typed, Settings

(* Before the build nothing was done to a target, and no group is at work. *)
LEMMA EarlyIs ==
    ASSUME Settings, Inv, at \in Before
    PROVE  /\ Typed /\ Reports /\ serial = NoSerial /\ ~ serial.failure /\ exit = "none"
           /\ \A t \in Target : /\ Untouched(st[t].report) /\ st[t].report.built = "no"
                                /\ st[t].report.ran = "no" /\ st[t].report \in ReportState
                                /\ st[t] \in TargetState /\ Reported(st[t].report, st[t].world)
           /\ \A t \in Target : InGroup(t) /\ Result(t) = "skipped" => failed
<1>1. Typed /\ Reports /\ serial = NoSerial /\ ~ serial.failure /\ exit = "none" /\ at # "off"
  BY DEF Inv, Rollout, Before, NoSerial, Verdict
<1>2. \A t \in Target : Untouched(st[t].report) /\ st[t].report.built = "no"
  BY DEF Inv, Early
<1>3. \A t \in Target : st[t] \in TargetState /\ st[t].report \in ReportState
  BY <1>1, EntryParts DEF Typed
<1>4. \A t \in Target : InGroup(t) /\ Result(t) = "skipped" => failed
  BY <1>1 DEF Inv, Verdict
<1> QED BY <1>1, <1>2, <1>3, <1>4 DEF Untouched, Reports

(* A step up to the build keeps the invariant, if it does for what is kept of *)
(* the targets and for the exit code.                                         *)
LEMMA EarlyKeeps ==
    ASSUME Settings, Typed', Reports', Early', Late', Verdict', serial' = NoSerial,
           at' \in Before \cup {"off", "support", "single"},
           \A t \in Target : st'[t].report.ran = "no"
    PROVE  Inv'
<1> USE DEF Result
<1>1. Left'
  BY DEF Left, Before
<1>2. Rollout'
  BY DEF Rollout, NoSerial, Switching
<1>3. Turns'
  <2>1. \A i \in DOMAIN SerialGroups : \A t \in MembersOf(i) : t \in Target
    BY MembersAreInGroup
  <2>2. \A i : MembersOf(i)' = MembersOf(i)
    BY DEF MembersOf
  <2>3. \A t \in Target : ~ Half(t)'
    BY DEF Half
  <2>4. blocked' \subseteq DOMAIN SerialGroups
    BY DEF Typed
  <2>5. at' # "group"
    BY DEF Before
  <2> QED BY <2>1, <2>2, <2>3, <2>4, <2>5 DEF Turns, NoSerial
<1>4. UntouchedUnlessBuilt'
  BY DEF UntouchedUnlessBuilt
<1> QED BY <1>1, <1>2, <1>3, <1>4 DEF Inv

(* The begin of a run. *)
LEMMA BeginKeeps ==
    ASSUME Settings, Inv, runs < Len(Options), NEW options \in Options[runs + 1], Begin(options)
    PROVE  Inv'
<1> USE DEF Result
<1>1. /\ at = "off" /\ runs' = runs + 1 /\ opt' = options /\ at' \in {"sudo", "system"}
      /\ st' = [t \in Target |-> [st[t] EXCEPT !.report = NoReport]]
      /\ serial' = NoSerial /\ blocked' = {} /\ failed' = FALSE /\ exit' = "none" /\ trouble' = trouble
  BY DEF Begin
<1>2. Typed /\ Reports /\ runs \in Nat /\ runs + 1 \in 1 .. Len(Options) /\ runs' \in 0 .. Len(Options)
  BY <1>1 DEF Inv, Typed, Settings
<1>3. options \in OptionState
  BY <1>2 DEF Settings
<1>4. /\ NoReport \in ReportState /\ NoReport.result = "-" /\ NoReport.evaluation = "none"
      /\ NoReport.built = "no" /\ NoReport.ran = "no" /\ NoReport.lost = "none" /\ Untouched(NoReport)
      /\ ~ NoReport.gate
  BY DEF NoReport, ReportState, Untouched
<1> DEFINE e(t) == [st[t] EXCEPT !.report = NoReport]
<1>5. ASSUME NEW t \in Target
      PROVE  e(t) \in TargetState /\ e(t).report = NoReport /\ e(t).world = st[t].world
  <2>1. st[t] \in TargetState
    BY <1>2 DEF Typed
  <2> HIDE DEF NoReport
  <2> QED BY <1>4, <2>1 DEF TargetState
<1> HIDE DEF e
<1>6. /\ st' \in [Target -> TargetState]
      /\ \A t \in Target : st'[t].report = NoReport /\ st'[t].world = st[t].world
  <2>1. st' = [t \in Target |-> e(t)]
    BY <1>1 DEF e
  <2> QED BY <1>5, <2>1
<1>7. Reports'
  <2>1. \A t \in Target : st[t].world.faulty => st[t].world.mark
    BY <1>2 DEF Reports, Reported
  <2>2. \A t \in Target : Reported(NoReport, st'[t].world)
    BY <1>4, <1>6, <2>1 DEF Reported
  <2> QED BY <1>4, <1>6, <2>2 DEF Reports
<1>8. Early' /\ Late'
  BY <1>1, <1>4, <1>6 DEF Early, Late, Fleet
<1>9. Verdict'
  BY <1>1, <1>4, <1>6 DEF Verdict, SuccessIsComplete
<1>10. Typed'
  BY <1>1, <1>2, <1>3, <1>6, NoSerialTyped DEF Typed, Before
<1>11. at' \in Before \cup {"off", "support", "single"} /\ \A t \in Target : st'[t].report.ran = "no"
  BY <1>1, <1>4, <1>6 DEF Before
<1> QED BY <1>1, <1>7, <1>8, <1>9, <1>10, <1>11, EarlyKeeps

(* The sudo session of a fleet's run. *)
LEMMA SudoKeeps ==
    ASSUME Settings, Inv, NEW ok \in BOOLEAN, Sudo(ok)
    PROVE  Inv'
<1> USE DEF Result
<1>1. at = "sudo" /\ Fails(ok) /\ UNCHANGED <<opt, st, blocked, failed, warned, runs>>
  BY DEF Sudo
<1>2. Typed /\ trouble' \in 0 .. MaxTrouble /\ failed \in BOOLEAN
  BY <1>1, Counted DEF Inv, Typed
<1>3. CASE ok
  <2>1. at' = "system" /\ UNCHANGED <<serial, exit>> /\ at \in Before
    BY <1>1, <1>3 DEF Sudo, Before
  <2>2. serial = NoSerial /\ exit = "none" /\ \A t \in Target : st[t].report.ran = "no"
    BY <2>1, EarlyIs
  <2>3. Reports'
    BY <1>1, ReportsStay DEF Inv
  <2>4. Early' /\ Late'
    BY <1>1, <2>1 DEF Inv, Early, Late, Before, Fleet
  <2>5. Verdict'
    BY <1>1, <2>1, <2>2 DEF Inv, Verdict, SuccessIsComplete, InGroup
  <2>6. Typed'
    BY <1>1, <1>2, <2>1 DEF Typed, Before
  <2> QED BY <1>1, <2>1, <2>2, <2>3, <2>4, <2>5, <2>6, EarlyKeeps DEF Before
<1>4. CASE ~ ok
  <2>1. Over("failed")
    BY <1>4 DEF Sudo
  <2> QED BY <1>1, <1>2, <2>1, OverFailed
<1> QED BY <1>3, <1>4

(* The preflight. *)
LEMMA PreflightKeeps ==
    ASSUME Settings, Inv, NEW skipped \in SUBSET Asked, Preflight(skipped)
    PROVE  Inv'
<1> USE DEF Result
<1> DEFINE S == IF (at = "system" /\ ~ Systems) \/ (at = "hm" /\ ~ Homes) THEN {} ELSE Selected(at)
           end == skipped # {} /\ (opt.strict \/ opt.host # 0)
           groups == IF at = "system" THEN UNION {Group(t[2]) : t \in skipped} ELSE {}
           e(t) == [st[t] EXCEPT !.report = [st[t].report EXCEPT !.result = "skipped"]]
<1>1. /\ at \in {"system", "hm"} /\ skipped \subseteq Checked(S) /\ Trouble(Cardinality(skipped))
      /\ UNCHANGED <<opt, warned, runs>>
      /\ end => Over("failed") /\ UNCHANGED <<st, blocked, failed>>
      /\ ~ end => /\ at' = IF at = "system" THEN "hm" ELSE "evaluate"
                  /\ st' = [t \in Target |-> IF t \in skipped THEN e(t) ELSE st[t]]
                  /\ blocked' = blocked \cup groups
                  /\ failed' = (failed \/ groups # {} \/ (S # {} /\ skipped = S))
                  /\ UNCHANGED <<serial, exit>>
  BY DEF Preflight, Report
<1>2. Asked \subseteq Target /\ Asked' = Asked /\ at \in Before
  BY <1>1, AskedStays DEF Asked, Selected, Before
<1>3. /\ Typed /\ Reports /\ serial = NoSerial /\ ~ serial.failure /\ exit = "none"
      /\ \A t \in Target : /\ Untouched(st[t].report) /\ st[t].report.built = "no"
                           /\ st[t].report.ran = "no" /\ st[t].report \in ReportState
                           /\ st[t] \in TargetState /\ Reported(st[t].report, st[t].world)
      /\ \A t \in Target : InGroup(t) /\ st[t].report.result = "skipped" => failed
  BY <1>2, EarlyIs
<1>4. trouble' \in 0 .. MaxTrouble /\ failed \in BOOLEAN /\ blocked \subseteq DOMAIN SerialGroups
  BY <1>1, <1>2, <1>3, CountedAll DEF Typed
<1>5. CASE end
  BY <1>1, <1>4, <1>5, OverFailed
<1>6. CASE ~ end
  <2>1. /\ at' \in {"hm", "evaluate"} /\ UNCHANGED <<serial, exit>> /\ blocked' = blocked \cup groups
        /\ failed => failed'
        /\ groups # {} => failed'
        /\ failed' \in BOOLEAN
        /\ st' = [t \in Target |-> IF t \in skipped THEN e(t) ELSE st[t]]
    BY <1>1, <1>4, <1>6
  <2>2. \A t \in Target : /\ st[t].report.evaluation = "none" /\ st[t].report.result \in {"-", "skipped"}
                          /\ opt.host # 0 => st[t].report.result # "skipped"
    BY <1>1 DEF Inv, Early
  <2>3. ASSUME NEW t \in Target
        PROVE  /\ e(t) \in TargetState /\ e(t).world = st[t].world /\ e(t).report.result = "skipped"
               /\ e(t).report.evaluation = "none" /\ e(t).report.built = "no" /\ e(t).report.ran = "no"
               /\ Untouched(e(t).report) /\ Reported(e(t).report, st[t].world)
    <3> DEFINE q == st[t].report
               r == [q EXCEPT !.result = "skipped"]
    <3>1. /\ q \in ReportState /\ st[t] \in TargetState /\ Untouched(q) /\ Reported(q, st[t].world)
          /\ q.evaluation = "none" /\ q.built = "no" /\ q.result \in {"-", "skipped"}
      BY <1>3, <2>2
    <3> HIDE DEF q
    <3>2. /\ r \in ReportState /\ r.result = "skipped" /\ r.evaluation = q.evaluation /\ r.built = q.built
          /\ r.log = q.log /\ r.seconds = q.seconds /\ r.gate = q.gate /\ r.lost = q.lost /\ r.ran = q.ran
      BY <3>1 DEF ReportState
    <3>3. e(t) \in TargetState /\ e(t).report = r /\ e(t).world = st[t].world
      BY <3>1, <3>2 DEF TargetState, q
    <3> HIDE DEF r, e
    <3>4. Untouched(r) /\ Reported(r, st[t].world)
      BY <3>1, <3>2 DEF Untouched, Reported
    <3> QED BY <3>1, <3>2, <3>3, <3>4 DEF Untouched
  <2> HIDE DEF e
  <2>4. /\ st' \in [Target -> TargetState]
        /\ \A t \in skipped : st'[t] = e(t)
        /\ \A t \in Target : t \notin skipped => st'[t] = st[t]
    BY <1>2, <1>3, <2>1, <2>3
  <2>5. skipped # {} => opt.host = 0
    BY <1>6
  <2>6. ASSUME NEW t \in skipped, InGroup(t) PROVE failed'
    <3>1. t \in Selected(at) /\ t \in Target
      <4>1. S \subseteq Selected(at)
        OBVIOUS
      <4> HIDE DEF S
      <4> QED BY <1>1, <1>2, <4>1 DEF Checked
    <3>2. at = "system" /\ Group(t[2]) # {}
      BY <2>6, <3>1 DEF Selected, InGroup
    <3>3. groups # {}
      BY <3>2
    <3> QED BY <2>1, <3>3
  <2>7. blocked' \subseteq DOMAIN SerialGroups
    BY <1>4, <2>1 DEF Group
  <2> HIDE DEF S, end, groups
  <2>8. Reports'
    <3> SUFFICES ASSUME NEW t \in Target
                 PROVE  /\ Reported(st'[t].report, st'[t].world)
                        /\ st'[t].report.result = "unchanged" => Current(t)'
                        /\ st'[t].report.result # "-" \/ st'[t].report.evaluation # "none" => t \in Asked
                        /\ st'[t].report.result = "failed" => failed'
      BY <1>2 DEF Reports
    <3>1. CASE t \in skipped
      BY <2>3, <2>4, <3>1
    <3>2. CASE t \notin skipped
      <4>1. st'[t] = st[t]
        BY <2>4, <3>2
      <4> QED BY <1>3, <2>1, <4>1 DEF Reports, Current
    <3> QED BY <3>1, <3>2
  <2>9. \A t \in Target :
           /\ st'[t].report.evaluation = "none" /\ st'[t].report.result \in {"-", "skipped"}
           /\ opt.host # 0 => st'[t].report.result # "skipped"
           /\ Untouched(st'[t].report) /\ st'[t].report.built = "no" /\ st'[t].report.ran = "no"
    BY <1>2, <1>3, <2>2, <2>3, <2>4, <2>5
  <2>10. Early' /\ Late'
    BY <1>1, <2>1, <2>9 DEF Early, Late, Fleet
  <2>11. Verdict'
    <3>1. ASSUME NEW t \in Target, InGroup(t), st'[t].report.result = "skipped" PROVE failed'
      <4>1. CASE t \in skipped
        BY <2>6, <3>1, <4>1
      <4>2. CASE t \notin skipped
        BY <1>3, <2>1, <2>4, <3>1, <4>2
      <4> QED BY <4>1, <4>2
    <3>2. \A s : InGroup(s)' = InGroup(s)
      BY DEF InGroup
    <3> QED BY <1>3, <2>1, <3>1, <3>2 DEF Verdict, SuccessIsComplete
  <2>12. Typed'
    BY <1>1, <1>3, <1>4, <2>1, <2>4, <2>7 DEF Typed, Before
  <2>13. at' \in Before
    BY <2>1 DEF Before
  <2> QED BY <1>3, <2>1, <2>8, <2>9, <2>10, <2>11, <2>12, <2>13, EarlyKeeps
<1> QED BY <1>5, <1>6

(* The evaluation. *)
LEMMA EvaluateKeeps ==
    ASSUME Settings, Inv, NEW bad \in SUBSET Targets, NEW silent \in SUBSET bad, Evaluate(bad, silent)
    PROVE  Inv'
<1> USE DEF Result
<1> DEFINE why(t) == IF t \in silent THEN "silent" ELSE "error"
           l(t) == [st[t].report EXCEPT !.result = "failed", !.lost = "evaluate", !.evaluation = why(t)]
           k(t) == [st[t].report EXCEPT !.evaluation = "ok"]
           d(t) == [st[t] EXCEPT !.report = l(t)]
           e(t) == [st[t] EXCEPT !.report = k(t)]
           ends == opt.host # 0 /\ opt.only # "build" /\ bad # {}
<1>1. /\ at = "evaluate" /\ Trouble(Cardinality(bad)) /\ UNCHANGED <<opt, blocked, warned, runs>>
      /\ st' = [t \in Target |-> IF t \in bad THEN d(t) ELSE IF t \in Targets THEN e(t) ELSE st[t]]
      /\ failed' = (failed \/ bad # {})
      /\ ends => Over("failed")
      /\ ~ ends => at' = "plan" /\ UNCHANGED <<serial, exit>>
  BY DEF Evaluate
<1>2. Asked \subseteq Target /\ Asked' = Asked /\ at \in Before /\ Targets \subseteq Asked /\ bad \subseteq Targets
  BY <1>1, AskedStays DEF Asked, Selected, Before, Targets
<1>3. /\ Typed /\ Reports /\ serial = NoSerial /\ ~ serial.failure /\ exit = "none"
      /\ \A t \in Target : /\ Untouched(st[t].report) /\ st[t].report.built = "no"
                           /\ st[t].report.ran = "no" /\ st[t].report \in ReportState
                           /\ st[t] \in TargetState /\ Reported(st[t].report, st[t].world)
      /\ \A t \in Target : InGroup(t) /\ st[t].report.result = "skipped" => failed
  BY <1>2, EarlyIs
<1>4. \A t \in Target : /\ st[t].report.evaluation = "none" /\ st[t].report.result \in {"-", "skipped"}
                        /\ opt.host # 0 => st[t].report.result # "skipped"
  BY <1>1 DEF Inv, Early
<1>5. \A t \in Targets : st[t].report.result = "-"
  BY <1>2, <1>4 DEF Targets
<1>6. trouble' \in 0 .. MaxTrouble /\ failed' \in BOOLEAN /\ (failed => failed')
  <2>1. bad \in SUBSET Target
    BY <1>2
  <2> QED BY <1>1, <1>3, <2>1, CountedAll DEF Typed
<1>7. ASSUME NEW t \in Target, st[t].report.result = "-"
      PROVE  /\ d(t) \in TargetState /\ d(t).world = st[t].world /\ d(t).report.result = "failed"
             /\ d(t).report.evaluation # "none" /\ d(t).report.built = "no" /\ d(t).report.ran = "no"
             /\ d(t).report.lost = "evaluate"
             /\ Untouched(d(t).report) /\ Reported(d(t).report, st[t].world)
             /\ e(t) \in TargetState /\ e(t).world = st[t].world /\ e(t).report.result = "-"
             /\ e(t).report.evaluation # "none" /\ e(t).report.built = "no" /\ e(t).report.ran = "no"
             /\ e(t).report.lost = "none"
             /\ Untouched(e(t).report) /\ Reported(e(t).report, st[t].world)
  <2> DEFINE q == st[t].report
  <2>1. /\ q \in ReportState /\ st[t] \in TargetState /\ Untouched(q) /\ Reported(q, st[t].world)
        /\ q.built = "no" /\ q.result = "-"
    BY <1>3, <1>7
  <2>2. why(t) \in {"error", "silent"}
    OBVIOUS
  <2> HIDE DEF q, why
  <2>3. /\ l(t) \in ReportState /\ l(t).result = "failed" /\ l(t).lost = "evaluate" /\ l(t).evaluation = why(t)
        /\ l(t).built = q.built /\ l(t).log = q.log /\ l(t).seconds = q.seconds /\ l(t).gate = q.gate
        /\ l(t).ran = q.ran
    BY <2>1, <2>2 DEF ReportState, q
  <2>4. /\ k(t) \in ReportState /\ k(t).result = q.result /\ k(t).lost = q.lost /\ k(t).evaluation = "ok"
        /\ k(t).built = q.built /\ k(t).log = q.log /\ k(t).seconds = q.seconds /\ k(t).gate = q.gate
        /\ k(t).ran = q.ran
    BY <2>1 DEF ReportState, q
  <2> HIDE DEF l, k
  <2>5. d(t) \in TargetState /\ d(t).report = l(t) /\ d(t).world = st[t].world
    BY <2>1, <2>3 DEF TargetState
  <2>6. e(t) \in TargetState /\ e(t).report = k(t) /\ e(t).world = st[t].world
    BY <2>1, <2>4 DEF TargetState
  <2> HIDE DEF d, e
  <2>7. Untouched(l(t)) /\ Reported(l(t), st[t].world)
    <3>1. Untouched(l(t))
      BY <2>1, <2>3 DEF Untouched
    <3>2. Failure(l(t))
      BY <2>1, <2>2, <2>3, <3>1 DEF Failure
    <3> QED BY <2>1, <2>3, <3>1, <3>2 DEF Reported, Untouched
  <2>8. Untouched(k(t)) /\ Reported(k(t), st[t].world) /\ k(t).lost = "none"
    BY <2>1, <2>4 DEF Untouched, Reported
  <2> QED BY <2>1, <2>2, <2>3, <2>4, <2>5, <2>6, <2>7, <2>8 DEF Untouched
<1> HIDE DEF d, e
<1>8. /\ st' \in [Target -> TargetState]
      /\ \A t \in bad : st'[t] = d(t)
      /\ \A t \in Targets : t \notin bad => st'[t] = e(t)
      /\ \A t \in Target : t \notin Targets => st'[t] = st[t]
  BY <1>1, <1>2, <1>3, <1>5, <1>7
<1>9. ASSUME NEW t \in Target
      PROVE  /\ st'[t].world = st[t].world /\ Reported(st'[t].report, st'[t].world)
             /\ Untouched(st'[t].report) /\ st'[t].report.built = "no" /\ st'[t].report.ran = "no"
             /\ st'[t].report.result \in {"-", "skipped", "failed"}
             /\ st'[t].report.result = "failed" => t \in bad /\ st'[t].report.lost = "evaluate"
             /\ st'[t].report.result # "failed" => st'[t].report.lost = "none"
             /\ st'[t].report.result = "skipped" => st[t].report.result = "skipped" /\ st'[t].report.evaluation = "none"
             /\ st'[t].report.result # "-" \/ st'[t].report.evaluation # "none" => t \in Asked
             /\ t \in Asked => st'[t].report.result = "skipped" \/ st'[t].report.evaluation # "none"
  <2>1. CASE t \in bad
    BY <1>2, <1>5, <1>7, <1>8, <2>1
  <2>2. CASE t \in Targets /\ t \notin bad
    BY <1>2, <1>5, <1>7, <1>8, <2>2
  <2>3. CASE t \notin Targets
    <3>1. st'[t] = st[t] /\ t \notin bad
      BY <1>2, <1>8, <2>3
    <3>2. t \in Asked => st[t].report.result = "skipped"
      BY <2>3 DEF Targets
    <3> QED BY <1>3, <1>4, <3>1, <3>2 DEF Reports, Reported
  <2> QED BY <2>1, <2>2, <2>3
<1>10. Reports'
  <2>1. \A t \in Target : st'[t].report.result = "failed" => failed'
    BY <1>1, <1>9
  <2> QED BY <1>2, <1>9, <2>1 DEF Reports
<1>11. Early' /\ Late'
  <2>1. CASE ends
    BY <1>1, <2>1 DEF Over, Early, Late, Before, Fleet
  <2>2. CASE ~ ends
    <3>1. at' = "plan" /\ opt' = opt
      BY <1>1, <2>2
    <3>2. opt.host # 0 /\ opt.only # "build" => \A t \in Target : st'[t].report.lost # "evaluate"
      BY <1>9, <2>2
    <3>3. \A t \in Target : st'[t].report.result = "skipped" => opt.host = 0
      BY <1>4, <1>9
    <3> HIDE DEF ends
    <3> QED BY <1>2, <1>9, <3>1, <3>2, <3>3 DEF Early, Late, Fleet
  <2> QED BY <2>1, <2>2
<1>12. Verdict'
  <2>1. at' \in {"off", "plan"} /\ (at' = "plan" => exit' = "none") /\ (at' = "off" => exit' = "failed")
    BY <1>1, <1>3 DEF Over
  <2>2. \A t \in Target : InGroup(t) /\ st'[t].report.result = "skipped" => failed'
    BY <1>3, <1>6, <1>9
  <2>3. \A s : InGroup(s)' = InGroup(s)
    BY DEF InGroup
  <2> QED BY <2>1, <2>2, <2>3 DEF Verdict, SuccessIsComplete
<1>13. /\ serial' = NoSerial /\ at' \in {"off", "plan"} /\ exit' \in {"none", "failed"}
  BY <1>1, <1>3 DEF Over
<1>14. Typed'
  BY <1>1, <1>3, <1>6, <1>8, <1>13, NoSerialTyped DEF Typed, Before
<1> QED BY <1>9, <1>10, <1>11, <1>12, <1>13, <1>14, EarlyKeeps DEF Before

(* The plan. *)
LEMMA PlanKeeps ==
    ASSUME Settings, Inv, NEW unknown \in SUBSET Targets, Plan(unknown)
    PROVE  Inv'
<1> USE DEF Result
<1> DEFINE S == {t \in Targets : st[t].report.evaluation = "ok"}
           unchanged == {t \in S \ unknown : Unchanged(t)}
           w(t) == IF t \in unchanged THEN "unchanged" ELSE "planned"
           r(t) == [st[t].report EXCEPT !.result = w(t)]
           e(t) == [st[t] EXCEPT !.report = r(t)]
           dry == opt.only = "dry"
           marked == [t \in Target |-> IF t \in unchanged THEN [st[t] EXCEPT !.report.result = "unchanged"]
                                       ELSE IF t \in S /\ dry THEN [st[t] EXCEPT !.report.result = "planned"]
                                       ELSE st[t]]
           ends == dry \/ (opt.host # 0 /\ opt.only = "none" /\ S = unchanged)
<1>1. /\ at = "plan" /\ Trouble(Cardinality(unknown)) /\ UNCHANGED <<opt, blocked, failed, runs>>
      /\ st' = marked
      /\ ends => Finish(marked, failed)
      /\ ~ ends => at' = "build" /\ UNCHANGED <<serial, exit, warned>>
  BY DEF Plan
<1>2. Asked \subseteq Target /\ Asked' = Asked /\ at \in Before /\ Targets \subseteq Asked /\ S \subseteq Targets
  BY <1>1, AskedStays DEF Asked, Selected, Before, Targets
<1>3. /\ Typed /\ Reports /\ serial = NoSerial /\ ~ serial.failure /\ exit = "none"
      /\ \A t \in Target : /\ Untouched(st[t].report) /\ st[t].report.built = "no"
                           /\ st[t].report.ran = "no" /\ st[t].report \in ReportState
                           /\ st[t] \in TargetState /\ Reported(st[t].report, st[t].world)
      /\ \A t \in Target : InGroup(t) /\ st[t].report.result = "skipped" => failed
  BY <1>2, EarlyIs
<1>4. /\ \A t \in Asked : st[t].report.result = "skipped" \/ st[t].report.evaluation # "none"
      /\ \A t \in Target :
            /\ st[t].report.result \in {"-", "skipped", "failed"}
            /\ st[t].report.result = "skipped" => opt.host = 0 /\ st[t].report.evaluation = "none"
            /\ st[t].report.result = "failed" => st[t].report.lost = "evaluate"
            /\ opt.host # 0 /\ opt.only # "build" => st[t].report.lost # "evaluate"
  BY <1>1 DEF Inv, Early
<1>5. ASSUME NEW t \in Target
      PROVE  /\ t \in S => st[t].report.result = "-" /\ st[t].report.lost = "none"
             /\ t \in Asked => t \in S \/ st[t].report.result \in {"skipped", "failed"}
  <2>1. st[t].report.result = "failed" => st[t].report.evaluation # "ok"
    BY <1>3, <1>4 DEF Reported, Failure
  <2>2. st[t].report.result # "failed" => st[t].report.lost = "none" /\ st[t].report.evaluation \in {"none", "ok"}
    BY <1>3 DEF Reported
  <2> QED BY <1>2, <1>4, <2>1, <2>2 DEF Targets
<1>6. \A t \in unchanged : t \in S /\ Current(t) /\ ~ st[t].world.mark
  BY DEF Unchanged
<1>7. trouble' \in 0 .. MaxTrouble
  <2>1. unknown \in SUBSET Target
    BY <1>2
  <2> QED BY <1>1, <1>3, <2>1, CountedAll
<1>8. ASSUME NEW t \in S
      PROVE  /\ e(t) \in TargetState /\ e(t).world = st[t].world /\ e(t).report.result = w(t)
             /\ e(t).report.evaluation = "ok" /\ e(t).report.built = "no" /\ e(t).report.ran = "no"
             /\ e(t).report.lost = "none"
             /\ Untouched(e(t).report) /\ Reported(e(t).report, st[t].world)
  <2> DEFINE q == st[t].report
  <2>1. /\ q \in ReportState /\ st[t] \in TargetState /\ Untouched(q) /\ Reported(q, st[t].world)
        /\ q.built = "no" /\ q.result = "-" /\ q.evaluation = "ok" /\ q.lost = "none"
    BY <1>2, <1>3, <1>5
  <2>2. w(t) \in {"unchanged", "planned"} /\ (w(t) = "unchanged" => ~ st[t].world.mark)
    BY <1>6
  <2> HIDE DEF q, w, S, unchanged
  <2>3. /\ r(t) \in ReportState /\ r(t).result = w(t) /\ r(t).lost = q.lost /\ r(t).evaluation = q.evaluation
        /\ r(t).built = q.built /\ r(t).log = q.log /\ r(t).seconds = q.seconds /\ r(t).gate = q.gate
        /\ r(t).ran = q.ran
    BY <2>1, <2>2 DEF ReportState, q
  <2> HIDE DEF r
  <2>4. e(t) \in TargetState /\ e(t).report = r(t) /\ e(t).world = st[t].world
    BY <2>1, <2>3 DEF TargetState
  <2> HIDE DEF e
  <2>5. Untouched(r(t)) /\ Reported(r(t), st[t].world) /\ r(t).ran = "no"
    BY <2>1, <2>2, <2>3 DEF Untouched, Reported
  <2> QED BY <2>1, <2>2, <2>3, <2>4, <2>5
<1>9. marked = [t \in Target |-> IF t \in unchanged \/ (t \in S /\ dry) THEN e(t) ELSE st[t]]
  <2>1. ASSUME NEW t \in Target
        PROVE  (IF t \in unchanged THEN [st[t] EXCEPT !.report.result = "unchanged"]
                ELSE IF t \in S /\ dry THEN [st[t] EXCEPT !.report.result = "planned"] ELSE st[t])
               = IF t \in unchanged \/ (t \in S /\ dry) THEN e(t) ELSE st[t]
    <3>1. CASE t \in unchanged
      BY <3>1
    <3>2. CASE t \notin unchanged
      BY <3>2
    <3> QED BY <3>1, <3>2
  <2> HIDE DEF e, unchanged, S, dry
  <2> QED BY <2>1
<1>10. unchanged \subseteq S /\ \A t \in S : w(t) = IF t \in unchanged THEN "unchanged" ELSE "planned"
  OBVIOUS
<1> HIDE DEF e, unchanged, S, marked, w
<1>11. /\ st' \in [Target -> TargetState]
       /\ \A t \in Target : t \in unchanged \/ (t \in S /\ dry) => st'[t] = e(t)
       /\ \A t \in Target : ~ (t \in unchanged \/ (t \in S /\ dry)) => st'[t] = st[t]
  BY <1>1, <1>3, <1>8, <1>9, <1>10
<1>12. ASSUME NEW t \in Target
       PROVE  /\ st'[t].world = st[t].world /\ Reported(st'[t].report, st'[t].world)
              /\ Untouched(st'[t].report) /\ st'[t].report.built = "no" /\ st'[t].report.ran = "no"
              /\ st'[t].report.result \in {"-", "skipped", "failed", "unchanged"} \/ (dry /\ st'[t].report.result = "planned")
              /\ st'[t].report.result = "unchanged" => Current(t)
              /\ st'[t].report.result = "failed" => st[t].report.result = "failed" /\ st'[t].report.lost = "evaluate"
              /\ st'[t].report.result = "skipped" => /\ st[t].report.result = "skipped"
                                                     /\ st'[t].report.evaluation = "none" /\ opt.host = 0
              /\ st'[t].report.result # "-" \/ st'[t].report.evaluation # "none" => t \in Asked
              /\ t \in Asked => st'[t].report.result = "skipped" \/ st'[t].report.evaluation # "none"
              /\ t \in Asked /\ ends => st'[t].report.result # "-"
              /\ opt.host # 0 /\ opt.only # "build" => st'[t].report.lost # "evaluate"
  <2>1. CASE t \in unchanged \/ (t \in S /\ dry)
    BY <1>2, <1>6, <1>8, <1>10, <1>11, <2>1
  <2>2. CASE ~ (t \in unchanged \/ (t \in S /\ dry))
    <3>1. st'[t] = st[t]
      BY <1>11, <2>2
    <3>2. t \in Asked /\ ends => st[t].report.result # "-"
      BY <1>5, <2>2
    <3> QED BY <1>3, <1>4, <3>1, <3>2 DEF Reports
  <2> QED BY <2>1, <2>2
<1>13. Reports'
  <2>1. \A t \in Target : st'[t].report.result = "failed" => failed'
    BY <1>1, <1>3, <1>12 DEF Reports
  <2>2. \A t \in Target : Current(t)' = Current(t)
    BY <1>12 DEF Current
  <2> QED BY <1>2, <1>12, <2>1, <2>2 DEF Reports
<1>14. \A t \in Target : InGroup(t) /\ st'[t].report.result = "skipped" => failed'
  BY <1>1, <1>3, <1>12
<1>15. CASE ends
  <2>1. /\ at' = "off" /\ serial' = NoSerial /\ exit' = (IF failed THEN "failed" ELSE "ok")
        /\ opt.host = 0 => warned' = Lagging(st')
    BY <1>1, <1>15 DEF Finish, Over
  <2>2. exit' \in {"ok", "failed"} /\ (exit' = "ok" => ~ failed')
    BY <1>1, <2>1
  <2>3. SuccessIsComplete'
    BY <1>1, <1>2, <1>12, <1>13, <1>14, <1>15, <2>1, <2>2, FinishIsComplete
  <2>4. Early' /\ Late'
    BY <2>1 DEF Early, Late, Before, Fleet
  <2>5. Verdict'
    BY <2>1, <2>3 DEF Verdict
  <2>6. Typed'
    BY <1>1, <1>3, <1>7, <1>11, <2>1, <2>2, NoSerialTyped DEF Typed
  <2> QED BY <1>12, <1>13, <2>1, <2>4, <2>5, <2>6, EarlyKeeps
<1>16. CASE ~ ends
  <2>1. at' = "build" /\ serial' = NoSerial /\ exit' = "none" /\ ~ dry
    BY <1>1, <1>3, <1>16
  <2>2. Early' /\ Late'
    BY <1>1, <1>2, <1>12, <2>1 DEF Early, Late, Fleet
  <2>3. Verdict'
    <3>1. \A s : InGroup(s)' = InGroup(s)
      BY DEF InGroup
    <3> QED BY <1>14, <2>1, <3>1 DEF Verdict, SuccessIsComplete
  <2>4. Typed'
    BY <1>1, <1>3, <1>7, <1>11, <2>1, NoSerialTyped DEF Typed, Before
  <2> QED BY <1>12, <1>13, <2>1, <2>2, <2>3, <2>4, EarlyKeeps DEF Before
<1> QED BY <1>15, <1>16

(* The build. *)
LEMMA BuildKeeps ==
    ASSUME Settings, Inv, NEW bad \in SUBSET Changed, NEW root \in BOOLEAN, Build(bad, root)
    PROVE  Inv'
<1> USE DEF Result
<1> DEFINE f == failed \/ bad # {}
           lost == IF root THEN "build" ELSE "setup"
           had == IF root THEN "failed" ELSE "no"
           res(t) == IF opt.only = "build" THEN "built" ELSE st[t].report.result
           l(t) == [st[t].report EXCEPT !.result = "failed", !.lost = lost, !.built = had]
           k(t) == [st[t].report EXCEPT !.built = "yes", !.result = res(t)]
           d(t) == [st[t] EXCEPT !.report = l(t)]
           e(t) == [st[t] EXCEPT !.report = k(t)]
           built == [t \in Target |-> IF t \in bad THEN d(t) ELSE IF t \in Changed THEN e(t) ELSE st[t]]
           ends == opt.only = "build" \/ (opt.host # 0 /\ f)
           next == IF opt.host = 0 THEN "support" ELSE "single"
<1>1. /\ at = "build" /\ UNCHANGED <<opt, blocked, runs>> /\ (Trouble(Cardinality(bad)) \/ Trouble(1))
      /\ st' = built /\ failed' = f
      /\ ends => Finish(built, f)
      /\ ~ ends => at' = next /\ UNCHANGED <<serial, exit, warned>>
  BY DEF Build
<1>2. Asked \subseteq Target /\ Asked' = Asked /\ at \in Before /\ Changed \subseteq Asked /\ bad \subseteq Changed
  BY <1>1, AskedStays DEF Asked, Selected, Before, Changed
<1>3. /\ Typed /\ Reports /\ serial = NoSerial /\ ~ serial.failure /\ exit = "none"
      /\ \A t \in Target : /\ Untouched(st[t].report) /\ st[t].report.built = "no"
                           /\ st[t].report.ran = "no" /\ st[t].report \in ReportState
                           /\ st[t] \in TargetState /\ Reported(st[t].report, st[t].world)
      /\ \A t \in Target : InGroup(t) /\ st[t].report.result = "skipped" => failed
  BY <1>2, EarlyIs
<1>4. /\ \A t \in Asked : st[t].report.result = "skipped" \/ st[t].report.evaluation # "none"
      /\ \A t \in Target :
            /\ st[t].report.result \in {"-", "skipped", "failed", "unchanged"}
            /\ st[t].report.result = "skipped" => opt.host = 0 /\ st[t].report.evaluation = "none"
            /\ st[t].report.result = "failed" => st[t].report.lost = "evaluate"
            /\ opt.host # 0 /\ opt.only # "build" => st[t].report.lost # "evaluate"
      /\ opt.only # "dry" /\ opt.only \in {"none", "build"}
  BY <1>1, <1>3 DEF Inv, Early, Typed, OptionState
<1>5. ASSUME NEW t \in Target
      PROVE  /\ t \in Changed => /\ st[t].report.result = "-" /\ st[t].report.lost = "none"
                                 /\ st[t].report.evaluation = "ok"
             /\ t \in Asked => t \in Changed \/ st[t].report.result \in {"skipped", "failed", "unchanged"}
  <2>1. st[t].report.result = "failed" => st[t].report.evaluation # "ok"
    BY <1>3, <1>4 DEF Reported, Failure
  <2>2. st[t].report.result # "failed" => st[t].report.lost = "none" /\ st[t].report.evaluation \in {"none", "ok"}
    BY <1>3 DEF Reported
  <2> QED BY <1>2, <1>4, <2>1, <2>2 DEF Changed
<1>6. trouble' \in 0 .. MaxTrouble /\ f \in BOOLEAN
  <2>1. bad \in SUBSET Target
    BY <1>2
  <2> QED BY <1>1, <1>3, <2>1, CountedAll DEF Typed
<1>7. ASSUME NEW t \in Changed
      PROVE  /\ d(t) \in TargetState /\ d(t).world = st[t].world /\ d(t).report.result = "failed"
             /\ d(t).report.evaluation = "ok" /\ d(t).report.ran = "no" /\ d(t).report.lost \in {"build", "setup"}
             /\ Untouched(d(t).report) /\ Reported(d(t).report, st[t].world)
             /\ e(t) \in TargetState /\ e(t).world = st[t].world
             /\ e(t).report.result = IF opt.only = "build" THEN "built" ELSE "-"
             /\ e(t).report.evaluation = "ok" /\ e(t).report.built = "yes" /\ e(t).report.ran = "no"
             /\ e(t).report.lost = "none"
             /\ Untouched(e(t).report) /\ Reported(e(t).report, st[t].world)
  <2> DEFINE q == st[t].report
  <2>1. /\ q \in ReportState /\ st[t] \in TargetState /\ Untouched(q) /\ Reported(q, st[t].world)
        /\ q.built = "no" /\ q.result = "-" /\ q.evaluation = "ok" /\ q.lost = "none"
    BY <1>2, <1>3, <1>5
  <2>2. /\ (lost = "build" /\ had = "failed") \/ (lost = "setup" /\ had = "no")
        /\ res(t) = IF opt.only = "build" THEN "built" ELSE "-"
    BY <2>1
  <2>3. res(t) \in {"built", "-"}
    BY <2>2
  <2> HIDE DEF q, lost, had, res
  <2>4. /\ l(t) \in ReportState /\ l(t).result = "failed" /\ l(t).lost = lost /\ l(t).evaluation = q.evaluation
        /\ l(t).built = had /\ l(t).log = q.log /\ l(t).seconds = q.seconds /\ l(t).gate = q.gate
        /\ l(t).ran = q.ran
    BY <2>1, <2>2 DEF ReportState, q
  <2>5. /\ k(t) \in ReportState /\ k(t).result = res(t) /\ k(t).lost = q.lost /\ k(t).evaluation = q.evaluation
        /\ k(t).built = "yes" /\ k(t).log = q.log /\ k(t).seconds = q.seconds /\ k(t).gate = q.gate
        /\ k(t).ran = q.ran
    BY <2>1, <2>3 DEF ReportState, q
  <2> HIDE DEF l, k
  <2>6. d(t) \in TargetState /\ d(t).report = l(t) /\ d(t).world = st[t].world
    BY <2>1, <2>4 DEF TargetState
  <2>7. e(t) \in TargetState /\ e(t).report = k(t) /\ e(t).world = st[t].world
    BY <2>1, <2>5 DEF TargetState
  <2> HIDE DEF d, e
  <2>8. Untouched(l(t)) /\ Reported(l(t), st[t].world) /\ l(t).ran = "no" /\ l(t).lost \in {"build", "setup"}
    <3>1. Untouched(l(t)) /\ l(t).ran = "no"
      BY <2>1, <2>4 DEF Untouched
    <3>2. Failure(l(t))
      BY <2>1, <2>2, <2>4, <3>1 DEF Failure
    <3> QED BY <2>1, <2>2, <2>4, <3>1, <3>2 DEF Reported, Untouched
  <2>9. Untouched(k(t)) /\ Reported(k(t), st[t].world) /\ k(t).lost = "none" /\ k(t).ran = "no"
    BY <2>1, <2>3, <2>5 DEF Untouched, Reported
  <2> QED BY <2>1, <2>2, <2>4, <2>5, <2>6, <2>7, <2>8, <2>9
<1> HIDE DEF d, e
<1>8. /\ st' \in [Target -> TargetState]
      /\ \A t \in bad : st'[t] = d(t)
      /\ \A t \in Changed : t \notin bad => st'[t] = e(t)
      /\ \A t \in Target : t \notin Changed => st'[t] = st[t]
  BY <1>1, <1>2, <1>3, <1>7
<1>9. f = FALSE => bad = {} /\ ~ failed
  OBVIOUS
<1>10. ends => opt.only = "build" \/ (opt.host # 0 /\ f)
  OBVIOUS
<1>11. ~ ends => opt.only = "none" /\ (opt.host # 0 => ~ f)
  BY <1>4
<1> HIDE DEF ends, f, built
<1>12. ASSUME NEW t \in Target
       PROVE  /\ st'[t].world = st[t].world /\ Reported(st'[t].report, st'[t].world)
              /\ Untouched(st'[t].report) /\ st'[t].report.ran = "no"
              /\ st'[t].report.result \in {"-", "skipped", "failed", "unchanged"} \/ (opt.only = "build" /\ st'[t].report.result = "built")
              /\ st'[t].report.result = "unchanged" => Current(t)
              /\ st'[t].report.result = "failed" => st[t].report.result = "failed" \/ t \in bad
              /\ st'[t].report.result = "skipped" => st[t].report.result = "skipped" /\ opt.host = 0
              /\ st'[t].report.result # "-" \/ st'[t].report.evaluation # "none" => t \in Asked
              /\ t \in Asked => st'[t].report.result # "-" \/ (opt.only # "build" /\ st'[t].report.built = "yes")
              /\ t \in Asked => st'[t].report.result # "-" \/ st'[t].report.evaluation # "none"
              /\ st'[t].report.lost \in {"none", "evaluate"} \/ t \in bad
              /\ opt.host # 0 /\ opt.only # "build" => st'[t].report.lost # "evaluate"
  <2>1. CASE t \in bad
    BY <1>2, <1>7, <1>8, <2>1
  <2>2. CASE t \in Changed /\ t \notin bad
    BY <1>2, <1>7, <1>8, <2>2
  <2>3. CASE t \notin Changed
    <3>1. st'[t] = st[t] /\ t \notin bad
      BY <1>2, <1>8, <2>3
    <3>2. t \in Asked => st[t].report.result # "-"
      BY <1>5, <2>3
    <3>3. st[t].report.lost \in {"none", "evaluate"}
      BY <1>3, <1>4 DEF Reported
    <3> QED BY <1>3, <1>4, <3>1, <3>2, <3>3 DEF Reports
  <2> QED BY <2>1, <2>2, <2>3
<1>13. Reports'
  <2>1. \A t \in Target : st'[t].report.result = "failed" => failed'
    BY <1>1, <1>3, <1>12 DEF Reports, f
  <2>2. \A t \in Target : Current(t)' = Current(t)
    BY <1>12 DEF Current
  <2> QED BY <1>2, <1>12, <2>1, <2>2 DEF Reports
<1>14. \A t \in Target : InGroup(t) /\ st'[t].report.result = "skipped" => failed'
  BY <1>1, <1>3, <1>12 DEF f
<1>15. CASE ends
  <2>1. /\ at' = "off" /\ serial' = NoSerial /\ exit' = (IF failed' THEN "failed" ELSE "ok")
        /\ opt.host = 0 => warned' = Lagging(st')
    BY <1>1, <1>15 DEF Finish, Over
  <2>2. exit' \in {"ok", "failed"} /\ (exit' = "ok" => ~ failed')
    BY <2>1
  <2>3. SuccessIsComplete'
    <3>1. CASE exit' = "ok"
      <4>1. opt.only = "build"
        BY <1>1, <1>10, <1>15, <2>2, <3>1
      <4>2. \A t \in Asked : st'[t].report.result # "-"
        BY <1>2, <1>12, <4>1
      <4> QED BY <1>1, <1>12, <1>13, <1>14, <2>1, <2>2, <4>2, FinishIsComplete
    <3>2. CASE exit' # "ok"
      BY <3>2 DEF SuccessIsComplete
    <3> QED BY <3>1, <3>2
  <2>4. Early' /\ Late'
    BY <2>1 DEF Early, Late, Before, Fleet
  <2>5. Verdict'
    BY <2>1, <2>3 DEF Verdict
  <2>6. Typed'
    BY <1>1, <1>3, <1>6, <1>8, <2>1, <2>2, NoSerialTyped DEF Typed
  <2> QED BY <1>12, <1>13, <2>1, <2>4, <2>5, <2>6, EarlyKeeps
<1>16. CASE ~ ends
  <2>1. /\ at' = next /\ serial' = NoSerial /\ exit' = "none" /\ opt' = opt /\ opt.only = "none"
        /\ opt.host # 0 => ~ f
    BY <1>1, <1>3, <1>11, <1>16
  <2>2. at' \in {"support", "single"} /\ (at' = "single" <=> opt.host # 0)
    BY <2>1
  <2> HIDE DEF next
  <2>3. at' = "single" => bad = {} /\ ~ failed'
    BY <1>1, <1>9, <2>1, <2>2
  <2>4. Early' /\ Late'
    <3>1. Early'
      BY <2>2 DEF Early, Before
    <3>2. Late'
      BY <1>2, <1>12, <2>1, <2>2, <2>3 DEF Late
    <3> QED BY <3>1, <3>2
  <2>5. Verdict'
    <3>1. \A s : InGroup(s)' = InGroup(s)
      BY DEF InGroup
    <3> QED BY <1>14, <2>1, <2>2, <2>3, <3>1 DEF Verdict, SuccessIsComplete
  <2>6. Typed'
    BY <1>1, <1>3, <1>6, <1>8, <2>1, <2>2, NoSerialTyped DEF Typed, Fleet
  <2> QED BY <1>12, <1>13, <2>1, <2>2, <2>4, <2>5, <2>6, EarlyKeeps
<1> QED BY <1>15, <1>16

-----------------------------------------------------------------------------
(* The invariant *)

(* The invariant holds before the first run. *)
LEMMA InitIs ==
    ASSUME Settings, Init
    PROVE  Inv
<1> USE DEF Result
<1>1. /\ opt = NoOptions /\ at = "off" /\ serial = NoSerial /\ blocked = {} /\ failed = FALSE
      /\ exit = "none" /\ runs = 0 /\ trouble = 0
  BY DEF Init
<1>2. /\ NoReport \in ReportState /\ NoReport.result = "-" /\ NoReport.evaluation = "none"
      /\ NoReport.built = "no" /\ NoReport.ran = "no" /\ NoReport.lost = "none" /\ Untouched(NoReport)
      /\ ~ NoReport.gate
  BY DEF NoReport, ReportState, Untouched
<1>3. PICK new \in SUBSET {<<"system", 1>>, <<"hm", 1>>} :
         st = [t \in Target |-> [report |-> NoReport, world |-> [World EXCEPT !.gen = IF t \in new THEN "new" ELSE "old"]]]
  BY DEF Init
<1> DEFINE gen(t) == IF t \in new THEN "new" ELSE "old"
           w(t) == [World EXCEPT !.gen = gen(t)]
<1>4. ASSUME NEW t \in Target
      PROVE  w(t) \in WorldState /\ ~ w(t).faulty /\ ~ w(t).mark
  <2>1. gen(t) \in {"old", "new"}
    OBVIOUS
  <2> HIDE DEF gen
  <2> QED BY <2>1 DEF World, WorldState
<1>5. ASSUME NEW t \in Target
      PROVE  st[t].report = NoReport /\ st[t].world = w(t) /\ st[t] \in TargetState
  <2>1. st[t] = [report |-> NoReport, world |-> w(t)]
    BY <1>3
  <2> HIDE DEF w, NoReport
  <2> QED BY <1>2, <1>4, <2>1 DEF TargetState
<1>6. Typed
  <2>1. st \in [Target -> TargetState]
    BY <1>3, <1>5
  <2>2. NoOptions \in OptionState
    BY DEF NoOptions, OptionState, Settings
  <2>3. 0 \in 0 .. Len(Options) /\ 0 \in 0 .. MaxTrouble
    BY DEF Settings
  <2> QED BY <1>1, <2>1, <2>2, <2>3, NoSerialTyped DEF Typed
<1> HIDE DEF w, NoReport
<1>7. Reports
  <2>1. \A t \in Target : Reported(st[t].report, st[t].world)
    BY <1>2, <1>4, <1>5 DEF Reported
  <2> QED BY <1>2, <1>5, <2>1 DEF Reports
<1>8. Early /\ Late /\ Left
  BY <1>1 DEF Early, Late, Left, Before, Fleet
<1>9. Verdict /\ Rollout
  BY <1>1 DEF Verdict, SuccessIsComplete, Rollout, NoSerial, Switching
<1>10. Turns
  <2>1. \A i \in DOMAIN SerialGroups : \A t \in MembersOf(i) : t \in Target
    BY MembersAreInGroup
  <2>2. \A t \in Target : st[t].report.ran = "no"
    BY <1>2, <1>5
  <2> QED BY <1>1, <2>1, <2>2 DEF Turns, Half, NoSerial
<1>11. UntouchedUnlessBuilt
  BY <1>2, <1>5 DEF UntouchedUnlessBuilt
<1> QED BY <1>6, <1>7, <1>8, <1>9, <1>10, <1>11 DEF Inv

(* The invariant is about these variables only. *)
LEMMA StutterKeeps ==
    ASSUME Inv, UNCHANGED vars
    PROVE  Inv'
<1>1. UNCHANGED <<opt, at, st, serial, blocked, failed, exit, warned, runs, trouble>>
  BY DEF vars
<1>2. Typed'
  BY <1>1 DEF Inv, Typed
<1>3. Reports' /\ UntouchedUnlessBuilt'
  BY <1>1, ReportsStay DEF Inv
<1>4. Asked' = Asked /\ Turn' = Turn
  BY <1>1, AskedStays DEF Turn
<1>5. Early'
  BY <1>1, <1>4 DEF Inv, Early, Result
<1>6. Late'
  BY <1>1, <1>4 DEF Inv, Late, Result, Busy, IsJob, Group
<1>7. Left'
  <2>1. Waiting("system")' = Waiting("system")
    BY <1>1, AskedStays DEF Waiting, Ready, Result
  <2> QED BY <1>1, <2>1 DEF Inv, Left, InGroup, Group
<1>8. Verdict'
  BY <1>1, <1>4 DEF Inv, Verdict, SuccessIsComplete, Result, InGroup
<1>9. Rollout'
  BY <1>1, <1>4 DEF Inv, Rollout, Result
<1>10. Turns'
  BY <1>1, <1>4 DEF Inv, Turns, Half, Result, MembersOf, InGroup, Group
<1> QED BY <1>2, <1>3, <1>5, <1>6, <1>7, <1>8, <1>9, <1>10 DEF Inv

(* Every step keeps the invariant. *)
LEMMA NextKeeps ==
    ASSUME Settings, Inv, Next
    PROVE  Inv'
<1>1. CASE runs < Len(Options) /\ \E options \in Options[runs + 1] : Begin(options)
  BY <1>1, BeginKeeps
<1>2. CASE \E skipped \in SUBSET Asked : Preflight(skipped)
  BY <1>2, PreflightKeeps
<1>3. CASE \E bad \in SUBSET Targets : \E silent \in SUBSET bad : Evaluate(bad, silent)
  BY <1>3, EvaluateKeeps
<1>4. CASE \E unknown \in SUBSET Targets : Plan(unknown)
  BY <1>4, PlanKeeps
<1>5. CASE \E bad \in SUBSET Changed, root \in BOOLEAN : Build(bad, root)
  BY <1>5, BuildKeeps
<1>6. CASE \E ok \in BOOLEAN : Sudo(ok)
  BY <1>6, SudoKeeps
<1>7. CASE \E ok \in BOOLEAN : Support(ok)
  BY <1>7, SupportKeeps, SupportFails
<1>8. CASE \E ok \in BOOLEAN : Reserve(ok) \/ Precheck(ok) \/ Release(ok)
  BY <1>8, ReserveKeeps, PrecheckKeeps, ReleaseKeeps
<1>9. CASE \E ok \in BOOLEAN : StartMember(ok) \/ EndMember(ok) \/ Gate(ok)
  BY <1>9, StartMemberKeeps, EndMemberKeeps, GateKeeps, GateFails, MemberStepFails
<1>10. CASE \E step \in {"setup", "begin", "start"} : BeginMember(step)
  BY <1>10, BeginMemberKeeps, MemberStepFails
<1>11. CASE \E o \in Outcomes(Turn) : RunMember(o)
  BY <1>11, RunMemberKeeps
<1>12. CASE \E t \in Ready : \/ \E ok \in BOOLEAN : BeginJob(t, ok)
                             \/ \E o \in Outcomes(t) : EndJob(t, o)
                             \/ \E o \in Outcomes(t), step \in {"setup", "begin", "switch"} : Switch(t, step, o)
  <2>1. PICK t \in Ready : \/ \E ok \in BOOLEAN : BeginJob(t, ok)
                           \/ \E o \in Outcomes(t) : EndJob(t, o)
                           \/ \E o \in Outcomes(t), step \in {"setup", "begin", "switch"} : Switch(t, step, o)
    BY <1>12
  <2>2. JobStep(t) /\ Typed' /\ t \in Target
    <3>1. t \in Target
      BY DEF Ready, Asked, Selected
    <3> QED BY <2>1, <3>1, BeginJobIs, EndJobIs, SwitchIs
  <2> QED BY <2>2, JobKeeps
<1>13. CASE JobsDone \/ PlainDone \/ NextGroup \/ SingleGroup
  BY <1>13, JobsDoneKeeps, PlainDoneKeeps, NextGroupKeeps, SingleGroupKeeps
<1>14. CASE NextMember
  BY <1>14, TurnBegins, GroupEnds
<1>15. CASE \E moved \in SUBSET {t \in Ready : st[t].report.ran = "started"} : Kill(moved)
  BY <1>15, KillKeeps
<1> QED
  BY <1>1, <1>2, <1>3, <1>4, <1>5, <1>6, <1>7, <1>8, <1>9, <1>10, <1>11, <1>12, <1>13, <1>14, <1>15 DEF Next

(* The invariant holds in every state of every run. *)
LEMMA Invariance ==
    ASSUME Settings
    PROVE  Spec => []Inv
<1>1. Init => Inv
  BY InitIs
<1>2. Inv /\ [Next]_vars => Inv'
  BY NextKeeps, StutterKeeps
<1> QED BY <1>1, <1>2, PTL DEF Spec

-----------------------------------------------------------------------------
(* The theorems *)

(* The type invariant, of any run of any inventory. *)
THEOREM TypeCorrect ==
    ASSUME Settings
    PROVE  Spec => []TypeOK
<1>1. Inv => TypeOK
  <2> SUFFICES ASSUME Inv PROVE TypeOK
    OBVIOUS
  <2>1. Typed
    BY DEF Inv
  <2>2. ASSUME NEW t \in Target
        PROVE  /\ st[t].report.result \in {"-", "skipped", "failed", "unchanged", "planned", "built", "ok"}
               /\ st[t].report.ran \in {"no", "started", "failed", "worked"}
               /\ st[t].world.gen \in {"old", "staged", "new"}
    BY <2>1, EntryParts DEF Typed, ReportState, WorldState
  <2>3. opt.mode \in {"full", "nixos", "hm"} /\ opt.host \in 0 .. HostCount /\ opt.only \in {"none", "dry", "build"}
    BY <2>1 DEF Typed, OptionState
  <2> QED BY <2>1, <2>2, <2>3 DEF TypeOK, Typed, Before, Fleet
<1> QED BY <1>1, Invariance, PTL

(* What a run's record holds of a failed target leads triage to the step that *)
(* failed, and to none before or after it, whichever steps failed on the way  *)
(* (triage.go, failedStep).                                                   *)
THEOREM TriageNamesTheStep ==
    ASSUME Settings
    PROVE  Spec => []TriageIsRight
<1>1. Inv => TriageIsRight
  <2> SUFFICES ASSUME Inv, NEW t \in Target, st[t].report.result = "failed"
               PROVE  LET r == st[t].report  s == failedStep(t) IN
                      /\ s = "evaluate" <=> r.evaluation = "error"
                      /\ s = "build" <=> r.lost = "build"
                      /\ s \in {"activate", "activation"} => r.built = "yes" /\ r.lost \notin {"setup", "gate", "release"}
                      /\ s = "gate" <=> r.lost \in {"gate", "release"}
                      /\ r.ran # "no" /\ s = "untold" => r.lost = "ended"
    BY DEF TriageIsRight
  <2> DEFINE r == st[t].report
             s == failedStep(t)
  <2>1. Failure(r) /\ r \in ReportState
    BY EntryParts DEF Inv, Typed, Reports, Reported, Result
  <2>2. s = (IF r.built = "failed" THEN "build" ELSE IF r.gate THEN "gate" ELSE IF r.log THEN "activate"
             ELSE IF r.seconds THEN "activation" ELSE IF r.evaluation = "error" THEN "evaluate" ELSE "untold")
    BY DEF failedStep
  <2> HIDE DEF r, s
  <2>3. /\ s = "evaluate" <=> r.evaluation = "error"
        /\ s = "build" <=> r.lost = "build"
        /\ s \in {"activate", "activation"} => r.built = "yes" /\ r.lost \notin {"setup", "gate", "release"}
        /\ s = "gate" <=> r.lost \in {"gate", "release"}
        /\ r.ran # "no" /\ s = "untold" => r.lost = "ended"
    <3>1. CASE r.lost \in {"evaluate", "build", "setup"}
      BY <2>1, <2>2, <3>1 DEF Failure, Untouched
    <3>2. CASE r.lost \in {"begin", "start", "ended"}
      BY <2>1, <2>2, <3>2 DEF Failure, Untouched
    <3>3. CASE r.lost \in {"switch", "gate", "release"}
      BY <2>1, <2>2, <3>3 DEF Failure, Untouched
    <3> QED BY <2>1, <3>1, <3>2, <3>3 DEF Failure
  <2> QED BY <2>3 DEF r, s
<1> QED BY <1>1, Invariance, PTL

(* A target that a run leaves alone as unchanged is one whose host has what it *)
(* evaluates to, from an activation that nothing showed to have gone wrong, in *)
(* this run or in any before it, interrupted ones too (failed.go, deploy.go).  *)
THEOREM UnchangedTargetsAreSound ==
    ASSUME Settings
    PROVE  Spec => []UnchangedIsSound
<1>1. Inv => UnchangedIsSound
  BY DEF Inv, Reports, Reported, Result, UnchangedIsSound
<1> QED BY <1>1, Invariance, PTL

(* While a member of a gated group is switched the ready command has seen all *)
(* the others since the group's last switch; at most one member of any group  *)
(* is at work or left half switched, and none is switched once a member was   *)
(* skipped (switchGroup and reserve.go's reservation around it).              *)
THEOREM GroupsSwitchInTurn ==
    ASSUME Settings
    PROVE  Spec => []SerialInTurn
<1>1. Inv => SerialInTurn
  <2> SUFFICES ASSUME Inv, NEW i \in DOMAIN SerialGroups
               PROVE  /\ \A t, s \in MembersOf(i) : i \in Gated /\ st[t].report.ran = "started" /\ s # t => st[s].report.seen
                      /\ Cardinality({t \in MembersOf(i) : st[t].report.ran # "no" /\ Result(t) # "ok"}) <= 1
                      /\ i \in blocked => \A t \in MembersOf(i) : ~ (st[t].report.ran # "no")
    BY DEF SerialInTurn, MembersOf
  <2> DEFINE H == {t \in MembersOf(i) : st[t].report.ran # "no" /\ Result(t) # "ok"}
  <2>1. \A t, s \in H : t = s
    BY DEF Inv, Turns, Half
  <2>2. Cardinality(H) <= 1
    <3>1. CASE H = {}
      <4> HIDE DEF H
      <4> QED BY <3>1, FS_EmptySet
    <3>2. CASE H # {}
      <4>1. PICK t \in H : H = {t}
        BY <2>1, <3>2
      <4> HIDE DEF H
      <4> QED BY <4>1, FS_Singleton
    <3> QED BY <3>1, <3>2
  <2> QED BY <2>2 DEF Inv, Turns
<1> QED BY <1>1, Invariance, PTL

(* What was activated was built, and a single host whose system or Home        *)
(* Manager did not evaluate or build is not touched at all (deploy.go).        *)
THEOREM NothingUnbuiltIsTouched ==
    ASSUME Settings
    PROVE  Spec => []UntouchedUnlessBuilt
<1>1. Inv => UntouchedUnlessBuilt
  BY DEF Inv
<1> QED BY <1>1, Invariance, PTL

(* A run that exits 0 has left every target as its result says, has skipped no *)
(* member of a serial group, and has named the hosts whose Home Manager stayed *)
(* behind their system (deploy.go, finish).                                    *)
THEOREM SuccessesAreComplete ==
    ASSUME Settings
    PROVE  Spec => []SuccessIsComplete
<1>1. Inv => SuccessIsComplete
  BY DEF Inv, Verdict
<1> QED BY <1>1, Invariance, PTL

================================================================================
