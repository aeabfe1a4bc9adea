------------------------ MODULE NodeMaintenanceProofs ------------------------
(***************************************************************************)
(* Proofs about NodeMaintenance for any nodes, commands, targets, options  *)
(* and bounds.  SafeInv is about the gates and what may drop a host,       *)
(* FreshInv about heartbeats and boots, ToldInv about the agents that were *)
(* stopped, LimitInv about Longhorn's rebuild limit.                       *)
(***************************************************************************)
EXTENDS NodeMaintenance, TLAPS

-----------------------------------------------------------------------------
(* The invariants *)

\* Commands at work have nodes of their own, and at most one takes a node down.
Apart ==
    \A o, p \in Op : o # p /\ Active(o) /\ Active(p) =>
        Target[o] # Target[p] /\ (op[o].act = "on" \/ op[p].act = "on")

\* What a command may remember at each place.  A power-on has no gates before
\* the drop, and a releasable cordon is one of this run's drain.
Sound(r) ==
    /\ r.at \in Preparing \cup Leaving \cup {"survivors", "newboot"} => r.act # "on"
    /\ r.at = "baseline" => r.act = "on"
    /\ r.releasable => r.at \in {"drain", "release", "cleanup"}
    /\ r.at = "idle" => ~r.told

\* Types and what a record may say, which the types need.
BaseInv == TypeOK /\ \A o \in Op : Sound(op[o])

\* Between the look at all the agents and this command's own stop.
Looked == {"health", "resumed", "primary", "cordon", "drain", "detach", "survive",
           "recheck", "stop", "await", "power"}

\* From the node's cordon, from its last volume, from the look at the
\* survivors, and from the recheck on.
Cordoned == {"drain", "detach", "survive", "recheck", "stop", "await", "power"}
Emptied  == {"survive", "recheck", "stop", "await", "power"}
Checked  == {"recheck", "stop", "await", "power"}
AllUp    == {"stop", "await", "power"}

\* Where a step may follow that gives the node back to the scheduler.
Releases(r) == \/ r.at \in {"health", "primary", "cordon", "drain", "uncordon"}
               \/ r.at = "release" /\ r.releasable

\* What the gates passed so far say of the cluster, for a command on node n.
Passed(n, r) ==
    /\ r.at \in Looked => \A m \in Node : host[m].up => host[m].order = "none"
    /\ r.at \in Cordoned => n \in cordon
    /\ r.at \in Emptied => n \notin load
    /\ r.at \in Checked => OthersInSync(n) /\ PrimaryElsewhere(n)
    /\ r.at \in AllUp => \A m \in Node : host[m].up
    /\ r.at \in {"await", "power"} => ~host[n].agent
    /\ Releases(r) /\ host[n].up => host[n].agent

\* A host that is about to go down by a command.
Pending(n) == host[n].up /\ host[n].order # "none"

\* Everything else was made ready for it, and stays so.
ReadyToDrop(n) ==
    /\ ~host[n].agent
    /\ n \in cordon \ load /\ n # primary
    /\ OthersInSync(n)
    /\ \A m \in Node \ {n} : host[m].up /\ host[m].order = "none"

SafeInv ==
    /\ TypeOK /\ Apart /\ StoppedStaysCordoned
    /\ \A o \in Op : Sound(op[o]) /\ Passed(Target[o], op[o])
    /\ \A n \in Node : Pending(n) => ReadyToDrop(n)

\* From the stop's answer until the agent is believed to be back.
Awaiting == {"power", "down", "survivors", "up", "newboot", "ready", "back"}

\* A heartbeat later than the baseline is of a later boot than the one that was
\* stopped, and of this boot or a later one for a power-on.
FreshAfter(n, r) ==
    /\ r.act # "on" /\ r.at \in Awaiting =>
          /\ r.seen <= host[n].boot /\ r.baseline <= clock
          /\ host[n].up /\ host[n].agent => r.seen < host[n].boot
          /\ beat[n].at > r.baseline => r.seen < beat[n].boot
    /\ r.act = "on" /\ r.at = "back" =>
          /\ r.seen <= host[n].boot /\ r.baseline <= clock
          /\ beat[n].at > r.baseline => r.seen <= beat[n].boot

FreshInv ==
    /\ SafeInv
    /\ \A n \in Node : beat[n].at <= clock
    /\ \A o \in Op : FreshAfter(Target[o], op[o])

\* A command that has told of a stopped agent, or will.
Tells(r) == r.told \/ r.at = "await" \/ (r.stopped /\ r.at \notin {"idle", "ended"})

ToldInv ==
    /\ BaseInv
    /\ \A n \in Node : host[n].up /\ ~host[n].agent => \E o \in Op : Target[o] = n /\ Tells(op[o])

\* A command that has the raised rebuild limit to put back, or could not.
Owes(r) == r.raised /\ r.at # "idle"

LimitInv == BaseInv /\ (limit # 0 => \E o \in Op : Owes(op[o]))
-----------------------------------------------------------------------------
(* What a step makes of a command's record *)

\* What most steps leave as it was.
Same(s, r) ==
    /\ r.act = s.act /\ r.releasable = s.releasable /\ r.raised = s.raised
    /\ r.stopped = s.stopped /\ r.told = s.told
    /\ r.baseline = s.baseline /\ r.seen = s.seen

\* They agree on all of those but one.
SameButReleasable(s, r) ==
    /\ r.act = s.act /\ r.raised = s.raised /\ r.stopped = s.stopped
    /\ r.told = s.told /\ r.baseline = s.baseline /\ r.seen = s.seen
SameButRaised(s, r) ==
    /\ r.act = s.act /\ r.releasable = s.releasable /\ r.stopped = s.stopped
    /\ r.told = s.told /\ r.baseline = s.baseline /\ r.seen = s.seen
SameButStopped(s, r) ==
    /\ r.act = s.act /\ r.releasable = s.releasable /\ r.raised = s.raised
    /\ r.told = s.told /\ r.baseline = s.baseline /\ r.seen = s.seen
SameButTold(s, r) ==
    /\ r.act = s.act /\ r.releasable = s.releasable /\ r.raised = s.raised
    /\ r.stopped = s.stopped /\ r.baseline = s.baseline /\ r.seen = s.seen

\* Command o's record becomes r, and the others' stay.
Becomes(o, r) ==
    /\ r \in OpState /\ op' = [op EXCEPT ![o] = r]
    /\ op' \in [Op -> OpState] /\ op'[o] = r
    /\ \A p \in Op \ {o} : op'[p] = op[p]

(* A record of its type is what the command's becomes. *)
LEMMA Becoming ==
    ASSUME op \in [Op -> OpState], NEW o \in Op, NEW r \in OpState, op' = [op EXCEPT ![o] = r]
    PROVE  Becomes(o, r)
BY DEF Becomes

(* Nobody is beyond the places. *)
LEMMA FailurePlace ==
    ASSUME NEW o \in Op
    PROVE  AfterFailure(o) \in {"release", "cleanup"} /\ AfterFailure(o) \in Where
           /\ (AfterFailure(o) = "release" => op[o].at \in Preparing)
BY DEF AfterFailure, Where

(* Goto and Fails change the place alone. *)
LEMMA Gone ==
    ASSUME op \in [Op -> OpState], NEW o \in Op, NEW w \in Where, Goto(o, w)
    PROVE  \E r : Becomes(o, r) /\ r.at = w /\ Same(op[o], r)
<1> DEFINE r == [op[o] EXCEPT !.at = w]
<1>1. op[o] \in OpState
  OBVIOUS
<1>2. r \in OpState /\ r.at = w /\ Same(op[o], r)
  BY <1>1 DEF OpState, Same
<1>3. op' = [op EXCEPT ![o] = r]
  BY DEF Goto
<1> HIDE DEF r
<1> QED BY <1>2, <1>3, Becoming

(* A failure leads to the release of the cordon, from the preparation, or to  *)
(* the cleanup.                                                               *)
LEMMA Failed ==
    ASSUME op \in [Op -> OpState], NEW o \in Op, Fails(o)
    PROVE  \E r : /\ Becomes(o, r) /\ r.at = AfterFailure(o) /\ Same(op[o], r)
BY Gone, FailurePlace DEF Fails

(* What a gate makes of it.                                                   *)
LEMMA GateTurns ==
    ASSUME op \in [Op -> OpState], NEW o \in Op, NEW here, NEW condition, NEW next \in Where,
           Gate(o, here, condition, next)
    PROVE  \E r : /\ Becomes(o, r) /\ Same(op[o], r)
                  /\ r.at = AfterFailure(o) \/ (condition /\ r.at = next)
BY Gone, Failed DEF Gate

(* A new command's record.                                                    *)
LEMMA NewOpType == NewOp \in OpState
BY NodeMaintenanceAssumption DEF NewOp, OpState, Where

(* The start takes its options.                                               *)
LEMMA StartTurns ==
    ASSUME op \in [Op -> OpState], NEW o \in Op, Start(o)
    PROVE  \E r : /\ Becomes(o, r) /\ Alone(o, r.act)
                  /\ r.at = IF r.act = "on" THEN "up" ELSE "access"
                  /\ ~r.releasable /\ ~r.raised /\ ~r.stopped /\ ~r.told
<1>1. PICK opt \in Options[o] :
          /\ Alone(o, opt.act)
          /\ op' = [op EXCEPT ![o] =
                      [NewOp EXCEPT !.at = IF opt.act = "on" THEN "up" ELSE "access",
                                    !.act = opt.act, !.resume = opt.resume,
                                    !.drain = opt.drain, !.leave = opt.leave]]
  BY DEF Start
<1> DEFINE w == IF opt.act = "on" THEN "up" ELSE "access"
           r == [NewOp EXCEPT !.at = w, !.act = opt.act, !.resume = opt.resume,
                              !.drain = opt.drain, !.leave = opt.leave]
<1>2. /\ opt \in [act : {"reboot", "off", "on"}, resume : BOOLEAN, drain : BOOLEAN, leave : BOOLEAN]
      /\ w \in Where
  BY NodeMaintenanceAssumption DEF Where, Preparing
<1>3. ~NewOp.releasable /\ ~NewOp.raised /\ ~NewOp.stopped /\ ~NewOp.told
  BY DEF NewOp
<1>4. op' = [op EXCEPT ![o] = r]
  BY <1>1
<1> HIDE DEF w
<1>5. r \in OpState /\ r.act = opt.act /\ r.at = w
  BY <1>2, NewOpType DEF OpState
<1>6. ~r.releasable /\ ~r.raised /\ ~r.stopped /\ ~r.told
  BY <1>3, NewOpType DEF OpState
<1> HIDE DEF r
<1>7. Becomes(o, r)
  BY <1>4, <1>5, Becoming
<1> QED BY <1>1, <1>5, <1>6, <1>7 DEF w

(* The raised limit is remembered, at the gate or on the way out.             *)
LEMMA RaiseTurns ==
    ASSUME op \in [Op -> OpState], NEW o \in Op, RaiseLimit(o)
    PROVE  \E r : /\ Becomes(o, r) /\ r.raised /\ SameButRaised(op[o], r)
                  /\ r.at = op[o].at \/ r.at = AfterFailure(o)
<1>0. op[o] \in OpState
  OBVIOUS
<1>1. CASE op' = [op EXCEPT ![o].raised = TRUE]
  <2> DEFINE r == [op[o] EXCEPT !.raised = TRUE]
  <2>1. r \in OpState /\ r.raised /\ SameButRaised(op[o], r) /\ r.at = op[o].at
    BY <1>0 DEF OpState, Same, SameButRaised
  <2>2. op' = [op EXCEPT ![o] = r]
    BY <1>1
  <2> HIDE DEF r
  <2> QED BY <2>1, <2>2, Becoming
<1>2. CASE op' = [op EXCEPT ![o].raised = TRUE, ![o].at = AfterFailure(o)]
  <2> DEFINE w == AfterFailure(o)
             r == [op[o] EXCEPT !.raised = TRUE, !.at = w]
  <2>1. w \in Where
    BY FailurePlace
  <2>2. op' = [op EXCEPT ![o] = r]
    BY <1>2
  <2> HIDE DEF w
  <2>3. r \in OpState /\ r.raised /\ SameButRaised(op[o], r) /\ r.at = w
    BY <1>0, <2>1 DEF OpState, Same, SameButRaised
  <2> HIDE DEF r
  <2>4. Becomes(o, r)
    BY <2>2, <2>3, Becoming
  <2> QED BY <2>3, <2>4 DEF w
<1> QED BY <1>1, <1>2 DEF RaiseLimit

(* The health gate closes what it raised, or fails.                           *)
LEMMA HealthTurns ==
    ASSUME op \in [Op -> OpState], NEW o \in Op, NEW next \in Where, HealthPasses(o, next)
    PROVE  \E r : /\ Becomes(o, r)
                  /\ \/ /\ r.at = next /\ ~r.raised /\ SameButRaised(op[o], r)
                        /\ limit' = IF op[o].raised THEN 0 ELSE limit
                     \/ r.at = AfterFailure(o) /\ Same(op[o], r) /\ limit' \in {0, limit}
<1>0. op[o] \in OpState
  OBVIOUS
<1>1. CASE limit' = (IF op[o].raised THEN 0 ELSE limit)
           /\ op' = [op EXCEPT ![o].at = next, ![o].raised = FALSE]
  <2> DEFINE r == [op[o] EXCEPT !.at = next, !.raised = FALSE]
  <2>1. r \in OpState /\ r.at = next /\ ~r.raised /\ SameButRaised(op[o], r)
    BY <1>0 DEF OpState, Same, SameButRaised
  <2>2. op' = [op EXCEPT ![o] = r]
    BY <1>1
  <2> HIDE DEF r
  <2> QED BY <1>1, <2>1, <2>2, Becoming
<1>2. CASE limit' \in {0, limit} /\ Fails(o)
  BY <1>2, Failed
<1> QED BY <1>1, <1>2 DEF HealthPasses

(* The cordon is this run's to release if it drains.                          *)
LEMMA CordonTurns ==
    ASSUME op \in [Op -> OpState], NEW o \in Op,
           op' = [op EXCEPT ![o].at = IF op[o].drain THEN "drain" ELSE "detach",
                            ![o].releasable = op[o].drain]
    PROVE  \E r : /\ Becomes(o, r) /\ SameButReleasable(op[o], r)
                  /\ r.at \in {"drain", "detach"} /\ (r.releasable => r.at = "drain")
<1> DEFINE r == [op[o] EXCEPT !.at = IF op[o].drain THEN "drain" ELSE "detach",
                              !.releasable = op[o].drain]
<1>0. op[o] \in OpState
  OBVIOUS
<1>1. r \in OpState
  BY <1>0 DEF OpState, Where, Preparing
<1>2. /\ SameButReleasable(op[o], r)
      /\ r.at \in {"drain", "detach"} /\ (r.releasable => r.at = "drain")
  BY <1>0 DEF OpState, Same, SameButReleasable
<1>3. op' = [op EXCEPT ![o] = r]
  OBVIOUS
<1> HIDE DEF r
<1> QED BY <1>1, <1>2, <1>3, Becoming

(* After the drain it is not any more.                                        *)
LEMMA DrainTurns ==
    ASSUME op \in [Op -> OpState], NEW o \in Op,
           op' = [op EXCEPT ![o].at = "detach", ![o].releasable = FALSE]
    PROVE  \E r : /\ Becomes(o, r) /\ SameButReleasable(op[o], r)
                  /\ r.at = "detach" /\ ~r.releasable
<1> DEFINE r == [op[o] EXCEPT !.at = "detach", !.releasable = FALSE]
<1>0. op[o] \in OpState
  OBVIOUS
<1>1. r \in OpState /\ SameButReleasable(op[o], r) /\ r.at = "detach" /\ ~r.releasable
  BY <1>0 DEF OpState, Same, SameButReleasable, Where, Preparing
<1>2. op' = [op EXCEPT ![o] = r]
  OBVIOUS
<1> HIDE DEF r
<1> QED BY <1>1, <1>2, Becoming

(* An error that names the agent.                                             *)
LEMMA TellTurns ==
    ASSUME op \in [Op -> OpState], NEW o \in Op,
           op' = [op EXCEPT ![o].at = "cleanup", ![o].told = TRUE]
    PROVE  \E r : /\ Becomes(o, r) /\ SameButTold(op[o], r)
                  /\ r.at = "cleanup" /\ r.told
<1> DEFINE r == [op[o] EXCEPT !.at = "cleanup", !.told = TRUE]
<1>0. op[o] \in OpState
  OBVIOUS
<1>1. r \in OpState /\ SameButTold(op[o], r) /\ r.at = "cleanup" /\ r.told
  BY <1>0 DEF OpState, Same, SameButTold, Where
<1>2. op' = [op EXCEPT ![o] = r]
  OBVIOUS
<1> HIDE DEF r
<1> QED BY <1>1, <1>2, Becoming

(* The wait for the stopped annotation ends with a baseline, or tells.        *)
LEMMA AwaitTurns ==
    ASSUME TypeOK, NEW o \in Op, AwaitStopped(o)
    PROVE  \E r : /\ Becomes(o, r) /\ r.act = op[o].act /\ r.releasable = op[o].releasable
                  /\ r.raised = op[o].raised
                  /\ \/ /\ r.at = "power" /\ r.stopped /\ r.told = op[o].told
                        /\ r.seen = host[Target[o]].boot
                        /\ r.baseline \in {beat[Target[o]].at, clock}
                     \/ /\ r.at = "cleanup" /\ r.told
<1>0. op \in [Op -> OpState] /\ op[o] \in OpState /\ Target[o] \in Node
  BY NodeMaintenanceAssumption DEF TypeOK
<1>1. ASSUME NEW time \in {beat[Target[o]].at, clock},
             op' = [op EXCEPT ![o].at = "power", ![o].stopped = TRUE, ![o].baseline = time,
                              ![o].seen = host[Target[o]].boot]
      PROVE  \E r : /\ Becomes(o, r) /\ r.act = op[o].act /\ r.releasable = op[o].releasable
                    /\ r.raised = op[o].raised
                    /\ r.at = "power" /\ r.stopped /\ r.told = op[o].told
                    /\ r.seen = host[Target[o]].boot /\ r.baseline = time
  <2> DEFINE b == host[Target[o]].boot
             r == [op[o] EXCEPT !.at = "power", !.stopped = TRUE, !.baseline = time, !.seen = b]
  <2>1. b \in Nat /\ time \in -1 .. MaxTime
    BY <1>0, NodeMaintenanceAssumption DEF TypeOK, HostState
  <2>2. op' = [op EXCEPT ![o] = r]
    BY <1>1
  <2> HIDE DEF b
  <2>3. r \in OpState /\ r.act = op[o].act /\ r.releasable = op[o].releasable
        /\ r.raised = op[o].raised /\ r.at = "power" /\ r.stopped /\ r.told = op[o].told
        /\ r.seen = b /\ r.baseline = time
    BY <1>0, <2>1 DEF OpState, Where, Leaving
  <2> HIDE DEF r
  <2>4. Becomes(o, r)
    BY <1>0, <2>2, <2>3, Becoming
  <2> QED BY <2>3, <2>4 DEF b
<1>2. ASSUME op' = [op EXCEPT ![o].at = "cleanup", ![o].told = TRUE]
      PROVE  \E r : /\ Becomes(o, r) /\ SameButTold(op[o], r)
                    /\ r.at = "cleanup" /\ r.told
  BY <1>0, <1>2, TellTurns
<1>3. \A r : SameButTold(op[o], r) =>
          r.act = op[o].act /\ r.releasable = op[o].releasable /\ r.raised = op[o].raised
  BY <1>0 DEF Same, SameButTold, OpState
<1> QED BY <1>1, <1>2, <1>3 DEF AwaitStopped

(* The command that takes the node down was sent.                             *)
LEMMA SentTurns ==
    ASSUME TypeOK, NEW o \in Op,
           op' = [op EXCEPT ![o].at = "down", ![o].boot = host[Target[o]].boot]
    PROVE  \E r : Becomes(o, r) /\ Same(op[o], r) /\ r.at = "down"
<1> DEFINE b == host[Target[o]].boot
           r == [op[o] EXCEPT !.at = "down", !.boot = b]
<1>0. op \in [Op -> OpState] /\ op[o] \in OpState /\ Target[o] \in Node
  BY NodeMaintenanceAssumption DEF TypeOK
<1>1. b \in Nat
  BY <1>0 DEF TypeOK, HostState
<1>2. op' = [op EXCEPT ![o] = r]
  OBVIOUS
<1> HIDE DEF b
<1>3. r \in OpState /\ Same(op[o], r) /\ r.at = "down"
  BY <1>0, <1>1 DEF OpState, Same, Where, Leaving
<1> HIDE DEF r
<1> QED BY <1>0, <1>2, <1>3, Becoming

(* The host dropped.                                                          *)
LEMMA DownTurns ==
    ASSUME op \in [Op -> OpState], NEW o \in Op,
           op' = [op EXCEPT ![o].at = "survivors", ![o].stopped = FALSE]
    PROVE  \E r : Becomes(o, r) /\ SameButStopped(op[o], r) /\ r.at = "survivors"
<1> DEFINE r == [op[o] EXCEPT !.at = "survivors", !.stopped = FALSE]
<1>0. op[o] \in OpState
  OBVIOUS
<1>1. r \in OpState /\ SameButStopped(op[o], r) /\ r.at = "survivors"
  BY <1>0 DEF OpState, Same, SameButStopped, Where
<1>2. op' = [op EXCEPT ![o] = r]
  OBVIOUS
<1> HIDE DEF r
<1> QED BY <1>1, <1>2, Becoming

(* A power-on's baseline is now.                                              *)
LEMMA BaselineTurns ==
    ASSUME TypeOK, NEW o \in Op,
           op' = [op EXCEPT ![o].at = "back", ![o].baseline = clock,
                            ![o].seen = host[Target[o]].boot]
    PROVE  \E r : /\ Becomes(o, r) /\ r.at = "back" /\ r.act = op[o].act
                  /\ r.releasable = op[o].releasable /\ r.raised = op[o].raised
                  /\ r.stopped = op[o].stopped /\ r.told = op[o].told
                  /\ r.baseline = clock /\ r.seen = host[Target[o]].boot
<1> DEFINE b == host[Target[o]].boot
           r == [op[o] EXCEPT !.at = "back", !.baseline = clock, !.seen = b]
<1>0. op \in [Op -> OpState] /\ op[o] \in OpState /\ Target[o] \in Node
  BY NodeMaintenanceAssumption DEF TypeOK
<1>1. b \in Nat /\ clock \in -1 .. MaxTime
  BY <1>0, NodeMaintenanceAssumption DEF TypeOK, HostState
<1>2. op' = [op EXCEPT ![o] = r]
  OBVIOUS
<1> HIDE DEF b
<1>3. /\ r \in OpState /\ r.at = "back" /\ r.act = op[o].act
      /\ r.releasable = op[o].releasable /\ r.raised = op[o].raised
      /\ r.stopped = op[o].stopped /\ r.told = op[o].told
      /\ r.baseline = clock /\ r.seen = b
  BY <1>0, <1>1 DEF OpState, Where
<1> HIDE DEF r
<1>4. Becomes(o, r)
  BY <1>0, <1>2, <1>3, Becoming
<1> QED BY <1>3, <1>4 DEF b

(* The cleanup forgets all but what it could not put back or had to tell.     *)
LEMMA CleanupTurns ==
    ASSUME op \in [Op -> OpState], NEW o \in Op, NEW kept \in BOOLEAN,
           op' = [op EXCEPT ![o] = [NewOp EXCEPT !.at = "ended", !.raised = kept,
                                               !.told = op[o].told \/ op[o].stopped]]
    PROVE  \E r : /\ Becomes(o, r) /\ r.at = "ended" /\ r.raised = kept /\ ~r.releasable
                  /\ r.told = (op[o].told \/ op[o].stopped)
<1> DEFINE t == op[o].told \/ op[o].stopped
           r == [NewOp EXCEPT !.at = "ended", !.raised = kept, !.told = t]
<1>0. op' = [op EXCEPT ![o] = r]
  OBVIOUS
<1>1. t \in BOOLEAN
  BY DEF OpState
<1> HIDE DEF t
<1>2. NewOp \in OpState /\ ~NewOp.releasable
  BY NewOpType DEF NewOp
<1>3. r \in OpState /\ r.at = "ended" /\ r.raised = kept /\ ~r.releasable /\ r.told = t
  BY <1>1, <1>2 DEF OpState, Where
<1> HIDE DEF r
<1>4. Becomes(o, r)
  BY <1>0, <1>3, Becoming
<1> QED BY <1>3, <1>4 DEF t

(* An interrupt is a failure, except that a release under way goes on.        *)
LEMMA InterruptTurns ==
    ASSUME op \in [Op -> OpState], NEW o \in Op, Interrupt(o)
    PROVE  \E r : /\ Becomes(o, r) /\ SameButTold(op[o], r)
                  /\ \/ r.at = "release" /\ op[o].at = "release"
                     \/ r.at = AfterFailure(o)
                  /\ op[o].told => r.told
                  /\ op[o].at = "stop" \/ (op[o].at = "await" /\ ~Silent) => r.told
<1>1. PICK named \in (IF op[o].at = "await" /\ Silent THEN BOOLEAN ELSE {TRUE}) :
          op' = [op EXCEPT ![o].interrupted = TRUE,
                           ![o].at = IF @ = "release" THEN @ ELSE AfterFailure(o),
                           ![o].told = @ \/ (op[o].at \in {"stop", "await"} /\ named)]
  BY DEF Interrupt
<1> DEFINE w == IF op[o].at = "release" THEN "release" ELSE AfterFailure(o)
           t == op[o].told \/ (op[o].at \in {"stop", "await"} /\ named)
           r == [op[o] EXCEPT !.interrupted = TRUE, !.at = w, !.told = t]
<1>2. w \in Where /\ t \in BOOLEAN /\ op[o] \in OpState
  BY FailurePlace DEF OpState
<1>3. op' = [op EXCEPT ![o] = r]
  BY <1>1
<1>4. /\ \/ w = "release" /\ op[o].at = "release"
         \/ w = AfterFailure(o)
      /\ op[o].told => t
      /\ op[o].at = "stop" \/ (op[o].at = "await" /\ ~Silent) => t
  BY <1>1
<1> HIDE DEF w, t
<1>5. r \in OpState /\ r.at = w /\ r.told = t /\ SameButTold(op[o], r)
  BY <1>2 DEF OpState, Same, SameButTold
<1> HIDE DEF r
<1>6. Becomes(o, r)
  BY <1>3, <1>5, Becoming
<1> QED BY <1>4, <1>5, <1>6

-----------------------------------------------------------------------------
(* Types *)

(* The initial states are typed.                                              *)
LEMMA InitTyped == Init => TypeOK
<1> SUFFICES ASSUME Init PROVE TypeOK
  OBVIOUS
<1>1. op \in [Op -> OpState]
  BY NewOpType DEF Init
<1>2. host \in [Node -> HostState] /\ beat \in [Node -> [at : 0 .. MaxTime, boot : Nat]]
  BY NodeMaintenanceAssumption DEF Init, HostState
<1>3. mode \in [Node -> {"running", "stopped"}]
  BY DEF Init
<1> QED BY <1>1, <1>2, <1>3, NodeMaintenanceAssumption DEF Init, TypeOK

(* A gate changes no more than its command's record.                          *)
LEMMA GateTyped ==
    ASSUME TypeOK, NEW o \in Op, NEW here, NEW condition, NEW next \in Where,
           Gate(o, here, condition, next)
    PROVE  TypeOK'
<1>1. op' \in [Op -> OpState]
  BY GateTurns DEF TypeOK, Becomes
<1> QED BY <1>1 DEF Gate, TypeOK, api, storage, world

(* The commands' gates.                                                       *)
LEMMA GatesTyped ==
    ASSUME TypeOK, NEW o \in Op,
           \/ CheckAccess(o) \/ VerifyResumed(o) \/ Detach(o) \/ CheckSurvival(o) \/ Recheck(o)
           \/ SurvivorsNetwork(o) \/ AwaitUp(o) \/ VerifyNewBoot(o) \/ CheckReturned(o)
           \/ AgentReturned(o)
    PROVE  TypeOK'
<1> USE DEF Where, Preparing, Leaving
<1>1. CASE CheckAccess(o)
  BY <1>1, GateTyped DEF CheckAccess
<1>2. CASE VerifyResumed(o)
  BY <1>2, GateTyped DEF VerifyResumed
<1>3. CASE Detach(o)
  BY <1>3, GateTyped DEF Detach
<1>4. CASE CheckSurvival(o)
  BY <1>4, GateTyped DEF CheckSurvival
<1>5. CASE Recheck(o)
  BY <1>5, GateTyped DEF Recheck
<1>6. CASE SurvivorsNetwork(o)
  BY <1>6, GateTyped DEF SurvivorsNetwork
<1>7. CASE AwaitUp(o)
  BY <1>7, GateTyped DEF AwaitUp
<1>8. CASE VerifyNewBoot(o)
  BY <1>8, GateTyped DEF VerifyNewBoot
<1>9. CASE CheckReturned(o)
  BY <1>9, GateTyped DEF CheckReturned
<1>10. CASE AgentReturned(o)
  BY <1>10, GateTyped DEF AgentReturned
<1> QED BY <1>1, <1>2, <1>3, <1>4, <1>5, <1>6, <1>7, <1>8, <1>9, <1>10

(* A host whose agent starts or stops, or that goes down, is still a host.     *)
LEMMA AgentSet ==
    ASSUME NEW h \in HostState, NEW a \in BOOLEAN
    PROVE  [h EXCEPT !.agent = a] \in HostState
BY DEF HostState

(* So is a host that goes down.                                                *)
LEMMA HostDown ==
    ASSUME NEW h \in HostState
    PROVE  [h EXCEPT !.up = FALSE, !.agent = FALSE] \in HostState
BY DEF HostState

(* A host may be replaced by another.                                         *)
LEMMA HostReplaced ==
    ASSUME NEW hosts \in [Node -> HostState], NEW n \in Node, NEW r \in HostState
    PROVE  [hosts EXCEPT ![n] = r] \in [Node -> HostState]
OBVIOUS

(* The other steps of a command.                                              *)
LEMMA CommandTyped ==
    ASSUME TypeOK, NEW o \in Op, Sound(op[o]), Command(o) \/ Interrupt(o)
    PROVE  TypeOK'
<1> USE DEF TypeOK, api, storage, world
<1>0. op \in [Op -> OpState] /\ Target[o] \in Node
  BY NodeMaintenanceAssumption
<1>1. CASE Start(o)
  BY <1>0, <1>1, StartTurns DEF Start, Becomes
<1>2. CASE RaiseLimit(o)
  BY <1>0, <1>2, RaiseTurns DEF RaiseLimit, Becomes
<1>3. ASSUME NEW next \in Where, HealthPasses(o, next)
      PROVE  op' \in [Op -> OpState] /\ limit' \in {0, 2}
  BY <1>0, <1>3, HealthTurns DEF Becomes
<1>4. ASSUME Fails(o) PROVE op' \in [Op -> OpState]
  BY <1>0, <1>4, Failed DEF Becomes
<1>4a. ASSUME NEW w \in Where, Goto(o, w) PROVE op' \in [Op -> OpState]
  BY <1>0, <1>4a, Gone DEF Becomes
<1>5. CASE CheckHealth(o) \/ Settle(o)
  <2>1. op' \in [Op -> OpState] /\ limit' \in {0, 2}
    BY <1>3, <1>4, <1>5 DEF CheckHealth, Settle, Where, Preparing
  <2> QED BY <1>5, <2>1 DEF CheckHealth, Settle
<1>6. CASE SwitchPrimary(o)
  <2>1. op' \in [Op -> OpState] /\ primary' \in Node
    BY <1>4, <1>4a, <1>6 DEF SwitchPrimary, Where, Preparing
  <2> QED BY <1>6, <2>1 DEF SwitchPrimary
<1>7. CASE Cordon(o)
  <2>1. op' \in [Op -> OpState] /\ cordon' \subseteq Node
    BY <1>0, <1>4, <1>7, CordonTurns DEF Cordon, Becomes
  <2> QED BY <1>7, <2>1 DEF Cordon
<1>8. CASE Drain(o)
  <2>1. op' \in [Op -> OpState] /\ load' \subseteq Node
    BY <1>0, <1>4, <1>8, DrainTurns DEF Drain, Becomes
  <2> QED BY <1>8, <2>1 DEF Drain
<1>9. CASE Release(o) \/ Uncordon(o)
  <2>1. op' \in [Op -> OpState] /\ cordon' \subseteq Node
    BY <1>0, <1>4, <1>4a, <1>9 DEF Release, Uncordon, Where
  <2> QED BY <1>9, <2>1 DEF Release, Uncordon
<1>10. CASE StopAgent(o)
  <2> DEFINE n == Target[o]
  <2>1. op' \in [Op -> OpState]
    BY <1>0, <1>4a, <1>10, TellTurns DEF StopAgent, Becomes, Where, Leaving
  <2>2. host' \in [Node -> HostState]
    <3> DEFINE r == [host[n] EXCEPT !.agent = FALSE]
    <3>0. host[n] \in HostState
      BY <1>0
    <3>1. r \in HostState
      BY <3>0, AgentSet
    <3>2. host' = host \/ host' = [host EXCEPT ![n] = r]
      BY <1>10 DEF StopAgent
    <3> HIDE DEF r
    <3> QED BY <1>0, <3>1, <3>2, HostReplaced
  <2>3. mode' \in [Node -> {"running", "stopped"}]
    BY <1>0, <1>10 DEF StopAgent
  <2>4. beat' \in [Node -> [at : 0 .. MaxTime, boot : Nat]]
    <3>1. host[n].boot \in Nat
      BY <1>0 DEF HostState
    <3> QED BY <1>0, <1>10, <3>1 DEF StopAgent
  <2> QED BY <1>10, <2>1, <2>2, <2>3, <2>4 DEF StopAgent
<1>11. CASE AwaitStopped(o)
  BY <1>11, AwaitTurns DEF AwaitStopped, Becomes
<1>12. CASE Power(o)
  <2>1. op' \in [Op -> OpState]
    BY <1>0, <1>4, <1>12, SentTurns DEF Power, Becomes
  <2>2. host' \in [Node -> HostState]
    <3>1. op[o].at = "power" /\ op[o].act \in {"reboot", "off", "on"}
      BY <1>0, <1>12 DEF Power, OpState
    <3>2. CASE op[o].act # "on"
      <4>1. op[o].act \in {"reboot", "off"}
        BY <3>1, <3>2
      <4> HIDE DEF TypeOK
      <4> DEFINE a == op[o].act
      <4>2. \A n \in Node : host[n] \in HostState
        BY DEF TypeOK
      <4>3. host \in [Node -> HostState]
        BY DEF TypeOK
      <4>4. a \in {"reboot", "off"}
        BY <4>1
      <4>5. host' \in {host, [host EXCEPT ![Target[o]].order = a]}
        BY <1>12 DEF Power
      <4> HIDE DEF a
      <4>6. [host EXCEPT ![Target[o]].order = a] \in [Node -> HostState]
        BY <1>0, <4>2, <4>3, <4>4 DEF HostState
      <4> QED BY <4>3, <4>5, <4>6
    <3>3. op[o].act # "on"
      BY <3>1 DEF Sound, Leaving
    <3> QED BY <3>2, <3>3
  <2> QED BY <1>12, <2>1, <2>2 DEF Power
<1>13. CASE AwaitDown(o)
  <2>1. op' \in [Op -> OpState]
    BY <1>0, <1>4, <1>13, DownTurns DEF AwaitDown, Becomes
  <2> QED BY <1>13, <2>1 DEF AwaitDown
<1>14. CASE EstablishBaseline(o)
  <2>1. op' \in [Op -> OpState]
    BY <1>0, <1>4, <1>14, BaselineTurns DEF EstablishBaseline, Becomes
  <2> QED BY <1>14, <2>1 DEF EstablishBaseline
<1>15. CASE Cleanup(o)
  <2>1. op' \in [Op -> OpState]
    BY <1>0, <1>15, CleanupTurns DEF Cleanup, Becomes
  <2>2. limit' \in {0, 2}
    BY <1>15 DEF Cleanup
  <2> QED BY <1>15, <2>1, <2>2 DEF Cleanup
<1>16. CASE Interrupt(o)
  <2>1. op' \in [Op -> OpState]
    BY <1>0, <1>16, InterruptTurns DEF Becomes
  <2> QED BY <1>16, <2>1 DEF Interrupt
<1> HIDE DEF TypeOK, api, storage, world
<1> QED BY <1>1, <1>2, <1>5, <1>6, <1>7, <1>8, <1>9, <1>10, <1>11, <1>12, <1>13, <1>14, <1>15, <1>16,
     GatesTyped DEF Command

(* The cluster keeps the types, and so does the clock.                        *)
LEMMA ClusterTyped == ASSUME TypeOK, (\E n \in Node : Cluster(n)) \/ Tick PROVE TypeOK'
<1> USE DEF api, storage, world
<1>0. /\ op \in [Op -> OpState] /\ host \in [Node -> HostState]
      /\ cordon \subseteq Node /\ load \subseteq Node /\ stale \subseteq Node
      /\ mode \in [Node -> {"running", "stopped"}]
      /\ beat \in [Node -> [at : 0 .. MaxTime, boot : Nat]]
      /\ primary \in Node /\ limit \in {0, 2}
      /\ clock \in 0 .. MaxTime /\ outages \in 0 .. MaxOutages
      /\ MaxTime \in Nat /\ MaxOutages \in Nat
  BY NodeMaintenanceAssumption DEF TypeOK
<1>1. ASSUME NEW n \in Node, GoesDown(n) PROVE TypeOK'
  <2> DEFINE r == [host[n] EXCEPT !.up = FALSE, !.agent = FALSE]
  <2>0. host[n] \in HostState
    BY <1>0
  <2>1. r \in HostState
    BY <2>0, HostDown
  <2>2. host' = [host EXCEPT ![n] = r]
    BY <1>1 DEF GoesDown
  <2> HIDE DEF r
  <2>3. host' \in [Node -> HostState]
    BY <1>0, <2>1, <2>2, HostReplaced
  <2> QED BY <1>0, <1>1, <2>3 DEF GoesDown, TypeOK
<1>2. ASSUME NEW n \in Node, Outage(n) PROVE TypeOK'
  <2> DEFINE r == [host[n] EXCEPT !.up = FALSE, !.agent = FALSE, !.order = "reboot"]
  <2>0. host[n] \in HostState
    BY <1>0
  <2>1. r \in HostState
    BY <2>0 DEF HostState
  <2>2. host' = [host EXCEPT ![n] = r]
    BY <1>2 DEF Outage
  <2> HIDE DEF r
  <2>3. host' \in [Node -> HostState]
    BY <1>0, <2>1, <2>2
  <2> QED BY <1>0, <1>2, <2>3 DEF Outage, TypeOK
<1>3. ASSUME NEW n \in Node, ComesUp(n) PROVE TypeOK'
  <2>1. host[n].boot + 1 \in Nat
    BY <1>0 DEF HostState
  <2>2. host' \in [Node -> HostState]
    BY <1>0, <1>3, <2>1 DEF ComesUp, HostState
  <2> QED BY <1>0, <1>3, <2>2 DEF ComesUp, TypeOK
<1>4. ASSUME NEW n \in Node, StartAgentByHand(n) PROVE TypeOK'
  <2> DEFINE r == [host[n] EXCEPT !.agent = TRUE]
  <2>0. host[n] \in HostState
    BY <1>0
  <2>1. r \in HostState
    BY <2>0, AgentSet
  <2>2. host' = [host EXCEPT ![n] = r]
    BY <1>4 DEF StartAgentByHand
  <2> HIDE DEF r
  <2>3. host' \in [Node -> HostState]
    BY <1>0, <2>1, <2>2, HostReplaced
  <2> QED BY <1>0, <1>4, <2>3 DEF StartAgentByHand, TypeOK
<1>5. ASSUME NEW n \in Node, AgentBeats(n) PROVE TypeOK'
  <2>1. host[n].boot \in Nat
    BY <1>0 DEF HostState
  <2>2. beat' \in [Node -> [at : 0 .. MaxTime, boot : Nat]]
    BY <1>0, <1>5, <2>1 DEF AgentBeats
  <2> QED BY <1>0, <1>5, <2>2 DEF AgentBeats, TypeOK
<1>6. ASSUME NEW n \in Node, Schedule(n) \/ Rebuild(n) \/ FailOver(n) PROVE TypeOK'
  BY <1>0, <1>6 DEF Schedule, Rebuild, FailOver, TypeOK
<1>7. CASE Tick
  BY <1>0, <1>7 DEF Tick, TypeOK
<1> QED BY <1>1, <1>2, <1>3, <1>4, <1>5, <1>6, <1>7 DEF Cluster

(* A failure leaves a record sound.                                           *)
LEMMA FailedSound ==
    ASSUME op \in [Op -> OpState], NEW o \in Op, Sound(op[o]), Fails(o)
    PROVE  Sound(op'[o]) /\ \A p \in Op \ {o} : op'[p] = op[p]
BY Failed, FailurePlace DEF Sound, Same, Becomes, Preparing, Leaving

(* So does every other step of a command.                                     *)
LEMMA CommandSound ==
    ASSUME TypeOK, NEW o \in Op, Sound(op[o]), Command(o) \/ Interrupt(o)
    PROVE  Sound(op'[o]) /\ \A p \in Op \ {o} : op'[p] = op[p]
<1> USE DEF Preparing, Leaving, Where
<1>0. op \in [Op -> OpState] /\ op[o] \in OpState
  BY DEF TypeOK
<1>1. ASSUME NEW r, Becomes(o, r), Sound(r)
      PROVE  Sound(op'[o]) /\ \A p \in Op \ {o} : op'[p] = op[p]
  BY <1>1 DEF Becomes
<1>2. ASSUME NEW here, NEW condition, NEW next \in Where, Gate(o, here, condition, next),
             next \notin {"idle"}, ~op[o].releasable,
             next \in Preparing \cup Leaving \cup {"survivors", "newboot"} => op[o].act # "on",
             next = "baseline" => op[o].act = "on"
      PROVE  Sound(op'[o]) /\ \A p \in Op \ {o} : op'[p] = op[p]
  BY <1>0, <1>1, <1>2, GateTurns, FailurePlace DEF Sound, Same
<1>3. CASE CheckAccess(o)
  BY <1>2, <1>3 DEF CheckAccess, Sound, Gate
<1>4. CASE VerifyResumed(o)
  BY <1>2, <1>4 DEF VerifyResumed, Sound, Gate
<1>5. CASE Detach(o) \/ CheckSurvival(o)
  BY <1>2, <1>5 DEF Detach, CheckSurvival, Sound, Gate
<1>6. CASE Recheck(o) \/ SurvivorsNetwork(o)
  BY <1>2, <1>6 DEF Recheck, SurvivorsNetwork, Sound, Gate
<1>7. CASE AwaitUp(o)
  BY <1>2, <1>7 DEF AwaitUp, Sound, Gate
<1>8. CASE VerifyNewBoot(o)
  BY <1>2, <1>8 DEF VerifyNewBoot, Sound, Gate
<1>9. CASE CheckReturned(o)
  BY <1>2, <1>9 DEF CheckReturned, Sound, Gate
<1>10. CASE AgentReturned(o)
  BY <1>2, <1>10 DEF AgentReturned, Sound, Gate
<1>11. CASE Start(o)
  BY <1>0, <1>1, <1>11, StartTurns DEF Sound
<1>12. CASE RaiseLimit(o)
  <2>1. PICK r : /\ Becomes(o, r) /\ r.raised /\ SameButRaised(op[o], r)
                 /\ r.at = op[o].at \/ r.at = AfterFailure(o)
    BY <1>0, <1>12, RaiseTurns
  <2>2. r.act = op[o].act /\ r.releasable = op[o].releasable /\ r.told = op[o].told
    BY <1>0, <2>1 DEF SameButRaised
  <2>3. op[o].at \in {"health", "settle"}
    BY <1>12 DEF RaiseLimit
  <2>4. Sound(r)
    BY <2>1, <2>2, <2>3, FailurePlace DEF Sound
  <2> QED BY <1>1, <2>1, <2>4
<1>13. ASSUME NEW next \in {"primary", "cleanup"}, HealthPasses(o, next),
              next = "primary" => op[o].act # "on" /\ ~op[o].releasable
       PROVE  Sound(op'[o]) /\ \A p \in Op \ {o} : op'[p] = op[p]
  <2>1. PICK r : /\ Becomes(o, r)
                 /\ \/ r.at = next /\ SameButRaised(op[o], r)
                    \/ r.at = AfterFailure(o) /\ Same(op[o], r)
    BY <1>0, <1>13, HealthTurns
  <2>2. r.act = op[o].act /\ r.releasable = op[o].releasable /\ r.told = op[o].told
    BY <1>0, <2>1 DEF SameButRaised, Same
  <2>3. Sound(r)
    BY <1>13, <2>1, <2>2, FailurePlace DEF Sound
  <2> QED BY <1>1, <2>1, <2>3
<1>14. CASE CheckHealth(o) \/ Settle(o)
  BY <1>0, <1>13, <1>14, FailedSound DEF CheckHealth, Settle, Sound
<1>15. CASE SwitchPrimary(o)
  BY <1>0, <1>1, <1>15, FailedSound, Gone DEF SwitchPrimary, Sound, Same
<1>16. CASE Cordon(o)
  BY <1>0, <1>1, <1>16, FailedSound, CordonTurns DEF Cordon, Sound, Same, SameButReleasable, OpState
<1>17. CASE Drain(o)
  <2>1. CASE Fails(o)
    BY <1>0, <2>1, FailedSound
  <2>2. CASE op' = [op EXCEPT ![o].at = "detach", ![o].releasable = FALSE]
    <3>1. PICK r : Becomes(o, r) /\ SameButReleasable(op[o], r) /\ r.at = "detach" /\ ~r.releasable
      BY <1>0, <2>2, DrainTurns
    <3>2. op[o].act # "on"
      BY <1>17 DEF Drain, Sound
    <3>3. Sound(r)
      BY <3>1, <3>2 DEF Sound, SameButReleasable
    <3> QED BY <1>1, <3>1, <3>3
  <2> QED BY <1>17, <2>1, <2>2 DEF Drain
<1>18. CASE Release(o)
  BY <1>0, <1>1, <1>18, Gone DEF Release, Sound, Same
<1>19. CASE StopAgent(o)
  <2>1. op[o].act # "on" /\ ~op[o].releasable
    BY <1>19 DEF StopAgent, Sound
  <2>2. CASE Goto(o, "await")
    <3>1. PICK r : Becomes(o, r) /\ r.at = "await" /\ Same(op[o], r)
      BY <1>0, <2>2, Gone
    <3>2. Sound(r)
      BY <2>1, <3>1 DEF Sound, Same
    <3> QED BY <1>1, <3>1, <3>2
  <2>3. CASE op' = [op EXCEPT ![o].at = "cleanup", ![o].told = TRUE]
    <3>1. PICK r : Becomes(o, r) /\ SameButTold(op[o], r) /\ r.at = "cleanup" /\ r.told
      BY <1>0, <2>3, TellTurns
    <3>2. Sound(r)
      BY <2>1, <3>1 DEF Sound, SameButTold
    <3> QED BY <1>1, <3>1, <3>2
  <2> QED BY <1>19, <2>2, <2>3 DEF StopAgent
<1>20. CASE AwaitStopped(o)
  BY <1>0, <1>1, <1>20, AwaitTurns DEF AwaitStopped, Sound
<1>21. CASE Power(o)
  BY <1>0, <1>1, <1>21, FailedSound, SentTurns DEF Power, Sound, Same
<1>22. CASE AwaitDown(o)
  BY <1>0, <1>1, <1>22, FailedSound, DownTurns DEF AwaitDown, Sound, Same, SameButStopped, OpState
<1>23. CASE EstablishBaseline(o)
  <2>1. CASE Fails(o)
    BY <1>0, <2>1, FailedSound
  <2>2. CASE op' = [op EXCEPT ![o].at = "back", ![o].baseline = clock, ![o].seen = host[Target[o]].boot]
    <3>1. PICK r : Becomes(o, r) /\ r.at = "back" /\ r.releasable = op[o].releasable
      BY <2>2, BaselineTurns
    <3>2. ~op[o].releasable
      BY <1>23 DEF EstablishBaseline, Sound
    <3>3. Sound(r)
      BY <3>1, <3>2 DEF Sound
    <3> QED BY <1>1, <3>1, <3>3
  <2> QED BY <1>23, <2>1, <2>2 DEF EstablishBaseline
<1>24. CASE Uncordon(o)
  BY <1>0, <1>1, <1>24, FailedSound, Gone DEF Uncordon, Sound, Same
<1>25. CASE Cleanup(o)
  BY <1>0, <1>1, <1>25, CleanupTurns DEF Cleanup, Sound
<1>26. CASE Interrupt(o)
  <2>1. PICK r : /\ Becomes(o, r) /\ SameButTold(op[o], r)
                 /\ \/ r.at = "release" /\ op[o].at = "release"
                    \/ r.at = AfterFailure(o)
    BY <1>0, <1>26, InterruptTurns
  <2>2. r.act = op[o].act /\ r.releasable = op[o].releasable
    BY <1>0, <2>1 DEF SameButTold
  <2>3. Sound(r)
    BY <2>1, <2>2, FailurePlace DEF Sound
  <2> QED BY <1>1, <2>1, <2>3
<1> HIDE DEF Preparing, Leaving, Where
<1> QED BY <1>3, <1>4, <1>5, <1>6, <1>7, <1>8, <1>9, <1>10, <1>11, <1>12, <1>14, <1>15, <1>16, <1>17,
     <1>18, <1>19, <1>20, <1>21, <1>22, <1>23, <1>24, <1>25, <1>26 DEF Command

(* Every step keeps BaseInv.                                                  *)
LEMMA StepKeepsBase == BaseInv /\ [Next]_vars => BaseInv'
<1> SUFFICES ASSUME BaseInv, [Next]_vars PROVE BaseInv'
  OBVIOUS
<1>1. ASSUME NEW o \in Op, Command(o) \/ Interrupt(o) PROVE BaseInv'
  BY <1>1, CommandTyped, CommandSound DEF BaseInv
<1>2. ASSUME UNCHANGED op PROVE \A o \in Op : Sound(op'[o])
  BY <1>2 DEF BaseInv
<1>3. CASE (\E n \in Node : Cluster(n)) \/ Tick
  <2>1. UNCHANGED op
    BY <1>3 DEF Cluster, GoesDown, Outage, ComesUp, StartAgentByHand, AgentBeats, Schedule, Rebuild,
       FailOver, Tick
  <2> QED BY <1>2, <1>3, <2>1, ClusterTyped DEF BaseInv
<1>4. CASE UNCHANGED vars
  <2>1. UNCHANGED op /\ TypeOK'
    BY <1>4 DEF vars, BaseInv, TypeOK
  <2> QED BY <1>2, <2>1 DEF BaseInv
<1> QED BY <1>1, <1>3, <1>4 DEF Next

(* The initial states have it: no command has begun.                          *)
LEMMA InitBase == Init => BaseInv
<1> SUFFICES ASSUME Init PROVE \A o \in Op : Sound(op[o])
  BY InitTyped DEF BaseInv
<1> QED BY DEF Init, NewOp, Sound, Preparing, Leaving

(* Every state of the model is typed.  A host's order is a reboot or a power  *)
(* off: a power-on never gets to the power action.                            *)
THEOREM TypeCorrect == Spec => []TypeOK
<1>1. BaseInv => TypeOK
  BY DEF BaseInv
<1> QED BY <1>1, InitBase, StepKeepsBase, PTL DEF Spec

-----------------------------------------------------------------------------
(* The gates and the drop *)

(* A command that is at work after its step was at work before it, doing the  *)
(* same, or has just started and may.                                         *)
LEMMA CommandActs ==
    ASSUME BaseInv, NEW o \in Op, Command(o) \/ Interrupt(o)
    PROVE  \/ op'[o].at = "ended"
           \/ op[o].at \notin {"idle", "ended"} /\ op'[o].act = op[o].act
           \/ Alone(o, op'[o].act) /\ op'[o].at \in {"up", "access"}
<1> DEFINE Goal == \/ op'[o].at = "ended"
                   \/ op[o].at \notin {"idle", "ended"} /\ op'[o].act = op[o].act
                   \/ Alone(o, op'[o].act) /\ op'[o].at \in {"up", "access"}
<1>0. TypeOK /\ op \in [Op -> OpState] /\ op[o] \in OpState
  BY DEF BaseInv, TypeOK
<1> SUFFICES Goal
  OBVIOUS
<1>1. ASSUME NEW r, Becomes(o, r), r.act = op[o].act, op[o].at \notin {"idle", "ended"}
      PROVE  Goal
  BY <1>1 DEF Becomes
<1>2. ASSUME NEW w \in Where, Goto(o, w), op[o].at \notin {"idle", "ended"}
      PROVE  Goal
  BY <1>0, <1>1, <1>2, Gone DEF Same
<1>3. ASSUME Fails(o), op[o].at \notin {"idle", "ended"}
      PROVE  Goal
  BY <1>0, <1>1, <1>3, Failed DEF Same
<1>4. ASSUME NEW here \in Where \ {"idle", "ended"}, NEW condition, NEW next \in Where,
             Gate(o, here, condition, next)
      PROVE  Goal
  BY <1>0, <1>1, <1>4, GateTurns DEF Same, Gate
<1>5. ASSUME NEW next \in Where, HealthPasses(o, next), op[o].at \notin {"idle", "ended"}
      PROVE  Goal
  <2>1. PICK r : /\ Becomes(o, r)
                 /\ \/ r.at = next /\ SameButRaised(op[o], r)
                    \/ r.at = AfterFailure(o) /\ Same(op[o], r)
    BY <1>0, <1>5, HealthTurns
  <2>2. r.act = op[o].act
    BY <1>0, <2>1 DEF SameButRaised, Same
  <2> QED BY <1>1, <1>5, <2>1, <2>2
<1> USE DEF Where, Preparing, Leaving
<1>6. CASE Start(o)
  BY <1>0, <1>6, StartTurns DEF Becomes
<1>7. CASE \/ CheckAccess(o) \/ VerifyResumed(o) \/ Detach(o) \/ CheckSurvival(o) \/ Recheck(o)
  BY <1>4, <1>7 DEF CheckAccess, VerifyResumed, Detach, CheckSurvival, Recheck
<1>8. CASE SurvivorsNetwork(o) \/ AwaitUp(o) \/ VerifyNewBoot(o) \/ CheckReturned(o) \/ AgentReturned(o)
  BY <1>4, <1>8 DEF SurvivorsNetwork, AwaitUp, VerifyNewBoot, CheckReturned, AgentReturned
<1>9. CASE RaiseLimit(o)
  <2>1. PICK r : Becomes(o, r) /\ SameButRaised(op[o], r)
    BY <1>0, <1>9, RaiseTurns
  <2>2. r.act = op[o].act
    BY <1>0, <2>1 DEF SameButRaised
  <2> QED BY <1>1, <1>9, <2>1, <2>2 DEF RaiseLimit
<1>10. CASE CheckHealth(o) \/ Settle(o)
  BY <1>3, <1>5, <1>10 DEF CheckHealth, Settle
<1>11. CASE SwitchPrimary(o) \/ Release(o) \/ Uncordon(o)
  BY <1>2, <1>3, <1>11 DEF SwitchPrimary, Release, Uncordon
<1>12. CASE Cordon(o)
  BY <1>0, <1>1, <1>3, <1>12, CordonTurns DEF SameButReleasable, Cordon
<1>13. CASE Drain(o)
  BY <1>0, <1>1, <1>3, <1>13, DrainTurns DEF SameButReleasable, Drain
<1>14. CASE StopAgent(o)
  BY <1>0, <1>1, <1>2, <1>14, TellTurns DEF SameButTold, StopAgent
<1>15. CASE AwaitStopped(o)
  BY <1>0, <1>1, <1>15, AwaitTurns DEF AwaitStopped
<1>16. CASE Power(o)
  BY <1>0, <1>1, <1>3, <1>16, SentTurns DEF Power, Same
<1>17. CASE AwaitDown(o)
  BY <1>0, <1>1, <1>3, <1>17, DownTurns DEF SameButStopped, AwaitDown
<1>18. CASE EstablishBaseline(o)
  BY <1>0, <1>1, <1>3, <1>18, BaselineTurns DEF EstablishBaseline
<1>19. CASE Cleanup(o)
  BY <1>0, <1>19, CleanupTurns DEF Cleanup, Becomes
<1>20. CASE Interrupt(o)
  BY <1>0, <1>1, <1>20, InterruptTurns DEF SameButTold, Interrupt, Active
<1> HIDE DEF Goal, Where, Preparing, Leaving
<1> QED BY <1>6, <1>7, <1>8, <1>9, <1>10, <1>11, <1>12, <1>13, <1>14, <1>15, <1>16, <1>17, <1>18, <1>19,
     <1>20 DEF Command

(* So the commands stay apart.                                                *)
LEMMA CommandApart ==
    ASSUME BaseInv, Apart, NEW o \in Op, Command(o) \/ Interrupt(o)
    PROVE  Apart'
<1>1. TypeOK /\ \A p \in Op \ {o} : op'[p] = op[p]
  BY CommandSound DEF BaseInv
<1>2. \/ op'[o].at = "ended"
      \/ op[o].at \notin {"idle", "ended"} /\ op'[o].act = op[o].act
      \/ Alone(o, op'[o].act) /\ op'[o].at \in {"up", "access"}
  BY CommandActs
<1>3. CASE op'[o].at = "ended"
  BY <1>1, <1>3 DEF Apart, Active
<1>4. CASE op[o].at \notin {"idle", "ended"} /\ op'[o].act = op[o].act
  BY <1>1, <1>4 DEF Apart, Active
<1>5. CASE Alone(o, op'[o].act)
  BY <1>1, <1>5 DEF Apart, Active, Alone
<1> QED BY <1>2, <1>3, <1>4, <1>5

\* The part of the world the gates are about.
scene == <<host, cordon, load, stale, primary>>

(* A step that leaves the scene alone has only its own record to look at.     *)
LEMMA QuietStep ==
    ASSUME SafeInv, NEW o \in Op, NEW r, Becomes(o, r), BaseInv', Apart', UNCHANGED scene,
           Passed(Target[o], r)
    PROVE  SafeInv'
<1>1. ASSUME NEW p \in Op PROVE Passed(Target[p], op[p])'
  <2>1. CASE p = o
    BY <2>1 DEF Becomes, Passed, scene, Releases, OthersInSync, PrimaryElsewhere
  <2>2. CASE p # o
    <3>1. op'[p] = op[p] /\ Passed(Target[p], op[p])
      BY <2>2 DEF Becomes, SafeInv
    <3> QED BY <3>1 DEF Passed, scene, Releases, OthersInSync, PrimaryElsewhere
  <2> QED BY <2>1, <2>2
<1>2. StoppedStaysCordoned'
  BY DEF SafeInv, StoppedStaysCordoned, scene
<1>3. \A n \in Node : Pending(n)' => ReadyToDrop(n)'
  BY DEF SafeInv, Pending, ReadyToDrop, scene, OthersInSync
<1> QED BY <1>1, <1>2, <1>3 DEF SafeInv, BaseInv

(* A record on its way out has passed whatever the world is, unless it goes   *)
(* on to release the cordon.                                                  *)
LEMMA OutPassed ==
    ASSUME NEW r, r.at \in {"idle", "ended", "cleanup", "settle", "survivors", "down", "up", "access",
                            "newboot", "ready", "baseline", "back"},
           NEW n
    PROVE  Passed(n, r) /\ Passed(n, r)'
BY DEF Passed, Looked, Cordoned, Emptied, Checked, AllUp, Releases

(* ... and then it had not passed the drain.                                  *)
LEMMA FailedPassed ==
    ASSUME SafeInv, NEW o \in Op, NEW r, r.at = AfterFailure(o), r.releasable = op[o].releasable
    PROVE  Passed(Target[o], r)
<1>0. Sound(op[o]) /\ Passed(Target[o], op[o])
  BY DEF SafeInv
<1>1. CASE op[o].at \in Preparing
  <2>1. r.at = "release" /\ (r.releasable => op[o].at = "drain")
    BY <1>0, <1>1 DEF AfterFailure, Sound, Preparing
  <2>2. Releases(r) => Releases(op[o])
    BY <2>1 DEF Releases
  <2> QED BY <1>0, <2>1, <2>2 DEF Passed, Looked, Cordoned, Emptied, Checked, AllUp
<1>2. CASE op[o].at \notin Preparing
  <2>1. r.at = "cleanup"
    BY <1>2 DEF AfterFailure
  <2> QED BY <2>1, OutPassed
<1> QED BY <1>1, <1>2

(* All agents answered: no host is about to go down.                          *)
LEMMA NobodyPending ==
    ASSUME SafeInv, FencePreflight
    PROVE  \A m \in Node : host[m].order = "none" \/ ~host[m].up
BY DEF SafeInv, FencePreflight, Pending, ReadyToDrop

(* The gates.                                                                 *)
LEMMA GatesSafe ==
    ASSUME SafeInv, BaseInv', Apart', NEW o \in Op,
           \/ CheckAccess(o) \/ VerifyResumed(o) \/ Detach(o) \/ CheckSurvival(o) \/ Recheck(o)
           \/ SurvivorsNetwork(o) \/ AwaitUp(o) \/ VerifyNewBoot(o) \/ CheckReturned(o)
           \/ AgentReturned(o)
    PROVE  SafeInv'
<1>0. op \in [Op -> OpState] /\ Target[o] \in Node /\ Passed(Target[o], op[o]) /\ Sound(op[o])
  BY NodeMaintenanceAssumption DEF SafeInv, TypeOK
<1>1. ASSUME NEW here, NEW condition, NEW next \in Where, Gate(o, here, condition, next),
             \A r : condition /\ r.at = next /\ Same(op[o], r) => Passed(Target[o], r)
      PROVE  SafeInv'
  <2>1. PICK r : /\ Becomes(o, r) /\ Same(op[o], r)
                 /\ r.at = AfterFailure(o) \/ (condition /\ r.at = next)
    BY <1>0, <1>1, GateTurns
  <2>2. UNCHANGED scene
    BY <1>1 DEF Gate, scene, api, storage
  <2>3. Passed(Target[o], r)
    BY <1>1, <2>1, FailedPassed DEF Same
  <2> QED BY <2>1, <2>2, <2>3, QuietStep
<1> USE DEF Where, Preparing, Leaving
<1>2. CASE CheckAccess(o)
  <2>1. ASSUME NEW r, FencePreflight, r.at \in {"resumed", "health"} PROVE Passed(Target[o], r)
    BY <1>0, <2>1, NobodyPending DEF FencePreflight, Passed, Looked, Cordoned, Emptied, Checked, AllUp
  <2> QED BY <1>1, <1>2, <2>1 DEF CheckAccess
<1>3. CASE VerifyResumed(o)
  <2>1. op[o].at = "resumed"
    BY <1>3 DEF VerifyResumed, Gate
  <2>2. ASSUME NEW r, Target[o] \in cordon, r.at = "detach" PROVE Passed(Target[o], r)
    BY <1>0, <2>1, <2>2 DEF Passed, Looked, Cordoned, Emptied, Checked, AllUp, Releases
  <2> QED BY <1>1, <1>3, <2>2 DEF VerifyResumed
<1>4. CASE Detach(o)
  <2>1. op[o].at = "detach"
    BY <1>4 DEF Detach, Gate
  <2>2. ASSUME NEW r, Target[o] \notin load, r.at = "survive" PROVE Passed(Target[o], r)
    BY <1>0, <2>1, <2>2 DEF Passed, Looked, Cordoned, Emptied, Checked, AllUp, Releases
  <2> QED BY <1>1, <1>4, <2>2 DEF Detach
<1>5. CASE CheckSurvival(o)
  <2>1. op[o].at = "survive"
    BY <1>5 DEF CheckSurvival, Gate
  <2>2. ASSUME NEW r, Survives(o), r.at = "recheck" PROVE Passed(Target[o], r)
    BY <1>0, <2>1, <2>2 DEF Passed, Looked, Cordoned, Emptied, Checked, AllUp, Releases, Survives
  <2> QED BY <1>1, <1>5, <2>2 DEF CheckSurvival
<1>6. CASE Recheck(o)
  <2>1. op[o].at = "recheck"
    BY <1>6 DEF Recheck, Gate
  <2>2. ASSUME NEW r, FencePreflight, r.at = "stop" PROVE Passed(Target[o], r)
    BY <1>0, <2>1, <2>2 DEF Passed, Looked, Cordoned, Emptied, Checked, AllUp, Releases, FencePreflight
  <2> QED BY <1>1, <1>6, <2>2 DEF Recheck
<1>7. CASE SurvivorsNetwork(o)
  BY <1>1, <1>7, OutPassed DEF SurvivorsNetwork
<1>8. CASE AwaitUp(o)
  BY <1>1, <1>8, OutPassed DEF AwaitUp
<1>9. CASE VerifyNewBoot(o)
  BY <1>1, <1>9, OutPassed DEF VerifyNewBoot
<1>10. CASE CheckReturned(o)
  <2> DEFINE next == CASE op[o].act = "on" -> "baseline"
                       [] op[o].leave      -> "cleanup"
                       [] OTHER            -> "back"
  <2>1. next \in {"baseline", "cleanup", "back"}
    OBVIOUS
  <2>2. PICK condition : Gate(o, "ready", condition, next)
    BY <1>10 DEF CheckReturned
  <2> HIDE DEF next
  <2> QED BY <1>1, <2>1, <2>2, OutPassed
<1>11. CASE AgentReturned(o)
  <2>1. ASSUME NEW r, host[Target[o]].agent, r.at = "uncordon" PROVE Passed(Target[o], r)
    BY <2>1 DEF Passed, Looked, Cordoned, Emptied, Checked, AllUp
  <2> QED BY <1>1, <1>11, <2>1 DEF AgentReturned
<1> QED BY <1>2, <1>3, <1>4, <1>5, <1>6, <1>7, <1>8, <1>9, <1>10, <1>11

(* The other steps that only read the scene.                                  *)
LEMMA QuietSafe ==
    ASSUME SafeInv, BaseInv', Apart', NEW o \in Op,
           \/ Start(o) \/ RaiseLimit(o) \/ CheckHealth(o) \/ AwaitStopped(o) \/ AwaitDown(o)
           \/ EstablishBaseline(o) \/ Settle(o) \/ Cleanup(o) \/ Interrupt(o)
    PROVE  SafeInv'
<1>0. /\ op \in [Op -> OpState] /\ op[o] \in OpState
      /\ Passed(Target[o], op[o]) /\ Sound(op[o]) /\ TypeOK
  BY DEF SafeInv, TypeOK
<1>1. UNCHANGED scene
  BY DEF Start, RaiseLimit, CheckHealth, AwaitStopped, AwaitDown, EstablishBaseline, Settle, Cleanup,
     Interrupt, scene, api, storage
<1>2. ASSUME Fails(o) PROVE SafeInv'
  BY <1>0, <1>1, <1>2, Failed, FailedPassed, QuietStep DEF Same
<1>3. CASE Start(o)
  BY <1>0, <1>1, <1>3, StartTurns, OutPassed, QuietStep
<1>4. ASSUME NEW r, r.at = op[o].at, r.releasable = op[o].releasable PROVE Passed(Target[o], r)
  BY <1>0, <1>4 DEF Passed, Releases
<1>5. CASE RaiseLimit(o)
  <2>1. PICK r : /\ Becomes(o, r) /\ SameButRaised(op[o], r)
                 /\ r.at = op[o].at \/ r.at = AfterFailure(o)
    BY <1>0, <1>5, RaiseTurns
  <2>2. r.releasable = op[o].releasable
    BY <1>0, <2>1 DEF SameButRaised
  <2> QED BY <1>1, <1>4, <2>1, <2>2, FailedPassed, QuietStep
<1>6. ASSUME NEW next \in Where, HealthPasses(o, next),
             \A r : r.at = next => Passed(Target[o], r)
      PROVE  SafeInv'
  <2>1. PICK r : /\ Becomes(o, r)
                 /\ \/ r.at = next
                    \/ r.at = AfterFailure(o) /\ Same(op[o], r)
    BY <1>0, <1>6, HealthTurns
  <2>2. Passed(Target[o], r)
    BY <1>6, <2>1, FailedPassed DEF Same
  <2> QED BY <1>1, <2>1, <2>2, QuietStep
<1>7. CASE CheckHealth(o)
  <2>1. op[o].at = "health" /\ "primary" \in Where
    BY <1>7 DEF CheckHealth, Where, Preparing
  <2>2. ASSUME NEW r, r.at = "primary" PROVE Passed(Target[o], r)
    BY <1>0, <2>1, <2>2 DEF Passed, Looked, Cordoned, Emptied, Checked, AllUp, Releases
  <2> QED BY <1>2, <1>6, <1>7, <2>1, <2>2 DEF CheckHealth
<1>8. CASE Settle(o)
  <2>1. "cleanup" \in Where
    BY DEF Where
  <2> QED BY <1>2, <1>6, <1>8, <2>1, OutPassed DEF Settle
<1>9. CASE AwaitStopped(o)
  <2>1. op[o].at = "await"
    BY <1>9 DEF AwaitStopped
  <2>2. PICK r : Becomes(o, r) /\ r.at \in {"power", "cleanup"}
    BY <1>0, <1>9, AwaitTurns
  <2>3. r.at = "power" => Passed(Target[o], r)
    BY <1>0, <2>1 DEF Passed, Looked, Cordoned, Emptied, Checked, AllUp, Releases
  <2> QED BY <1>1, <2>2, <2>3, OutPassed, QuietStep
<1>10. CASE AwaitDown(o)
  <2>1. Fails(o) \/ \E r : Becomes(o, r) /\ r.at = "survivors"
    BY <1>0, <1>10, DownTurns DEF AwaitDown
  <2> QED BY <1>1, <1>2, <2>1, OutPassed, QuietStep
<1>11. CASE EstablishBaseline(o)
  <2>1. Fails(o) \/ \E r : Becomes(o, r) /\ r.at = "back"
    BY <1>0, <1>11, BaselineTurns DEF EstablishBaseline
  <2> QED BY <1>1, <1>2, <2>1, OutPassed, QuietStep
<1>12. CASE Cleanup(o)
  <2>1. \E r : Becomes(o, r) /\ r.at = "ended"
    BY <1>0, <1>12, CleanupTurns DEF Cleanup
  <2> QED BY <1>1, <2>1, OutPassed, QuietStep
<1>13. CASE Interrupt(o)
  <2>1. PICK r : /\ Becomes(o, r) /\ SameButTold(op[o], r)
                 /\ \/ r.at = "release" /\ op[o].at = "release"
                    \/ r.at = AfterFailure(o)
    BY <1>0, <1>13, InterruptTurns
  <2>2. r.releasable = op[o].releasable
    BY <1>0, <2>1 DEF SameButTold
  <2> QED BY <1>1, <1>4, <2>1, <2>2, FailedPassed, QuietStep
<1> QED BY <1>3, <1>5, <1>7, <1>8, <1>9, <1>10, <1>11, <1>12, <1>13

(* A command from the look at the agents on, that takes its node down: then   *)
(* no host is about to go down and no other command has begun its gates.      *)
LEMMA OthersAway ==
    ASSUME SafeInv, NEW o \in Op, op[o].at \in Preparing \cup Leaving, NEW p \in Op \ {o}
    PROVE  /\ op[p].at \notin Preparing \cup Leaving
           /\ op[p].at \notin {"idle", "ended"} => Target[p] # Target[o]
BY DEF SafeInv, Apart, Active, Sound, Preparing, Leaving

(* A preparation that only makes the scene stricter.                          *)
LEMMA Tightened ==
    ASSUME SafeInv, BaseInv', Apart', NEW o \in Op, NEW r, Becomes(o, r),
           cordon \subseteq cordon', load' \subseteq load, UNCHANGED <<host, stale, primary>>,
           Passed(Target[o], r)'
    PROVE  SafeInv'
<1>1. ASSUME NEW p \in Op PROVE Passed(Target[p], op[p])'
  <2>1. CASE p = o
    BY <2>1 DEF Becomes, Passed, Releases, OthersInSync, PrimaryElsewhere
  <2>2. CASE p # o
    <3>1. op'[p] = op[p] /\ Passed(Target[p], op[p])
      BY <2>2 DEF Becomes, SafeInv
    <3> QED BY <3>1 DEF Passed, Releases, OthersInSync, PrimaryElsewhere
  <2> QED BY <2>1, <2>2
<1>2. StoppedStaysCordoned'
  BY DEF SafeInv, StoppedStaysCordoned
<1>3. \A n \in Node : Pending(n)' => ReadyToDrop(n)'
  BY DEF SafeInv, Pending, ReadyToDrop, OthersInSync
<1> QED BY <1>1, <1>2, <1>3 DEF SafeInv, BaseInv

(* Switching the primary, the cordon and the drain.                           *)
LEMMA PrepareSafe ==
    ASSUME SafeInv, BaseInv', Apart', NEW o \in Op, SwitchPrimary(o) \/ Cordon(o) \/ Drain(o)
    PROVE  SafeInv'
<1>0. /\ op \in [Op -> OpState] /\ op[o] \in OpState
      /\ Passed(Target[o], op[o]) /\ Sound(op[o]) /\ TypeOK
  BY DEF SafeInv, TypeOK
<1>1. CASE SwitchPrimary(o)
  <2>0. op[o].at = "primary" /\ UNCHANGED <<host, cordon, load, stale>>
    BY <1>1 DEF SwitchPrimary, storage
  <2>1. PICK r : /\ Becomes(o, r) /\ Same(op[o], r)
                 /\ r.at = "cordon" \/ r.at = AfterFailure(o)
    BY <1>0, <1>1, Failed, Gone DEF SwitchPrimary, Where, Preparing
  <2>2. ASSUME NEW s, Passed(Target[o], s), s.at \notin Checked PROVE Passed(Target[o], s)'
    BY <2>0, <2>2 DEF Passed, Releases
  <2>3. Passed(Target[o], r) /\ r.at \notin Checked
    BY <1>0, <2>0, <2>1, FailedPassed, FailurePlace
       DEF Passed, Looked, Cordoned, Emptied, Checked, AllUp, Releases, Same
  <2>4. ASSUME NEW p \in Op PROVE Passed(Target[p], op[p])'
    <3>1. CASE p = o
      BY <2>1, <2>2, <2>3, <3>1 DEF Becomes, Passed, Releases, OthersInSync, PrimaryElsewhere
    <3>2. CASE p # o
      <4>1. op[p].at \notin Checked /\ op'[p] = op[p] /\ Passed(Target[p], op[p])
        BY <2>0, <2>1, <3>2, OthersAway DEF Checked, Preparing, Leaving, Becomes, SafeInv
      <4> QED BY <2>0, <4>1 DEF Passed, Releases
    <3> QED BY <3>1, <3>2
  <2>5. StoppedStaysCordoned'
    BY <2>0 DEF SafeInv, StoppedStaysCordoned
  <2>6. \A n \in Node : ~Pending(n)'
    BY <1>0, <2>0 DEF Passed, Looked, Pending
  <2> QED BY <2>4, <2>5, <2>6 DEF SafeInv, BaseInv
<1>2. CASE Cordon(o)
  <2>0. op[o].at = "cordon" /\ UNCHANGED <<host, load, stale, primary>>
    BY <1>2 DEF Cordon, storage
  <2>1. CASE Fails(o)
    <3>1. PICK r : Becomes(o, r) /\ Same(op[o], r) /\ r.at = AfterFailure(o)
      BY <1>0, <2>1, Failed
    <3>2. ~r.releasable
      BY <1>0, <2>0, <3>1 DEF Same, Sound
    <3>3. r.at \in {"release", "cleanup"}
      BY <3>1, FailurePlace
    <3>4. Passed(Target[o], r)'
      BY <3>2, <3>3 DEF Passed, Looked, Cordoned, Emptied, Checked, AllUp, Releases
    <3>5. cordon \subseteq cordon' /\ load' \subseteq load
      BY <1>2, <2>0 DEF Cordon
    <3> QED BY <2>0, <3>1, <3>4, <3>5, Tightened
  <2>2. CASE cordon' = cordon \cup {Target[o]} /\ ~Fails(o)
    <3>1. PICK r : Becomes(o, r) /\ r.at \in {"drain", "detach"} /\ (r.releasable => r.at = "drain")
      BY <1>0, <1>2, <2>2, CordonTurns DEF Cordon
    <3>2. Passed(Target[o], r)'
      BY <1>0, <2>0, <2>2, <3>1 DEF Passed, Looked, Cordoned, Emptied, Checked, AllUp, Releases
    <3> QED BY <2>0, <2>2, <3>1, <3>2, Tightened
  <2> QED BY <1>2, <2>1, <2>2 DEF Cordon
<1>3. CASE Drain(o)
  <2>0. op[o].at = "drain" /\ UNCHANGED <<host, cordon, stale, primary>> /\ load' \subseteq load
    BY <1>3 DEF Drain, storage
  <2>1. PICK r : /\ Becomes(o, r)
                 /\ \/ r.at = "detach"
                    \/ r.at = AfterFailure(o) /\ Same(op[o], r)
    BY <1>0, <1>3, Failed, DrainTurns DEF Drain
  <2>2. Passed(Target[o], r) /\ r.at \notin Checked \cup Emptied
    BY <1>0, <2>0, <2>1, FailedPassed, FailurePlace
       DEF Passed, Looked, Cordoned, Emptied, Checked, AllUp, Releases, Same
  <2>3. Passed(Target[o], r)'
    BY <2>0, <2>2 DEF Passed, Releases
  <2> QED BY <2>0, <2>1, <2>3, Tightened
<1> QED BY <1>1, <1>2, <1>3

(* Giving the node back: its agent runs, if the host does.                    *)
LEMMA UncordonSafe ==
    ASSUME SafeInv, BaseInv', Apart', NEW o \in Op, Release(o) \/ Uncordon(o)
    PROVE  SafeInv'
<1>0. /\ op \in [Op -> OpState] /\ op[o] \in OpState
      /\ Passed(Target[o], op[o]) /\ Sound(op[o]) /\ TypeOK
  BY DEF SafeInv, TypeOK
<1>1. op[o].at \in {"release", "uncordon"} /\ UNCHANGED <<host, load, stale, primary>>
  BY DEF Release, Uncordon, storage
<1>2. PICK r : Becomes(o, r) /\ r.at \in {"cleanup", "settle"}
  <2>1. Goto(o, "cleanup") \/ (op[o].at = "uncordon" /\ (Goto(o, "settle") \/ Fails(o)))
    BY DEF Release, Uncordon
  <2>2. op[o].at = "uncordon" => AfterFailure(o) = "cleanup"
    BY DEF AfterFailure, Preparing
  <2>3. "cleanup" \in Where /\ "settle" \in Where
    BY DEF Where
  <2> QED BY <1>0, <2>1, <2>2, <2>3, Gone DEF Fails
<1>3. /\ cordon' \in {cordon, cordon \ {Target[o]}}
      /\ cordon' # cordon /\ host[Target[o]].up => host[Target[o]].agent
  BY <1>0 DEF Release, Uncordon, Passed, Releases
<1>4. ASSUME NEW p \in Op PROVE Passed(Target[p], op[p])'
  <2>1. CASE p = o
    BY <1>2, <2>1, OutPassed DEF Becomes, Passed, Releases, OthersInSync, PrimaryElsewhere
  <2>2. CASE p # o
    <3>1. op'[p] = op[p] /\ Passed(Target[p], op[p])
      BY <1>2, <2>2 DEF Becomes, SafeInv
    <3>2. op[p].at \in {"idle", "ended"} \/ Target[p] # Target[o]
      BY <1>1, <2>2 DEF SafeInv, Apart, Active
    <3> QED BY <1>1, <1>3, <3>1, <3>2
            DEF Passed, Releases, OthersInSync, PrimaryElsewhere, Looked, Cordoned, Emptied, Checked, AllUp
  <2> QED BY <2>1, <2>2
<1>5. StoppedStaysCordoned'
  BY <1>1, <1>3 DEF SafeInv, StoppedStaysCordoned
<1>6. \A n \in Node : Pending(n)' => ReadyToDrop(n)'
  BY <1>1, <1>3 DEF SafeInv, Pending, ReadyToDrop, OthersInSync
<1> QED BY <1>4, <1>5, <1>6 DEF SafeInv, BaseInv

(* Stopping the agent, on a node that is cordoned.                            *)
LEMMA StopSafe ==
    ASSUME SafeInv, BaseInv', Apart', NEW o \in Op, StopAgent(o)
    PROVE  SafeInv'
<1> DEFINE n == Target[o]
<1>0. /\ op \in [Op -> OpState] /\ op[o] \in OpState /\ n \in Node
      /\ Passed(n, op[o]) /\ TypeOK /\ op[o].at = "stop"
      /\ UNCHANGED <<cordon, load, stale, primary>>
  BY NodeMaintenanceAssumption DEF SafeInv, TypeOK, StopAgent, storage
<1>1. PICK r : /\ Becomes(o, r)
               /\ r.at = "cleanup" \/ (r.at = "await" /\ ~host'[n].agent)
  <2>1. \/ op' = [op EXCEPT ![o].at = "cleanup", ![o].told = TRUE]
        \/ Goto(o, "await") /\ host' = [host EXCEPT ![n].agent = FALSE]
    BY DEF StopAgent
  <2>2. CASE op' = [op EXCEPT ![o].at = "cleanup", ![o].told = TRUE]
    BY <1>0, <2>2, TellTurns
  <2>3. CASE Goto(o, "await") /\ host' = [host EXCEPT ![n].agent = FALSE]
    <3>1. ~host'[n].agent
      BY <1>0, <2>3 DEF TypeOK, HostState
    <3>2. "await" \in Where
      BY DEF Where, Leaving
    <3> QED BY <1>0, <2>3, <3>1, <3>2, Gone
  <2> QED BY <2>1, <2>2, <2>3
<1>2. /\ \A m \in Node : /\ host'[m].up = host[m].up /\ host'[m].order = host[m].order
                         /\ m # n => host'[m] = host[m]
                         /\ ~host[m].agent => ~host'[m].agent
      /\ primary \in Node
  BY <1>0 DEF StopAgent, TypeOK, HostState
<1>3. ASSUME NEW p \in Op PROVE Passed(Target[p], op[p])'
  <2>1. CASE p = o
    <3>1. CASE r.at = "cleanup"
      BY <1>1, <2>1, <3>1, OutPassed
         DEF Becomes, Passed, Releases, OthersInSync, PrimaryElsewhere
    <3>2. CASE r.at = "await" /\ ~host'[n].agent
      <4>1. Passed(n, r)'
        BY <1>0, <1>2, <3>2 DEF Passed, Looked, Cordoned, Emptied, Checked, AllUp, Releases,
           OthersInSync, PrimaryElsewhere
      <4> QED BY <1>1, <2>1, <4>1
              DEF Becomes, Passed, Releases, OthersInSync, PrimaryElsewhere
    <3> QED BY <1>1, <3>1, <3>2
  <2>2. CASE p # o
    <3>1. op'[p] = op[p] /\ Passed(Target[p], op[p]) /\ Target[p] \in Node
      BY <1>1, <2>2, NodeMaintenanceAssumption DEF Becomes, SafeInv
    <3>2. op[p].at \in {"idle", "ended"} \/ Target[p] # n
      BY <1>0, <2>2 DEF SafeInv, Apart, Active
    <3> QED BY <1>0, <1>2, <3>1, <3>2
            DEF Passed, Releases, OthersInSync, PrimaryElsewhere, Looked, Cordoned, Emptied, Checked, AllUp
  <2> QED BY <2>1, <2>2
<1>4. StoppedStaysCordoned'
  <2>1. n \in cordon
    BY <1>0 DEF Passed, Cordoned
  <2> QED BY <1>0, <1>2, <2>1 DEF SafeInv, StoppedStaysCordoned
<1>5. \A m \in Node : Pending(m)' => ReadyToDrop(m)'
  BY <1>0, <1>2 DEF SafeInv, Pending, ReadyToDrop, OthersInSync
<1> QED BY <1>3, <1>4, <1>5 DEF SafeInv, BaseInv

(* The power action: everything a drop needs has been seen, and still holds.  *)
LEMMA PowerSafe ==
    ASSUME SafeInv, BaseInv', Apart', NEW o \in Op, Power(o)
    PROVE  SafeInv'
<1> DEFINE n == Target[o]
<1>0. /\ op \in [Op -> OpState] /\ op[o] \in OpState /\ n \in Node
      /\ Passed(n, op[o]) /\ TypeOK /\ op[o].at = "power" /\ Sound(op[o])
      /\ UNCHANGED <<cordon, load, stale, primary>>
  BY NodeMaintenanceAssumption DEF SafeInv, TypeOK, Power, storage, api
<1>1. PICK r : Becomes(o, r) /\ r.at \in {"down", "cleanup"}
  <2>1. Fails(o) => Goto(o, "cleanup") /\ "cleanup" \in Where
    BY <1>0 DEF Fails, AfterFailure, Preparing, Where
  <2> QED BY <1>0, <2>1, Gone, SentTurns DEF Power
<1>2. /\ \A m \in Node : /\ host'[m].up = host[m].up /\ host'[m].agent = host[m].agent
                         /\ m # n => host'[m] = host[m]
      /\ primary \in Node
  BY <1>0 DEF Power, TypeOK, HostState
<1>3. ReadyToDrop(n)
  BY <1>0 DEF Passed, Looked, Cordoned, Emptied, Checked, AllUp, ReadyToDrop, PrimaryElsewhere
<1>4. ASSUME NEW p \in Op PROVE Passed(Target[p], op[p])'
  <2>1. CASE p = o
    BY <1>1, <2>1, OutPassed DEF Becomes, Passed, Releases, OthersInSync, PrimaryElsewhere
  <2>2. CASE p # o
    <3>1. op'[p] = op[p] /\ Passed(Target[p], op[p]) /\ Target[p] \in Node
      BY <1>1, <2>2, NodeMaintenanceAssumption DEF Becomes, SafeInv
    <3>2. op[p].at \notin Looked
      BY <1>0, <2>2, OthersAway DEF Preparing, Leaving, Looked
    <3> QED BY <1>0, <1>2, <3>1, <3>2
            DEF Passed, Releases, Looked, Cordoned, Emptied, Checked, AllUp
  <2> QED BY <2>1, <2>2
<1>5. StoppedStaysCordoned'
  BY <1>0, <1>2 DEF SafeInv, StoppedStaysCordoned
<1>6. \A m \in Node : Pending(m)' => ReadyToDrop(m)'
  <2>1. ReadyToDrop(n)'
    BY <1>0, <1>2, <1>3 DEF ReadyToDrop, OthersInSync
  <2>2. \A m \in Node \ {n} : ~Pending(m)'
    BY <1>2, <1>3 DEF ReadyToDrop, Pending
  <2> QED BY <2>1, <2>2
<1> QED BY <1>4, <1>5, <1>6 DEF SafeInv, BaseInv

(* The steps of the commands keep it.                                         *)
LEMMA CommandSafe ==
    ASSUME SafeInv, NEW o \in Op, Command(o) \/ Interrupt(o)
    PROVE  SafeInv'
<1>1. BaseInv /\ Apart
  BY DEF SafeInv, BaseInv
<1>2. BaseInv'
  BY <1>1, StepKeepsBase DEF Next
<1>3. Apart'
  BY <1>1, CommandApart
<1> QED BY <1>2, <1>3, GatesSafe, QuietSafe, PrepareSafe, UncordonSafe, StopSafe, PowerSafe DEF Command

(* A host goes down because a command said so: nobody is at its gates then.   *)
LEMMA GoesDownSafe ==
    ASSUME SafeInv, BaseInv', NEW n \in Node, GoesDown(n)
    PROVE  SafeInv'
<1>0. /\ UNCHANGED <<op, cordon, load, primary>> /\ TypeOK
      /\ Pending(n) /\ ReadyToDrop(n)
      /\ ~host'[n].up /\ \A m \in Node \ {n} : host'[m] = host[m]
  BY DEF GoesDown, SafeInv, TypeOK, HostState, Pending, api
<1>1. ASSUME NEW p \in Op PROVE Passed(Target[p], op[p])'
  <2>1. Passed(Target[p], op[p]) /\ Target[p] \in Node
    BY NodeMaintenanceAssumption DEF SafeInv
  <2>2. op[p].at \notin Looked
    BY <1>0, <2>1 DEF Passed, Pending
  <2> QED BY <1>0, <2>1, <2>2 DEF Passed, Releases, Looked, Cordoned, Emptied, Checked, AllUp
<1>2. StoppedStaysCordoned'
  BY <1>0 DEF SafeInv, StoppedStaysCordoned
<1>3. \A m \in Node : ~Pending(m)'
  BY <1>0 DEF Pending, ReadyToDrop
<1>4. Apart'
  BY <1>0 DEF SafeInv, Apart, Active
<1> QED BY <1>1, <1>2, <1>3, <1>4 DEF SafeInv, BaseInv

(* An outage finds no host about to go down, and makes none.                  *)
LEMMA OutageSafe ==
    ASSUME SafeInv, BaseInv', NEW n \in Node, Outage(n)
    PROVE  SafeInv'
<1>0. /\ UNCHANGED <<op, cordon, load, primary>> /\ TypeOK
      /\ \A m \in Node : host[m].up => host[m].order = "none"
      /\ \A p \in Op : op[p].at \notin Leaving
      /\ ~host'[n].up /\ \A m \in Node \ {n} : host'[m] = host[m]
  BY DEF Outage, SafeInv, TypeOK, HostState, api
<1>1. ASSUME NEW p \in Op PROVE Passed(Target[p], op[p])'
  <2>1. Passed(Target[p], op[p]) /\ Target[p] \in Node /\ op[p].at \notin Leaving
    BY <1>0, NodeMaintenanceAssumption DEF SafeInv
  <2> QED BY <1>0, <2>1 DEF Passed, Releases, Leaving, Looked, Cordoned, Emptied, Checked, AllUp
<1>2. StoppedStaysCordoned'
  BY <1>0 DEF SafeInv, StoppedStaysCordoned
<1>3. \A m \in Node : ~Pending(m)'
  BY <1>0 DEF Pending
<1>4. Apart'
  BY <1>0 DEF SafeInv, Apart, Active
<1> QED BY <1>1, <1>2, <1>3, <1>4 DEF SafeInv, BaseInv

(* A host that comes up, or whose agent a person starts.                      *)
LEMMA ComesUpSafe ==
    ASSUME SafeInv, BaseInv', NEW n \in Node, ComesUp(n) \/ StartAgentByHand(n)
    PROVE  SafeInv'
<1>0. /\ UNCHANGED <<op, cordon, load, stale, primary>> /\ TypeOK /\ primary \in Node
      /\ host'[n].up /\ host'[n].agent /\ host'[n].order = "none"
      /\ \A m \in Node \ {n} : host'[m] = host[m]
      /\ ~Pending(n)
      /\ ~host[n].up \/ \A p \in Op : Target[p] = n => op[p].at \in {"idle", "ended"}
  BY DEF ComesUp, StartAgentByHand, SafeInv, TypeOK, HostState, Pending, api, storage, Active
<1>1. ASSUME NEW p \in Op PROVE Passed(Target[p], op[p])'
  <2>1. Passed(Target[p], op[p]) /\ Target[p] \in Node
    BY NodeMaintenanceAssumption DEF SafeInv
  <2>2. op[p].at \in {"await", "power"} => Target[p] # n
    BY <1>0, <2>1 DEF Passed, AllUp
  <2> QED BY <1>0, <2>1, <2>2 DEF Passed, Releases, OthersInSync, PrimaryElsewhere
<1>2. StoppedStaysCordoned'
  BY <1>0 DEF SafeInv, StoppedStaysCordoned
<1>3. \A m \in Node : Pending(m)' => ReadyToDrop(m)'
  BY <1>0 DEF SafeInv, Pending, ReadyToDrop, OthersInSync
<1>4. Apart'
  BY <1>0 DEF SafeInv, Apart, Active
<1> QED BY <1>1, <1>2, <1>3, <1>4 DEF SafeInv, BaseInv

(* The rest of the cluster, and the clock.                                    *)
LEMMA ClusterSafe ==
    ASSUME SafeInv, BaseInv', NEW n \in Node,
           AgentBeats(n) \/ Schedule(n) \/ Rebuild(n) \/ FailOver(n) \/ Tick
    PROVE  SafeInv'
<1>0. /\ UNCHANGED <<op, host, cordon>> /\ TypeOK
      /\ load' \in {load, load \cup ({n} \ cordon)}
      /\ stale' \subseteq stale
      /\ primary' = primary \/ ~host[primary].up
      /\ primary \in Node
  BY DEF AgentBeats, Schedule, Rebuild, FailOver, Tick, storage, api, SafeInv, TypeOK
<1>1. ASSUME NEW p \in Op PROVE Passed(Target[p], op[p])'
  <2>1. Passed(Target[p], op[p])
    BY DEF SafeInv
  <2>2. Emptied \subseteq Cordoned
    BY DEF Emptied, Cordoned
  <2> QED BY <1>0, <2>1, <2>2 DEF Passed, Releases, OthersInSync, PrimaryElsewhere
<1>2. StoppedStaysCordoned'
  BY <1>0 DEF SafeInv, StoppedStaysCordoned
<1>3. \A m \in Node : Pending(m)' => ReadyToDrop(m)'
  BY <1>0 DEF SafeInv, Pending, ReadyToDrop, OthersInSync
<1>4. Apart'
  BY <1>0 DEF SafeInv, Apart, Active
<1> QED BY <1>1, <1>2, <1>3, <1>4 DEF SafeInv, BaseInv

(* Every step keeps SafeInv.                                                  *)
LEMMA StepKeepsSafe == SafeInv /\ [Next]_vars => SafeInv'
<1> SUFFICES ASSUME SafeInv, [Next]_vars PROVE SafeInv'
  OBVIOUS
<1>1. BaseInv'
  BY StepKeepsBase DEF SafeInv, BaseInv
<1>2. CASE \E o \in Op : Command(o) \/ Interrupt(o)
  BY <1>2, CommandSafe
<1>3. CASE \E n \in Node : Cluster(n)
  BY <1>1, <1>3, GoesDownSafe, OutageSafe, ComesUpSafe, ClusterSafe DEF Cluster
<1>4. CASE Tick
  <2>1. primary \in Node
    BY DEF SafeInv, TypeOK
  <2> QED BY <1>1, <1>4, <2>1, ClusterSafe
<1>5. CASE UNCHANGED vars
  BY <1>5 DEF vars, SafeInv, TypeOK, Apart, Active, StoppedStaysCordoned, Passed, Releases, Pending,
     ReadyToDrop, OthersInSync, PrimaryElsewhere
<1> QED BY <1>2, <1>3, <1>4, <1>5 DEF Next

(* At first every agent runs, and nobody is at any gate.                      *)
LEMMA InitSafe == Init => SafeInv
<1> SUFFICES ASSUME Init PROVE SafeInv
  OBVIOUS
<1>1. BaseInv
  BY InitBase
<1>2. \A o \in Op : op[o].at = "idle" /\ Target[o] \in Node
  BY NodeMaintenanceAssumption DEF Init, NewOp
<1>3. \A n \in Node : host[n].agent /\ host[n].order = "none"
  BY DEF Init
<1>4. Apart
  BY <1>2 DEF Apart, Active
<1> QED BY <1>1, <1>2, <1>3, <1>4, OutPassed DEF SafeInv, BaseInv, StoppedStaysCordoned, Pending

(* Whatever failed, a host that is up without its agent keeps its cordon.     *)
THEOREM StoppedNodesAreOutOfService == Spec => []StoppedStaysCordoned
<1>1. SafeInv => StoppedStaysCordoned
  BY DEF SafeInv
<1> QED BY <1>1, InitSafe, StepKeepsSafe, PTL DEF Spec

(* A host that goes down by a command leaves a cluster that can spare it: the *)
(* gates that were passed minutes earlier still hold.                         *)
THEOREM DropsAreSafe == Spec => TakenDownSafely
<1> DEFINE Drops == \A n \in Node :
          (host[n].up /\ ~host'[n].up /\ outages' = outages) =>
             /\ n \in cordon \ load /\ n # primary
             /\ OthersInSync(n) /\ AllReady(Node \ {n})
<1>1. SafeInv /\ [Next]_vars => [Drops]_vars
  <2> SUFFICES ASSUME SafeInv, Next,
                      NEW n \in Node, host[n].up, ~host'[n].up, outages' = outages
               PROVE  /\ n \in cordon \ load /\ n # primary
                      /\ OthersInSync(n) /\ AllReady(Node \ {n})
    BY DEF vars
  <2>0. host \in [Node -> HostState] /\ outages \in Nat
    BY NodeMaintenanceAssumption DEF SafeInv, TypeOK
  <2>1. ASSUME Pending(n)
        PROVE  /\ n \in cordon \ load /\ n # primary
               /\ OthersInSync(n) /\ AllReady(Node \ {n})
    BY <2>1 DEF SafeInv, ReadyToDrop, AllReady
  <2>2. ASSUME NEW o \in Op, Command(o) \/ Interrupt(o) PROVE FALSE
    <3>1. Target[o] \in Node
      BY NodeMaintenanceAssumption
    <3>2. UNCHANGED host \/ StopAgent(o) \/ Power(o)
      BY <2>2 DEF Command, Interrupt, Start, CheckAccess, VerifyResumed, RaiseLimit, CheckHealth,
         SwitchPrimary, Cordon, Drain, Detach, CheckSurvival, Release, Recheck, AwaitStopped, AwaitDown,
         SurvivorsNetwork, AwaitUp, VerifyNewBoot, CheckReturned, EstablishBaseline, AgentReturned,
         Uncordon, Settle, Cleanup, Gate
    <3>3. CASE StopAgent(o)
      BY <2>0, <3>1, <3>3 DEF StopAgent, HostState
    <3>4. CASE Power(o)
      BY <2>0, <3>1, <3>4 DEF Power, HostState
    <3> QED BY <3>2, <3>3, <3>4
  <2>3. ASSUME NEW m \in Node, Cluster(m) PROVE Pending(n)
    <3>1. CASE GoesDown(m)
      BY <2>0, <3>1 DEF GoesDown, Pending
    <3>2. CASE Outage(m)
      BY <2>0, <3>2 DEF Outage
    <3>3. CASE ComesUp(m) \/ StartAgentByHand(m)
      BY <2>0, <3>3 DEF ComesUp, StartAgentByHand, HostState
    <3> QED BY <2>3, <3>1, <3>2, <3>3 DEF Cluster, AgentBeats, Schedule, Rebuild, FailOver
  <2>4. CASE Tick
    BY <2>4 DEF Tick
  <2> QED BY <2>1, <2>2, <2>3, <2>4 DEF Next
<1>2. TakenDownSafely <=> [][Drops]_vars
  BY DEF TakenDownSafely
<1> HIDE DEF Drops
<1> QED BY <1>1, <1>2, InitSafe, StepKeepsSafe, PTL DEF Spec

-----------------------------------------------------------------------------
(* Heartbeats *)

(* What a step of command o leaves of the clock, the hosts and the beats.     *)
LEMMA CommandClock ==
    ASSUME BaseInv, NEW o \in Op, Command(o) \/ Interrupt(o)
    PROVE  /\ UNCHANGED clock
           /\ beat' = beat \/ (StopAgent(o) /\
                beat' = [beat EXCEPT ![Target[o]] = [at |-> clock, boot |-> host[Target[o]].boot]])
           /\ \A n \in Node : /\ host'[n].boot = host[n].boot
                              /\ host'[n].up = host[n].up
                              /\ host'[n].agent => host[n].agent
<1>0. host \in [Node -> HostState] /\ Target[o] \in Node
  BY NodeMaintenanceAssumption DEF BaseInv, TypeOK
<1>1. UNCHANGED <<host, beat, clock>> \/ StopAgent(o) \/ Power(o)
  BY DEF Command, Interrupt, Start, CheckAccess, VerifyResumed, RaiseLimit, CheckHealth,
     SwitchPrimary, Cordon, Drain, Detach, CheckSurvival, Release, Recheck, AwaitStopped, AwaitDown,
     SurvivorsNetwork, AwaitUp, VerifyNewBoot, CheckReturned, EstablishBaseline, AgentReturned,
     Uncordon, Settle, Cleanup, Gate, api, world
<1>2. CASE StopAgent(o)
  BY <1>0, <1>2 DEF StopAgent, HostState, world
<1>3. CASE Power(o)
  BY <1>0, <1>3 DEF Power, HostState, world, api
<1> QED BY <1>1, <1>2, <1>3

(* A record with the same memory is as fresh as it was, unless it has just    *)
(* taken a baseline.                                                          *)
LEMMA StaysFresh ==
    ASSUME FreshInv, NEW o \in Op, NEW r,
           r.act = op[o].act, r.baseline = op[o].baseline, r.seen = op[o].seen,
           \/ r.at \notin Awaiting
           \/ r.act # "on" /\ op[o].at \in Awaiting
           \/ r.act = "on" /\ r.at # "back"
    PROVE  FreshAfter(Target[o], r)
BY DEF FreshInv, FreshAfter, Awaiting

(* The stop's baseline is not before the stop: the agent does not run, and no *)
(* beat of a later boot is there yet.                                         *)
LEMMA StoppedFresh ==
    ASSUME FreshInv, NEW o \in Op, op[o].at = "await", NEW r, r.act = op[o].act,
           r.at = "power", r.seen = host[Target[o]].boot,
           r.baseline \in {beat[Target[o]].at, clock}
    PROVE  FreshAfter(Target[o], r)
<1> DEFINE n == Target[o]
<1>1. /\ n \in Node /\ beat[n].at <= clock /\ r.baseline \in {beat[n].at, clock}
      /\ beat[n].at \in Nat /\ clock \in Nat /\ host[n].boot \in Nat
  BY NodeMaintenanceAssumption DEF FreshInv, SafeInv, TypeOK, HostState
<1>2. ~host[n].agent
  BY DEF FreshInv, SafeInv, Passed
<1>3. r.act # "on"
  BY DEF FreshInv, SafeInv, Sound, Leaving
<1>4. r.seen <= host[n].boot /\ r.baseline <= clock /\ ~(beat[n].at > r.baseline)
  BY <1>1
<1> QED BY <1>2, <1>3, <1>4 DEF FreshAfter

(* So is a power-on's.                                                        *)
LEMMA BaselineFresh ==
    ASSUME FreshInv, NEW o \in Op, NEW r, r.act = "on",
           r.seen = host[Target[o]].boot, r.baseline = clock
    PROVE  FreshAfter(Target[o], r)
<1> DEFINE n == Target[o]
<1>1. /\ n \in Node /\ beat[n].at <= clock
      /\ beat[n].at \in Nat /\ clock \in Nat /\ host[n].boot \in Nat
  BY NodeMaintenanceAssumption DEF FreshInv, SafeInv, TypeOK, HostState
<1>2. r.seen <= host[n].boot /\ r.baseline <= clock /\ ~(beat[n].at > r.baseline)
  BY <1>1
<1> QED BY <1>2 DEF FreshAfter

(* A step of a command's own: its record is fresh for the world it looked at. *)
LEMMA CommandFresh ==
    ASSUME FreshInv, NEW o \in Op, Command(o) \/ Interrupt(o)
    PROVE  FreshAfter(Target[o], op'[o])
<1>0. /\ SafeInv /\ TypeOK /\ op \in [Op -> OpState] /\ op[o] \in OpState /\ Sound(op[o])
  BY DEF FreshInv, SafeInv, TypeOK
<1> SUFFICES \E r : Becomes(o, r) /\ FreshAfter(Target[o], r)
  BY DEF Becomes
<1>1. ASSUME NEW r, Becomes(o, r), r.at \notin Awaiting
      PROVE  \E s : Becomes(o, s) /\ FreshAfter(Target[o], s)
  BY <1>1 DEF FreshAfter, Awaiting
<1>2. ASSUME Fails(o) PROVE \E s : Becomes(o, s) /\ FreshAfter(Target[o], s)
  BY <1>0, <1>1, <1>2, Failed, FailurePlace DEF Awaiting
<1>3. ASSUME NEW w \in Where \ Awaiting, Goto(o, w)
      PROVE  \E s : Becomes(o, s) /\ FreshAfter(Target[o], s)
  BY <1>0, <1>1, <1>3, Gone
<1>4. ASSUME NEW here, NEW condition, NEW next \in Where, Gate(o, here, condition, next),
             \/ next \notin Awaiting
             \/ op[o].act # "on" /\ here \in Awaiting
             \/ op[o].act = "on" /\ next # "back"
      PROVE  \E s : Becomes(o, s) /\ FreshAfter(Target[o], s)
  <2>1. PICK r : /\ Becomes(o, r) /\ Same(op[o], r)
                 /\ r.at = AfterFailure(o) \/ r.at = next
    BY <1>0, <1>4, GateTurns
  <2>2. op[o].at = here
    BY <1>4 DEF Gate
  <2> QED BY <1>1, <1>4, <2>1, <2>2, FailurePlace, StaysFresh DEF Same, Awaiting
<1>5. ASSUME NEW next \in Where \ Awaiting, HealthPasses(o, next)
      PROVE  \E s : Becomes(o, s) /\ FreshAfter(Target[o], s)
  <2>1. PICK r : Becomes(o, r) /\ (r.at = next \/ r.at = AfterFailure(o))
    BY <1>0, <1>5, HealthTurns
  <2> QED BY <1>1, <1>5, <2>1, FailurePlace DEF Awaiting
<1> USE DEF Where, Preparing, Leaving, Awaiting
<1>6. CASE Start(o)
  <2>1. PICK r : Becomes(o, r) /\ r.at = IF r.act = "on" THEN "up" ELSE "access"
    BY <1>0, <1>6, StartTurns
  <2> QED BY <2>1 DEF FreshAfter
<1>7. CASE \/ CheckAccess(o) \/ VerifyResumed(o) \/ Detach(o) \/ CheckSurvival(o) \/ Recheck(o)
           \/ AgentReturned(o)
  BY <1>4, <1>7 DEF CheckAccess, VerifyResumed, Detach, CheckSurvival, Recheck, AgentReturned
<1>8. CASE SurvivorsNetwork(o)
  BY <1>0, <1>4, <1>8 DEF SurvivorsNetwork, Gate, Sound
<1>9. CASE AwaitUp(o)
  BY <1>4, <1>9 DEF AwaitUp
<1>10. CASE VerifyNewBoot(o)
  BY <1>0, <1>4, <1>10 DEF VerifyNewBoot, Gate, Sound
<1>11. CASE CheckReturned(o)
  BY <1>4, <1>11 DEF CheckReturned
<1>12. CASE RaiseLimit(o)
  <2>1. PICK r : Becomes(o, r) /\ (r.at = op[o].at \/ r.at = AfterFailure(o))
    BY <1>0, <1>12, RaiseTurns
  <2> QED BY <1>1, <1>12, <2>1, FailurePlace DEF RaiseLimit
<1>13. CASE CheckHealth(o) \/ Settle(o)
  BY <1>2, <1>5, <1>13 DEF CheckHealth, Settle
<1>14. CASE SwitchPrimary(o) \/ Release(o) \/ Uncordon(o)
  BY <1>2, <1>3, <1>14 DEF SwitchPrimary, Release, Uncordon
<1>15. CASE Cordon(o)
  BY <1>0, <1>1, <1>2, <1>15, CordonTurns DEF Cordon
<1>16. CASE Drain(o)
  BY <1>0, <1>1, <1>2, <1>16, DrainTurns DEF Drain
<1>17. CASE StopAgent(o)
  BY <1>0, <1>1, <1>3, <1>17, TellTurns DEF StopAgent
<1>18. CASE AwaitStopped(o)
  <2>1. PICK r : /\ Becomes(o, r) /\ r.act = op[o].act
                 /\ \/ /\ r.at = "power" /\ r.seen = host[Target[o]].boot
                       /\ r.baseline \in {beat[Target[o]].at, clock}
                    \/ r.at = "cleanup"
    BY <1>0, <1>18, AwaitTurns
  <2>2. op[o].at = "await"
    BY <1>18 DEF AwaitStopped
  <2> QED BY <1>1, <2>1, <2>2, StoppedFresh
<1>19. CASE Power(o)
  <2>1. op[o].at = "power" /\ op[o].act # "on"
    BY <1>0, <1>19 DEF Power, Sound
  <2>2. Fails(o) \/ \E r : Becomes(o, r) /\ Same(op[o], r) /\ r.at = "down"
    BY <1>0, <1>19, SentTurns DEF Power
  <2> QED BY <1>2, <2>1, <2>2, StaysFresh DEF Same
<1>20. CASE AwaitDown(o)
  <2>1. op[o].at = "down" /\ op[o].act # "on"
    BY <1>0, <1>20 DEF AwaitDown, Sound
  <2>2. Fails(o) \/ \E r : /\ Becomes(o, r) /\ SameButStopped(op[o], r)
                           /\ r.at = "survivors"
    BY <1>0, <1>20, DownTurns DEF AwaitDown
  <2>3. ASSUME NEW r, SameButStopped(op[o], r), r.at = "survivors"
        PROVE  FreshAfter(Target[o], r)
    <3>1. r.act = op[o].act /\ r.baseline = op[o].baseline /\ r.seen = op[o].seen
      BY <1>0, <2>3 DEF SameButStopped
    <3> QED BY <2>1, <3>1, StaysFresh
  <2> QED BY <1>2, <2>2, <2>3
<1>21. CASE EstablishBaseline(o)
  <2>1. op[o].at = "baseline" /\ op[o].act = "on"
    BY <1>0, <1>21 DEF EstablishBaseline, Sound
  <2>2. Fails(o) \/ \E r : /\ Becomes(o, r) /\ r.at = "back" /\ r.act = op[o].act
                           /\ r.baseline = clock /\ r.seen = host[Target[o]].boot
    BY <1>0, <1>21, BaselineTurns DEF EstablishBaseline
  <2> QED BY <1>2, <2>1, <2>2, BaselineFresh
<1>22. CASE Cleanup(o)
  BY <1>0, <1>1, <1>22, CleanupTurns DEF Cleanup
<1>23. CASE Interrupt(o)
  BY <1>0, <1>1, <1>23, InterruptTurns, FailurePlace
<1> HIDE DEF Where, Preparing, Leaving, Awaiting
<1> QED BY <1>6, <1>7, <1>8, <1>9, <1>10, <1>11, <1>12, <1>13, <1>14, <1>15, <1>16, <1>17, <1>18, <1>19,
     <1>20, <1>21, <1>22, <1>23 DEF Command

(* The steps of a command keep every record fresh.                            *)
LEMMA CommandKeepsFresh ==
    ASSUME FreshInv, NEW o \in Op, Command(o) \/ Interrupt(o)
    PROVE  FreshInv'
<1>0. SafeInv /\ BaseInv /\ SafeInv'
  BY CommandSafe DEF FreshInv, SafeInv, BaseInv
<1>1. /\ UNCHANGED clock /\ clock \in Nat
      /\ beat' = beat \/ (StopAgent(o) /\
           beat' = [beat EXCEPT ![Target[o]] = [at |-> clock, boot |-> host[Target[o]].boot]])
      /\ \A n \in Node : /\ host'[n].boot = host[n].boot
                         /\ host'[n].up = host[n].up
                         /\ host'[n].agent => host[n].agent
      /\ beat \in [Node -> [at : 0 .. MaxTime, boot : Nat]]
  BY <1>0, CommandClock, NodeMaintenanceAssumption DEF SafeInv, TypeOK
<1>2. \A n \in Node : beat'[n].at <= clock'
  BY <1>1 DEF FreshInv
<1>3. /\ FreshAfter(Target[o], op'[o])
      /\ \A p \in Op \ {o} : op'[p] = op[p]
      /\ StopAgent(o) => op'[o].at \in {"await", "cleanup"}
  <2>1. StopAgent(o) => op'[o].at \in {"await", "cleanup"}
    BY <1>0 DEF StopAgent, Goto, BaseInv, TypeOK, OpState
  <2> QED BY <1>0, <2>1, CommandFresh, CommandSound DEF BaseInv
<1>4. ASSUME NEW p \in Op PROVE FreshAfter(Target[p], op[p])'
  <2>1. FreshAfter(Target[p], op'[p]) /\ Target[p] \in Node
    BY <1>3, NodeMaintenanceAssumption DEF FreshInv
  <2>2. CASE beat'[Target[p]] = beat[Target[p]]
    BY <1>1, <2>1, <2>2 DEF FreshAfter
  <2>3. CASE beat'[Target[p]] # beat[Target[p]]
    <3>1. StopAgent(o) /\ Target[p] = Target[o]
      BY <1>1, <2>1, <2>3
    <3>2. p = o \/ op[p].at \in {"idle", "ended"}
      <4>1. op[o].at = "stop"
        BY <3>1 DEF StopAgent
      <4> QED BY <1>0, <3>1, <4>1 DEF SafeInv, Apart, Active
    <3>3. op'[p].at \notin Awaiting
      BY <1>3, <3>1, <3>2 DEF Awaiting
    <3> QED BY <3>3 DEF FreshAfter, Awaiting
  <2> QED BY <2>2, <2>3
<1> QED BY <1>0, <1>2, <1>4 DEF FreshInv

(* So do those of the cluster: a beat is of the boot that writes it, and an   *)
(* agent runs again after its stop only in a later boot.                      *)
LEMMA ClusterKeepsFresh ==
    ASSUME FreshInv, SafeInv', (\E n \in Node : Cluster(n)) \/ Tick
    PROVE  FreshInv'
<1>0. /\ clock \in Nat /\ \A n \in Node : host[n].boot \in Nat
      /\ host \in [Node -> HostState] /\ beat \in [Node -> [at : 0 .. MaxTime, boot : Nat]]
      /\ op \in [Op -> OpState]
  BY NodeMaintenanceAssumption DEF FreshInv, SafeInv, TypeOK, HostState
<1>1. \A p \in Op : /\ Target[p] \in Node /\ FreshAfter(Target[p], op[p])
                    /\ op[p].seen \in Nat /\ op[p].baseline \in Int
  BY <1>0, NodeMaintenanceAssumption DEF FreshInv, OpState
<1>2. ASSUME NEW n \in Node, GoesDown(n) \/ Outage(n) PROVE FreshInv'
  <2>1. /\ UNCHANGED <<op, beat, clock>> /\ ~host'[n].up
        /\ host'[n].boot = host[n].boot /\ \A m \in Node \ {n} : host'[m] = host[m]
    BY <1>0, <1>2 DEF GoesDown, Outage, HostState, api, world
  <2> QED BY <1>0, <1>1, <2>1 DEF FreshInv, FreshAfter
<1>3. ASSUME NEW n \in Node, ComesUp(n) PROVE FreshInv'
  <2>1. /\ UNCHANGED <<op, beat, clock>>
        /\ host'[n].boot = host[n].boot + 1 /\ \A m \in Node \ {n} : host'[m] = host[m]
    BY <1>0, <1>3 DEF ComesUp, HostState, api, world
  <2>2. ASSUME NEW p \in Op PROVE FreshAfter(Target[p], op[p])'
    BY <1>0, <1>1, <2>1 DEF FreshAfter
  <2> QED BY <2>1, <2>2 DEF FreshInv
<1>4. ASSUME NEW n \in Node, StartAgentByHand(n) PROVE FreshInv'
  <2>1. /\ UNCHANGED <<op, beat, clock>>
        /\ \A m \in Node \ {n} : host'[m] = host[m]
        /\ \A p \in Op : Target[p] = n => ~Active(p)
    BY <1>0, <1>4 DEF StartAgentByHand, api, world
  <2>2. ASSUME NEW p \in Op PROVE FreshAfter(Target[p], op[p])'
    <3>1. CASE Target[p] = n
      BY <2>1, <3>1 DEF FreshAfter, Awaiting, Active
    <3>2. CASE Target[p] # n
      BY <1>1, <2>1, <3>2 DEF FreshAfter
    <3> QED BY <3>1, <3>2
  <2> QED BY <2>1, <2>2 DEF FreshInv
<1>5. ASSUME NEW n \in Node, AgentBeats(n) PROVE FreshInv'
  <2>1. /\ UNCHANGED <<op, host, clock>> /\ host[n].up /\ host[n].agent
        /\ beat'[n].at = clock /\ beat'[n].boot = host[n].boot
        /\ \A m \in Node \ {n} : beat'[m] = beat[m]
    BY <1>0, <1>5 DEF AgentBeats, world
  <2>2. ASSUME NEW p \in Op PROVE FreshAfter(Target[p], op[p])'
    BY <1>0, <1>1, <2>1 DEF FreshAfter
  <2>3. \A m \in Node : beat'[m].at <= clock'
    BY <1>0, <2>1 DEF FreshInv
  <2> QED BY <2>2, <2>3 DEF FreshInv
<1>6. ASSUME NEW n \in Node, Schedule(n) \/ Rebuild(n) \/ FailOver(n) PROVE FreshInv'
  BY <1>6 DEF Schedule, Rebuild, FailOver, world, api, FreshInv, FreshAfter
<1>7. CASE Tick
  <2>1. UNCHANGED <<op, host, beat>> /\ clock' = clock + 1
    BY <1>7 DEF Tick, api
  <2>2. ASSUME NEW p \in Op PROVE FreshAfter(Target[p], op[p])'
    BY <1>0, <1>1, <2>1 DEF FreshAfter
  <2>3. \A m \in Node : beat'[m].at <= clock'
    BY <1>0, <2>1 DEF FreshInv
  <2> QED BY <2>2, <2>3 DEF FreshInv
<1> QED BY <1>2, <1>3, <1>4, <1>5, <1>6, <1>7 DEF Cluster

(* Every step keeps FreshInv.                                                 *)
LEMMA StepKeepsFresh == FreshInv /\ [Next]_vars => FreshInv'
<1> SUFFICES ASSUME FreshInv, [Next]_vars PROVE FreshInv'
  OBVIOUS
<1>1. SafeInv'
  BY StepKeepsSafe DEF FreshInv
<1>2. CASE UNCHANGED vars
  BY <1>1, <1>2 DEF FreshInv, FreshAfter, vars
<1> QED BY <1>1, <1>2, CommandKeepsFresh, ClusterKeepsFresh DEF Next

(* At first nobody waits for a heartbeat.                                     *)
LEMMA InitFresh == Init => FreshInv
<1> SUFFICES ASSUME Init PROVE FreshInv
  OBVIOUS
<1>1. \A n \in Node : beat[n].at <= clock
  BY DEF Init
<1>2. \A o \in Op : op[o].at = "idle"
  BY DEF Init, NewOp
<1> QED BY <1>1, <1>2, InitSafe DEF FreshInv, FreshAfter, Awaiting

(* A node goes back to service only on a heartbeat of its agent's that was    *)
(* written after the stop, in a boot that began after it.                     *)
THEOREM ReturnsAreFresh == Spec => ReturnedAgentIsFresh
<1> DEFINE Fresh == \A o \in Op :
          (op[o].at = "back" /\ op'[o].at = "uncordon") =>
             LET believed == beat[Target[o]].boot IN
             IF op[o].act = "on" THEN believed >= op[o].seen ELSE believed > op[o].seen
<1>1. FreshInv /\ [Next]_vars => [Fresh]_vars
  <2> SUFFICES ASSUME FreshInv, Next, NEW o \in Op, op[o].at = "back", op'[o].at = "uncordon"
               PROVE  IF op[o].act = "on" THEN beat[Target[o]].boot >= op[o].seen
                                          ELSE beat[Target[o]].boot > op[o].seen
    OBVIOUS
  <2>0. /\ BaseInv /\ Target[o] \in Node /\ op[o].seen \in Nat /\ beat[Target[o]].boot \in Nat
        /\ op \in [Op -> OpState]
    BY NodeMaintenanceAssumption DEF FreshInv, SafeInv, BaseInv, TypeOK, OpState
  <2>1. Command(o) \/ Interrupt(o)
    <3>1. op'[o] # op[o]
      OBVIOUS
    <3>2. ASSUME NEW p \in Op, Command(p) \/ Interrupt(p) PROVE p = o
      BY <2>0, <3>1, <3>2, CommandSound DEF BaseInv
    <3>3. (\E n \in Node : Cluster(n)) \/ Tick => UNCHANGED op
      BY DEF Cluster, GoesDown, Outage, ComesUp, StartAgentByHand, AgentBeats, Schedule, Rebuild,
         FailOver, Tick
    <3> QED BY <3>1, <3>2, <3>3 DEF Next
  <2>2. ~Interrupt(o)
    <3>1. Interrupt(o) => op'[o].at \in {"release", AfterFailure(o)}
      BY <2>0, InterruptTurns DEF Becomes
    <3> QED BY <3>1, FailurePlace
  <2>3. AgentReturned(o)
    BY <2>1, <2>2 DEF Command, Start, CheckAccess, VerifyResumed, RaiseLimit, CheckHealth,
       SwitchPrimary, Cordon, Drain, Detach, CheckSurvival, Release, Recheck, StopAgent, AwaitStopped,
       Power, AwaitDown, SurvivorsNetwork, AwaitUp, VerifyNewBoot, CheckReturned, EstablishBaseline,
       Uncordon, Settle, Cleanup, Gate
  <2>4. beat[Target[o]].at > op[o].baseline
    <3>1. Fails(o) => op'[o].at = AfterFailure(o)
      BY <2>0, Failed DEF Becomes
    <3> QED BY <2>3, <3>1, FailurePlace DEF AgentReturned, Gate
  <2>5. FreshAfter(Target[o], op[o])
    BY DEF FreshInv
  <2> QED BY <2>0, <2>4, <2>5 DEF FreshAfter, Awaiting
<1>2. ReturnedAgentIsFresh <=> [][Fresh]_vars
  BY DEF ReturnedAgentIsFresh
<1> HIDE DEF Fresh
<1> QED BY <1>1, <1>2, InitFresh, StepKeepsFresh, PTL DEF Spec

-----------------------------------------------------------------------------
(* The rebuild limit, and the agents that were stopped *)

(* A step of a command keeps its debt, pays it, or has none; no command goes  *)
(* back to before its start.                                                  *)
LEMMA CommandOwes ==
    ASSUME BaseInv, NEW o \in Op, Command(o) \/ Interrupt(o)
    PROVE  \/ limit' = 0
           \/ Owes(op'[o])
           \/ limit' = limit /\ ~Owes(op[o])
<1> DEFINE Goal == \/ limit' = 0
                   \/ Owes(op'[o])
                   \/ limit' = limit /\ ~Owes(op[o])
<1>0. TypeOK /\ op \in [Op -> OpState] /\ op[o] \in OpState
  BY DEF BaseInv, TypeOK
<1> SUFFICES Goal
  OBVIOUS
<1>1. ASSUME NEW r, Becomes(o, r), r.raised = op[o].raised, r.at # "idle", UNCHANGED limit
      PROVE  Goal
  BY <1>1 DEF Becomes, Owes
<1>2. ASSUME NEW w \in Where \ {"idle"}, Goto(o, w), UNCHANGED limit
      PROVE  Goal
  BY <1>0, <1>1, <1>2, Gone DEF Same
<1>3. ASSUME Fails(o), limit' \in {0, limit}
      PROVE  Goal
  BY <1>0, <1>1, <1>3, Failed, FailurePlace DEF Same
<1>4. ASSUME NEW here, NEW condition, NEW next \in Where \ {"idle"}, Gate(o, here, condition, next)
      PROVE  Goal
  BY <1>2, <1>3, <1>4 DEF Gate, storage
<1>5. ASSUME NEW next \in Where \ {"idle"}, HealthPasses(o, next)
      PROVE  Goal
  <2>1. PICK r : /\ Becomes(o, r)
                 /\ \/ /\ r.at = next /\ ~r.raised
                       /\ limit' = IF op[o].raised THEN 0 ELSE limit
                    \/ r.at = AfterFailure(o) /\ Same(op[o], r) /\ limit' \in {0, limit}
    BY <1>0, <1>5, HealthTurns
  <2> QED BY <1>1, <1>5, <2>1, FailurePlace DEF Same, Owes
<1> USE DEF Where, Preparing, Leaving
<1>6. CASE Start(o)
  BY <1>6 DEF Start, Owes, storage
<1>7. CASE \/ CheckAccess(o) \/ VerifyResumed(o) \/ Detach(o) \/ CheckSurvival(o) \/ Recheck(o)
  BY <1>4, <1>7 DEF CheckAccess, VerifyResumed, Detach, CheckSurvival, Recheck
<1>8. CASE SurvivorsNetwork(o) \/ AwaitUp(o) \/ VerifyNewBoot(o) \/ CheckReturned(o) \/ AgentReturned(o)
  BY <1>4, <1>8 DEF SurvivorsNetwork, AwaitUp, VerifyNewBoot, CheckReturned, AgentReturned
<1>9. CASE RaiseLimit(o)
  <2>1. PICK r : Becomes(o, r) /\ r.raised /\ (r.at = op[o].at \/ r.at = AfterFailure(o))
    BY <1>0, <1>9, RaiseTurns
  <2>2. r.at # "idle"
    BY <1>9, <2>1, FailurePlace DEF RaiseLimit
  <2> QED BY <2>1, <2>2 DEF Becomes, Owes
<1>10. CASE CheckHealth(o) \/ Settle(o)
  BY <1>3, <1>5, <1>10 DEF CheckHealth, Settle
<1>11. CASE SwitchPrimary(o) \/ Release(o) \/ Uncordon(o)
  BY <1>2, <1>3, <1>11 DEF SwitchPrimary, Release, Uncordon, storage
<1>12. CASE Cordon(o)
  <2>1. Fails(o) \/ \E r : /\ Becomes(o, r) /\ SameButReleasable(op[o], r)
                           /\ r.at \in {"drain", "detach"}
    BY <1>0, <1>12, CordonTurns DEF Cordon
  <2> QED BY <1>0, <1>1, <1>3, <1>12, <2>1 DEF SameButReleasable, Cordon, storage
<1>13. CASE Drain(o)
  BY <1>0, <1>1, <1>3, <1>13, DrainTurns DEF SameButReleasable, Drain, storage
<1>14. CASE StopAgent(o)
  BY <1>0, <1>1, <1>2, <1>14, TellTurns DEF SameButTold, StopAgent, storage
<1>15. CASE AwaitStopped(o)
  BY <1>0, <1>1, <1>15, AwaitTurns DEF AwaitStopped, storage
<1>16. CASE Power(o)
  BY <1>0, <1>1, <1>3, <1>16, SentTurns DEF Power, Same, storage
<1>17. CASE AwaitDown(o)
  BY <1>0, <1>1, <1>3, <1>17, DownTurns DEF SameButStopped, AwaitDown, storage
<1>18. CASE EstablishBaseline(o)
  BY <1>0, <1>1, <1>3, <1>18, BaselineTurns DEF EstablishBaseline, storage
<1>19. CASE Cleanup(o)
  <2>1. PICK kept \in BOOLEAN :
           /\ IF op[o].raised /\ ~kept THEN limit' = 0 ELSE UNCHANGED limit
           /\ op' = [op EXCEPT ![o] = [NewOp EXCEPT !.at = "ended", !.raised = kept,
                                               !.told = op[o].told \/ op[o].stopped]]
    BY <1>19 DEF Cleanup
  <2>2. PICK r : Becomes(o, r) /\ r.at = "ended" /\ r.raised = kept
    BY <1>0, <2>1, CleanupTurns
  <2> QED BY <2>1, <2>2 DEF Becomes, Owes
<1>20. CASE Interrupt(o)
  <2>1. PICK r : /\ Becomes(o, r) /\ SameButTold(op[o], r)
                 /\ r.at = "release" \/ r.at = AfterFailure(o)
    BY <1>0, <1>20, InterruptTurns
  <2>2. r.raised = op[o].raised
    BY <1>0, <2>1 DEF SameButTold
  <2> QED BY <1>1, <1>20, <2>1, <2>2, FailurePlace DEF Interrupt, storage
<1> HIDE DEF Goal, Where, Preparing, Leaving
<1> QED BY <1>6, <1>7, <1>8, <1>9, <1>10, <1>11, <1>12, <1>13, <1>14, <1>15, <1>16, <1>17, <1>18, <1>19,
     <1>20 DEF Command

(* Every step keeps LimitInv: what the cluster does leaves the limit alone.   *)
LEMMA StepKeepsLimit == LimitInv /\ [Next]_vars => LimitInv'
<1> SUFFICES ASSUME LimitInv, [Next]_vars PROVE LimitInv'
  OBVIOUS
<1>1. BaseInv /\ BaseInv'
  BY StepKeepsBase DEF LimitInv
<1>2. ASSUME NEW o \in Op, Command(o) \/ Interrupt(o) PROVE LimitInv'
  <2>1. \A p \in Op \ {o} : op'[p] = op[p]
    BY <1>1, <1>2, CommandSound DEF BaseInv
  <2> QED BY <1>1, <1>2, <2>1, CommandOwes DEF LimitInv
<1>3. CASE UNCHANGED <<op, limit>>
  BY <1>1, <1>3 DEF LimitInv
<1>4. CASE (\E n \in Node : Cluster(n)) \/ Tick
  BY <1>3, <1>4 DEF Cluster, GoesDown, Outage, ComesUp, StartAgentByHand, AgentBeats, Schedule, Rebuild,
     FailOver, Tick, storage
<1>5. CASE UNCHANGED vars
  BY <1>3, <1>5 DEF vars
<1> QED BY <1>2, <1>4, <1>5 DEF Next

(* Longhorn's raised limit is some command's to put back, or was reported.    *)
THEOREM LimitIsNeverForgotten == Spec => []LimitIsOwed
<1>1. Init => LimitInv
  BY InitBase DEF Init, LimitInv
<1>2. LimitInv => LimitIsOwed
  BY DEF LimitInv, LimitIsOwed, Owes, Active
<1> QED BY <1>1, <1>2, StepKeepsLimit, PTL DEF Spec

(* A step of a command keeps its word, unless it saw the host go down.        *)
LEMMA CommandTells ==
    ASSUME BaseInv, ~Silent, NEW o \in Op, Command(o) \/ Interrupt(o), Tells(op[o])
    PROVE  Tells(op'[o]) \/ ~host'[Target[o]].up
<1> DEFINE Goal == Tells(op'[o]) \/ ~host'[Target[o]].up
<1>0. TypeOK /\ op \in [Op -> OpState] /\ op[o] \in OpState /\ Sound(op[o])
  BY DEF BaseInv, TypeOK
<1> SUFFICES Goal
  OBVIOUS
<1>1. ASSUME NEW r, Becomes(o, r), r.told = op[o].told, r.stopped = op[o].stopped,
             r.at \notin {"idle", "ended"}, op[o].at # "await"
      PROVE  Goal
  BY <1>1 DEF Becomes, Tells
<1>1a. ASSUME NEW r, Becomes(o, r), r.told
       PROVE  Goal
  BY <1>1a DEF Becomes, Tells
<1>2. ASSUME NEW w \in Where \ {"idle", "ended"}, Goto(o, w), op[o].at # "await"
      PROVE  Goal
  BY <1>0, <1>1, <1>2, Gone DEF Same
<1>3. ASSUME Fails(o), op[o].at # "await"
      PROVE  Goal
  BY <1>0, <1>1, <1>3, Failed, FailurePlace DEF Same
<1>4. ASSUME NEW here \in Where \ {"await"}, NEW condition, NEW next \in Where \ {"idle", "ended"},
             Gate(o, here, condition, next)
      PROVE  Goal
  BY <1>2, <1>3, <1>4 DEF Gate
<1>5. ASSUME NEW next \in Where \ {"idle", "ended"}, HealthPasses(o, next), op[o].at # "await"
      PROVE  Goal
  <2>1. PICK r : /\ Becomes(o, r)
                 /\ \/ r.at = next /\ SameButRaised(op[o], r)
                    \/ r.at = AfterFailure(o) /\ Same(op[o], r)
    BY <1>0, <1>5, HealthTurns
  <2>2. r.told = op[o].told /\ r.stopped = op[o].stopped
    BY <1>0, <2>1 DEF SameButRaised, Same
  <2> QED BY <1>1, <1>5, <2>1, <2>2, FailurePlace
<1> USE DEF Where, Preparing, Leaving
<1>6. CASE Start(o)
  BY <1>0, <1>6 DEF Start, Tells, Sound
<1>7. CASE \/ CheckAccess(o) \/ VerifyResumed(o) \/ Detach(o) \/ CheckSurvival(o) \/ Recheck(o)
  BY <1>4, <1>7 DEF CheckAccess, VerifyResumed, Detach, CheckSurvival, Recheck
<1>8. CASE SurvivorsNetwork(o) \/ AwaitUp(o) \/ VerifyNewBoot(o) \/ CheckReturned(o) \/ AgentReturned(o)
  BY <1>4, <1>8 DEF SurvivorsNetwork, AwaitUp, VerifyNewBoot, CheckReturned, AgentReturned
<1>9. CASE RaiseLimit(o)
  <2>1. PICK r : /\ Becomes(o, r) /\ SameButRaised(op[o], r)
                 /\ r.at = op[o].at \/ r.at = AfterFailure(o)
    BY <1>0, <1>9, RaiseTurns
  <2>2. r.told = op[o].told /\ r.stopped = op[o].stopped
    BY <1>0, <2>1 DEF SameButRaised
  <2> QED BY <1>1, <1>9, <2>1, <2>2, FailurePlace DEF RaiseLimit
<1>10. CASE CheckHealth(o) \/ Settle(o)
  BY <1>3, <1>5, <1>10 DEF CheckHealth, Settle
<1>11. CASE SwitchPrimary(o) \/ Release(o) \/ Uncordon(o)
  BY <1>2, <1>3, <1>11 DEF SwitchPrimary, Release, Uncordon
<1>12. CASE Cordon(o)
  BY <1>0, <1>1, <1>3, <1>12, CordonTurns DEF SameButReleasable, Cordon
<1>13. CASE Drain(o)
  BY <1>0, <1>1, <1>3, <1>13, DrainTurns DEF SameButReleasable, Drain
<1>14. CASE StopAgent(o)
  BY <1>0, <1>1a, <1>2, <1>14, TellTurns DEF StopAgent
<1>15. CASE AwaitStopped(o)
  <2>1. PICK r : /\ Becomes(o, r)
                 /\ \/ r.at = "power" /\ r.stopped
                    \/ r.told
    BY <1>0, <1>15, AwaitTurns
  <2> QED BY <2>1 DEF Becomes, Tells
<1>16. CASE Power(o)
  BY <1>0, <1>1, <1>3, <1>16, SentTurns DEF Power, Same
<1>17. CASE AwaitDown(o)
  BY <1>0, <1>1, <1>3, <1>17, DownTurns DEF SameButStopped, AwaitDown
<1>18. CASE EstablishBaseline(o)
  BY <1>0, <1>1, <1>3, <1>18, BaselineTurns DEF EstablishBaseline
<1>19. CASE Cleanup(o)
  <2>1. op[o].told \/ op[o].stopped
    BY <1>19 DEF Cleanup, Tells
  <2> QED BY <1>0, <1>1a, <1>19, <2>1, CleanupTurns DEF Cleanup
<1>20. CASE Interrupt(o)
  <2>1. PICK r : /\ Becomes(o, r) /\ SameButTold(op[o], r)
                 /\ r.at = "release" \/ r.at = AfterFailure(o)
                 /\ op[o].told => r.told
                 /\ op[o].at = "await" => r.told
    BY <1>0, <1>20, InterruptTurns
  <2>2. r.stopped = op[o].stopped
    BY <1>0, <2>1 DEF SameButTold
  <2>3. r.at \notin {"idle", "ended"}
    BY <2>1, FailurePlace
  <2> QED BY <2>1, <2>2, <2>3 DEF Becomes, Tells
<1> HIDE DEF Goal, Where, Preparing, Leaving
<1> QED BY <1>6, <1>7, <1>8, <1>9, <1>10, <1>11, <1>12, <1>13, <1>14, <1>15, <1>16, <1>17, <1>18, <1>19,
     <1>20 DEF Command

(* The command that stops an agent waits for it, or has told.                 *)
LEMMA StopTells ==
    ASSUME BaseInv, NEW o \in Op, StopAgent(o)
    PROVE  /\ Tells(op'[o])
           /\ \A n \in Node \ {Target[o]} : host'[n] = host[n]
<1>0. op \in [Op -> OpState] /\ op[o] \in OpState /\ host \in [Node -> HostState]
  BY DEF BaseInv, TypeOK
<1>1. ASSUME Goto(o, "await") PROVE Tells(op'[o])
  BY <1>0, <1>1 DEF Goto, Tells, OpState
<1>2. ASSUME op' = [op EXCEPT ![o].at = "cleanup", ![o].told = TRUE] PROVE Tells(op'[o])
  BY <1>0, <1>2, TellTurns DEF Tells, Becomes
<1>3. \A n \in Node \ {Target[o]} : host'[n] = host[n]
  BY <1>0 DEF StopAgent
<1> QED BY <1>1, <1>2, <1>3 DEF StopAgent

(* Every step keeps ToldInv, unless a stopped agent may go unreported.        *)
LEMMA StepKeepsTold == ASSUME ~Silent PROVE ToldInv /\ [Next]_vars => ToldInv'
<1> SUFFICES ASSUME ToldInv, [Next]_vars PROVE ToldInv'
  OBVIOUS
<1>1. BaseInv /\ BaseInv' /\ host \in [Node -> HostState]
  BY StepKeepsBase DEF ToldInv, BaseInv, TypeOK
<1> SUFFICES ASSUME NEW n \in Node, host'[n].up, ~host'[n].agent
             PROVE  \E o \in Op : Target[o] = n /\ Tells(op'[o])
  BY <1>1 DEF ToldInv, Tells
<1>2. ASSUME host[n].up, ~host[n].agent, UNCHANGED op
      PROVE  \E o \in Op : Target[o] = n /\ Tells(op'[o])
  BY <1>2 DEF ToldInv
<1>3. ASSUME NEW o \in Op, Command(o) \/ Interrupt(o)
      PROVE  \E q \in Op : Target[q] = n /\ Tells(op'[q])
  <2>1. \A p \in Op \ {o} : op'[p] = op[p]
    BY <1>1, <1>3, CommandSound DEF BaseInv
  <2>2. CASE host[n].up /\ ~host[n].agent
    <3>1. PICK q \in Op : Target[q] = n /\ Tells(op[q])
      BY <2>2 DEF ToldInv
    <3> QED BY <1>1, <1>3, <2>1, <3>1, CommandTells
  <2>3. CASE ~(host[n].up /\ ~host[n].agent)
    <3>1. UNCHANGED host \/ StopAgent(o) \/ Power(o)
      BY <1>3 DEF Command, Interrupt, Start, CheckAccess, VerifyResumed, RaiseLimit, CheckHealth,
         SwitchPrimary, Cordon, Drain, Detach, CheckSurvival, Release, Recheck, AwaitStopped, AwaitDown,
         SurvivorsNetwork, AwaitUp, VerifyNewBoot, CheckReturned, EstablishBaseline, AgentReturned,
         Uncordon, Settle, Cleanup, Gate
    <3>2. StopAgent(o) => Target[o] = n
      BY <1>1, <2>3, StopTells
    <3>3. ~Power(o)
      BY <1>1, <2>3 DEF Power, HostState
    <3> QED BY <1>1, <2>3, <3>1, <3>2, <3>3, StopTells
  <2> QED BY <2>2, <2>3
<1>4. ASSUME NEW m \in Node, Cluster(m)
      PROVE  \E o \in Op : Target[o] = n /\ Tells(op'[o])
  <2>1. UNCHANGED op
    BY <1>4 DEF Cluster, GoesDown, Outage, ComesUp, StartAgentByHand, AgentBeats, Schedule, Rebuild,
       FailOver
  <2>2. host[n].up /\ ~host[n].agent
    BY <1>1, <1>4 DEF Cluster, GoesDown, Outage, ComesUp, StartAgentByHand, AgentBeats, Schedule,
       Rebuild, FailOver, HostState
  <2> QED BY <1>2, <2>1, <2>2
<1>5. CASE Tick \/ UNCHANGED vars
  BY <1>2, <1>5 DEF Tick, vars
<1> QED BY <1>3, <1>4, <1>5 DEF Next

(* Once every command for a node has ended, somebody was told of an agent     *)
(* that was stopped there: as long as a stop is not interrupted, and a host's *)
(* drop not misread, in the way that NodeMaintenanceUnreported shows.         *)
THEOREM StoppedAgentsAreReported == ASSUME ~Silent PROVE Spec => []StoppedAgentReported
<1>1. Init => ToldInv
  BY InitBase DEF Init, ToldInv
<1>2. ToldInv => StoppedAgentReported
  BY DEF ToldInv, StoppedAgentReported, Tells, Active
<1> QED BY <1>1, <1>2, StepKeepsTold, PTL DEF Spec
==============================================================================
