--------------------------- MODULE FleetRebootProofs ---------------------------
(***************************************************************************)
(* Proofs about FleetReboot for any inventory, any command lines and any   *)
(* readings of the fleet.  Decided is about what the plan decided and how  *)
(* far each host is, InStep about a host between the reading of its boot   *)
(* ID and its return, OneDown about the nodes of the cluster, InOrder      *)
(* about the members of a group, Tracked about the marks.                  *)
(***************************************************************************)
EXTENDS FleetReboot, FiniteSetTheorems, TLAPS

-----------------------------------------------------------------------------
(* The invariants *)

RunState == [at : {"idle", "ask", "mark", "unmark", "taint", "groups", "self", "clear",
                   "ended", "killed"},
             opt : Options, last : SUBSET {Self}, todo : SUBSET KNode,
             interrupted : BOOLEAN, marks : BOOLEAN, count : 0 .. MaxRuns]

\* A host's reboot at work, and over.
Working == {"lock", "guard", "bootid", "ready", "check", "runners", "gates", "order", "down",
            "verify"}
Over == {"endturn", "done"}

TargetState == [at : {"wait"} \cup Working \cup Over, skip : BOOLEAN, fail : BOOLEAN,
                guard : {"clear"} \cup {reading.guard : reading \in Readings},
                confirmed : BOOLEAN, rank : Int, runners : BOOLEAN, stopped : BOOLEAN,
                boot : Nat,
                outcome : {"none", "skipped", "failed", "notStarted", "checked", "next",
                           "rebooted"}]

HostState == [up : BOOLEAN, boot : Nat, order : BOOLEAN, runners : BOOLEAN]

\* The type invariant, of the whole state.
Typed ==
    /\ run \in RunState
    /\ target \in [Host -> TargetState]
    /\ host \in [Host -> HostState]
    /\ turn = {} \/ \E h \in KNode : turn = {h}
    /\ marks \subseteq KNode /\ marked \subseteq KNode /\ warned \subseteq Host
    /\ \A h \in Host : Outcome(h) \notin {"none", "next"} => target[h].at \in Over

Running == run.at \in {"groups", "self"}
Planned == run.at # "idle"
Works(h) == target[h].at \in Working
Ordered(h) == host[h].order

\* The hosts that no run reboots: nodes the inventory does not list, and this
\* machine as a node or behind a gate.
Barred(h) == \/ h \in InCluster \ KNode
             \/ h = Self /\ (h \in KNode \/ IsGated(h))

\* What the plan decided, and who is at work because of it.
Decided ==
    /\ run.last \subseteq Selected
    /\ run.at \in {"idle", "ask", "mark", "unmark", "taint"} =>
          \A h \in Host : target[h].at = "wait"
    /\ At("groups") => \A h \in run.last : target[h].at = "wait"
    /\ Planned /\ Self \in Others => target[Self].skip
    /\ \A h \in Host :
          /\ ~ (target[h].skip /\ target[h].fail)
          /\ Planned /\ h \in Selected /\ Barred(h) => target[h].skip \/ target[h].fail
          /\ target[h].at # "wait" => h \in Selected
          /\ Works(h) \/ Ordered(h) => h \in Selected /\ ~ target[h].skip /\ ~ target[h].fail
          /\ target[h].at \in Over /\ target[h].fail => Outcome(h) = "failed"
          /\ target[h].at = "lock" => h \in KNode
          /\ target[h].at = "down" => h # Self
          /\ Ordered(h) => \/ target[h].at = "down"
                           \/ target[h].at \in Over /\ (h = Self \/ Outcome(h) = "failed")

\* From the reading of the boot ID to the reboot command the host stays up on
\* that boot, and so it does until it obeys the command.
InStep ==
    \A h \in Host \ {Self} :
        target[h].at \in {"ready", "check", "runners", "gates", "order"} \/ Ordered(h) =>
            Up(h) /\ host[h].boot = target[h].boot

\* A node of the cluster that is down, or about to be.
Leaves(h) == ~ Up(h) \/ Ordered(h)

\* A node at work has the turn, one past its gates finds every other node up,
\* and one at most is down or about to be.
OneDown ==
    /\ Running => \A h \in KNode : Works(h) /\ target[h].at # "lock" => h \in turn
    /\ Running => \A h \in InCluster : target[h].at = "order" =>
                     \A k \in InCluster \ {h} : ~ Leaves(k)
    /\ \A h, k \in InCluster : Leaves(h) /\ Leaves(k) => h = k

\* The members of a group have places of their own, and one is reached after
\* those before it are done.
OneByOne ==
    /\ Planned => \A h \in Selected : \A k \in Members(h) \ {h} : target[h].rank # target[k].rank
    /\ \A h \in Selected : target[h].at # "wait" =>
          \A k \in Members(h) : target[k].rank < target[h].rank => target[k].at = "done"

\* While one is at work or about to go down, no other of them failed.
NoneFailed ==
    \A h \in Selected : Works(h) \/ Ordered(h) => \A k \in Members(h) \ {h} : ~ Failed(k)

\* From its ready gate on every other host of its group stays up.
GateKept ==
    \A h \in Host \ {Self} :
        IsGated(h) /\ (target[h].at \in {"check", "runners", "gates", "order"} \/ Ordered(h)) =>
            \A k \in Group(h) \ {h} : ~ Leaves(k)

\* This machine goes last, and after no failure.
SelfLast ==
    At("self") \/ Ordered(Self) =>
        Self \in run.last /\ \A k \in Others : target[k].at = "done" /\ ~ Failed(k)

InOrder == OneByOne /\ NoneFailed /\ GateKept /\ SelfLast

\* Every mark is tracked or was named in a warning, and at the end of the run
\* what was tried once more in vain, too.
Tracked ==
    /\ At("ask") => ~ run.marks
    /\ run.marks /\ run.at \in {"unmark", "taint", "groups", "self", "clear", "ended"} =>
          marks \subseteq marked \cup warned
    /\ At("clear") => marked \ run.todo \subseteq warned
    /\ At("ended") /\ run.marks => marks \subseteq warned

-----------------------------------------------------------------------------
(* What a host's step makes of its records *)

\* Host h's records change, and no other's; what was decided for it stays, and
\* so does what only a shutdown changes.
Moves(h) ==
    /\ Running /\ run' = run
    /\ target' \in [Host -> TargetState] /\ host' \in [Host -> HostState]
    /\ \A k \in Host \ {h} : target'[k] = target[k] /\ host'[k] = host[k]
    /\ target'[h].skip = target[h].skip /\ target'[h].fail = target[h].fail
    /\ target'[h].rank = target[h].rank
    /\ host'[h].up = host[h].up /\ host'[h].boot = host[h].boot

\* The places a host passes on one boot, and those behind its ready gate.
Steady == {"ready", "check", "runners", "gates", "order"}
Ready == {"check", "runners", "gates", "order"}

\* It is reached, after the members before it.
Reached(h) ==
    /\ At("groups") /\ h \in Others /\ target[h].at = "wait"
    /\ \A k \in Members(h) : target[k].rank < target[h].rank => target[k].at = "done"
    /\ turn' = turn /\ host'[h].order = host[h].order /\ target'[h].boot = target[h].boot

\* It starts, or is passed over.
Starts(h) ==
    /\ Reached(h)
    /\ ~ target[h].skip /\ ~ target[h].fail /\ \A k \in Members(h) : ~ Failed(k)
    /\ target'[h].at = IF h \in KNode THEN "lock" ELSE "guard"
    /\ Outcome(h)' = Outcome(h)
PassedOver(h) ==
    /\ Reached(h) /\ target'[h].at = "done"
    /\ target[h].skip => Outcome(h)' = "skipped"
    /\ ~ target[h].skip => (Outcome(h)' = "failed" <=> target[h].fail)

\* It takes the turn when it waits for that.
Turns(h) == \/ target[h].at = "lock" /\ turn = {} /\ turn' = {h}
            \/ target[h].at # "lock" /\ turn' = turn

\* It goes on to the next place.
GoesOn(h) ==
    /\ Works(h) /\ Turns(h)
    /\ target'[h].at \in Working \ {"lock"} /\ Outcome(h)' = Outcome(h)
    /\ host'[h].order # host[h].order => target[h].at = "order" /\ target'[h].at = "down"
    /\ target'[h].at \in Steady /\ h # Self =>
          \/ target[h].at \in Steady /\ target'[h].boot = target[h].boot
          \/ target[h].at \notin Steady /\ Up(h) /\ target'[h].boot = host[h].boot
    /\ target'[h].at \in Ready /\ h # Self /\ IsGated(h) =>
          target[h].at \in Ready \/ \A k \in Group(h) \ {h} : Up(k)
    /\ target'[h].at = "order" /\ h \in KNode => \A k \in InCluster \ {h} : ~ Leaves(k)
    /\ target'[h].at = "down" =>
          target[h].at = "order" /\ h # Self /\ target'[h].boot = target[h].boot
    /\ target[h].at = "down" => target'[h].at = "verify"
    /\ target'[h].at = "verify" => target[h].at = "down" /\ host[h].boot # target[h].boot
    /\ target'[h].at \in {"guard", "bootid"} =>
          target[h].at \in {"lock", "guard"} /\ host'[h].order = host[h].order

\* It ends.
Ends(h) ==
    /\ Works(h) /\ Turns(h)
    /\ target'[h].at \in Over /\ Outcome(h)' \notin {"none", "next"}
    /\ target'[h].boot = target[h].boot
    /\ host'[h].order # host[h].order =>
          target[h].at = "order" /\ (h = Self \/ Outcome(h)' = "failed")
    /\ target[h].at = "down" => Outcome(h)' = "failed"

\* Its turn ends.
GivesUpTurn(h) ==
    /\ target[h].at = "endturn" /\ target'[h].at = "done" /\ Outcome(h)' = Outcome(h)
    /\ turn' = turn \ {h} /\ host'[h].order = host[h].order /\ target'[h].boot = target[h].boot

(* A record of its type is what the host's becomes. *)
LEMMA Becoming ==
    ASSUME target \in [Host -> TargetState], NEW h \in Host, NEW r \in TargetState,
           target' = [target EXCEPT ![h] = r]
    PROVE  /\ target' \in [Host -> TargetState] /\ target'[h] = r
           /\ \A k \in Host \ {h} : target'[k] = target[k]
OBVIOUS

(* The same of the host itself. *)
LEMMA HostBecoming ==
    ASSUME host \in [Host -> HostState], NEW h \in Host, NEW s \in HostState,
           host' = [host EXCEPT ![h] = s]
    PROVE  /\ host' \in [Host -> HostState] /\ host'[h] = s
           /\ \A k \in Host \ {h} : host'[k] = host[k]
OBVIOUS

(* A step that goes to another place and leaves the host alone. *)
LEMMA GotoMoves ==
    ASSUME Typed, NEW h \in Host, NEW to \in {"wait"} \cup Working \cup Over,
           Running, Goto(h, to), UNCHANGED <<run, host>>
    PROVE  /\ Moves(h) /\ target'[h].at = to /\ Outcome(h)' = Outcome(h)
           /\ target'[h].boot = target[h].boot /\ host'[h].order = host[h].order
<1> DEFINE r == [target[h] EXCEPT !.at = to]
<1>1. target[h] \in TargetState /\ host' \in [Host -> HostState]
  BY DEF Typed
<1>2. r \in TargetState
  BY <1>1 DEF TargetState
<1>3. /\ r.at = to /\ r.outcome = target[h].outcome /\ r.boot = target[h].boot
      /\ r.skip = target[h].skip /\ r.fail = target[h].fail /\ r.rank = target[h].rank
  BY <1>1 DEF TargetState
<1>4. target' = [target EXCEPT ![h] = r]
  BY DEF Goto
<1> HIDE DEF r
<1>5. /\ target' \in [Host -> TargetState] /\ target'[h] = r
      /\ \A k \in Host \ {h} : target'[k] = target[k]
  BY <1>2, <1>4, Becoming DEF Typed
<1> QED
  BY <1>1, <1>3, <1>5 DEF Moves, Outcome

(* The end of a host's reboot, whatever becomes of its runner units. *)
LEMMA FinishMoves ==
    ASSUME Typed, NEW h \in Host, NEW outcome \in {"skipped", "failed", "checked", "rebooted"},
           Running, run' = run, target' = Finish(h, outcome),
           host' \in [Host -> HostState],
           \A k \in Host \ {h} : host'[k] = host[k],
           host'[h].up = host[h].up, host'[h].boot = host[h].boot
    PROVE  /\ Moves(h) /\ target'[h].at \in Over /\ Outcome(h)' = outcome
           /\ target'[h].boot = target[h].boot
<1> DEFINE r == [target[h] EXCEPT !.at = IF h \in turn THEN "endturn" ELSE "done",
                                  !.outcome = outcome]
<1>1. target[h] \in TargetState
  BY DEF Typed
<1>2. r \in TargetState
  BY <1>1 DEF TargetState, Over
<1>3. /\ r.at \in Over /\ r.outcome = outcome /\ r.boot = target[h].boot
      /\ r.skip = target[h].skip /\ r.fail = target[h].fail /\ r.rank = target[h].rank
  BY <1>1 DEF TargetState, Over
<1>4. target' = [target EXCEPT ![h] = r]
  BY <1>1 DEF Finish, Typed, TargetState
<1> HIDE DEF r
<1>5. /\ target' \in [Host -> TargetState] /\ target'[h] = r
      /\ \A k \in Host \ {h} : target'[k] = target[k]
  BY <1>2, <1>4, Becoming DEF Typed
<1> QED
  BY <1>3, <1>5 DEF Moves, Outcome

(* It fails as it is. *)
LEMMA FailMoves ==
    ASSUME Typed, NEW h \in Host, Running, Works(h), target[h].at # "lock", Fail(h)
    PROVE  Moves(h) /\ Ends(h)
<1>1. /\ target' = Finish(h, "failed") /\ host' = host /\ host \in [Host -> HostState]
      /\ run' = run /\ turn' = turn
  BY DEF Fail, Typed
<1>2. /\ Moves(h) /\ target'[h].at \in Over /\ Outcome(h)' = "failed"
      /\ target'[h].boot = target[h].boot
  BY <1>1, FinishMoves
<1> QED
  BY <1>1, <1>2 DEF Ends, Turns

(* Its units are started again, or not. *)
LEMMA RunnersChange ==
    ASSUME Typed, NEW h \in Host, NEW on \in BOOLEAN,
           host' = [host EXCEPT ![h].runners = on]
    PROVE  /\ host' \in [Host -> HostState]
           /\ \A k \in Host \ {h} : host'[k] = host[k]
           /\ host'[h].up = host[h].up /\ host'[h].boot = host[h].boot
           /\ host'[h].order = host[h].order
<1> DEFINE s == [host[h] EXCEPT !.runners = on]
<1>1. host[h] \in HostState
  BY DEF Typed
<1>2. /\ s \in HostState /\ s.up = host[h].up /\ s.boot = host[h].boot
      /\ s.order = host[h].order
  BY <1>1 DEF HostState
<1>3. host' = [host EXCEPT ![h] = s]
  OBVIOUS
<1> HIDE DEF s
<1> QED
  BY <1>2, <1>3, HostBecoming DEF Typed

(* The host is taken to stay up. *)
LEMMA StaysUpMoves ==
    ASSUME Typed, NEW h \in Host, NEW outcome \in {"skipped", "failed"}, Running,
           StaysUp(h, outcome)
    PROVE  /\ Moves(h) /\ target'[h].at \in Over /\ Outcome(h)' = outcome /\ turn' = turn
           /\ target'[h].boot = target[h].boot /\ host'[h].order = host[h].order
<1>1. PICK ok \in BOOLEAN :
            host' = [host EXCEPT ![h].runners = @ \/ (target[h].stopped /\ ok)]
  BY DEF StaysUp
<1> DEFINE on == host[h].runners \/ (target[h].stopped /\ ok)
<1>2. on \in BOOLEAN /\ host' = [host EXCEPT ![h].runners = on]
  BY <1>1
<1> HIDE DEF on
<1>3. target' = Finish(h, outcome) /\ run' = run /\ turn' = turn
  BY DEF StaysUp
<1> QED
  BY <1>2, <1>3, RunnersChange, FinishMoves

(* A node's reboot that failed. *)
LEMMA NodeFailsMoves ==
    ASSUME Typed, NEW h \in Host, Running, Works(h), target[h].at # "lock", NodeFails(h)
    PROVE  Moves(h) /\ Ends(h) /\ Outcome(h)' = "failed" /\ host'[h].order = host[h].order
<1>1. CASE StaysUp(h, "failed")
  BY <1>1, StaysUpMoves DEF Ends, Turns
<1>2. CASE Fail(h)
  <2>1. target' = Finish(h, "failed") /\ host' = host /\ host \in [Host -> HostState] /\ run' = run
    BY <1>2 DEF Fail, Typed
  <2>2. Outcome(h)' = "failed"
    BY <2>1, FinishMoves
  <2> QED
    BY <1>2, <2>1, <2>2, FailMoves
<1> QED
  BY <1>1, <1>2 DEF NodeFails

-----------------------------------------------------------------------------
(* What each step of a host does *)

\* One of these, and nothing else.
Turn(h) ==
    /\ Moves(h)
    /\ Starts(h) \/ PassedOver(h) \/ GoesOn(h) \/ Ends(h) \/ GivesUpTurn(h)

(* runGroup starts a member or passes it over. *)
LEMMA ReachTurns ==
    ASSUME Typed, NEW h \in Host, Reach(h)
    PROVE  Turn(h)
<1> DEFINE end(outcome) == target' = [target EXCEPT ![h].at = "done", ![h].outcome = outcome]
           start == IF h \in KNode THEN "lock" ELSE "guard"
<1>1. /\ target[h] \in TargetState /\ host \in [Host -> HostState] /\ Running
      /\ UNCHANGED <<run, turn, host>>
  BY DEF Typed, Reach, Running, At
<1>2. /\ At("groups") /\ h \in Others /\ target[h].at = "wait"
      /\ \A k \in Members(h) : target[k].rank < target[h].rank => target[k].at = "done"
  BY DEF Reach
<1>3. ASSUME NEW outcome \in {"skipped", "failed", "notStarted"}, end(outcome),
             target[h].skip => outcome = "skipped",
             ~ target[h].skip => (outcome = "failed" <=> target[h].fail)
      PROVE  Turn(h)
  <2> DEFINE r == [target[h] EXCEPT !.at = "done", !.outcome = outcome]
  <2>1. r \in TargetState
    BY <1>1 DEF TargetState, Over
  <2>2. /\ r.at = "done" /\ r.outcome = outcome /\ r.boot = target[h].boot
        /\ r.skip = target[h].skip /\ r.fail = target[h].fail /\ r.rank = target[h].rank
    BY <1>1 DEF TargetState
  <2>3. target' = [target EXCEPT ![h] = r]
    BY <1>3
  <2> HIDE DEF r
  <2>4. /\ target' \in [Host -> TargetState] /\ target'[h] = r
        /\ \A k \in Host \ {h} : target'[k] = target[k]
    BY <2>1, <2>3, Becoming DEF Typed
  <2>5. Moves(h)
    BY <1>1, <2>2, <2>4 DEF Moves
  <2>6. PassedOver(h)
    BY <1>1, <1>2, <1>3, <2>2, <2>4 DEF PassedOver, Reached, Outcome
  <2> QED
    BY <2>5, <2>6 DEF Turn
<1>4. ASSUME ~ target[h].skip, ~ target[h].fail, \A k \in Members(h) : ~ Failed(k),
             Goto(h, start)
      PROVE  Turn(h)
  <2>1. start \in {"wait"} \cup Working \cup Over
    BY DEF Working
  <2>2. /\ Moves(h) /\ target'[h].at = start /\ Outcome(h)' = Outcome(h)
        /\ target'[h].boot = target[h].boot /\ host'[h].order = host[h].order
    BY <1>1, <1>4, <2>1, GotoMoves
  <2>3. Starts(h)
    BY <1>1, <1>2, <1>4, <2>2 DEF Starts, Reached
  <2> QED
    BY <2>2, <2>3 DEF Turn
<1>5. \/ target[h].skip /\ end("skipped")
      \/ ~ target[h].skip /\ target[h].fail /\ end("failed")
      \/ ~ target[h].skip /\ ~ target[h].fail /\ end("notStarted")
      \/ /\ ~ target[h].skip /\ ~ target[h].fail /\ \A k \in Members(h) : ~ Failed(k)
         /\ Goto(h, start)
  BY DEF Reach
<1> HIDE DEF end, start
<1> QED
  BY <1>3, <1>4, <1>5

(* The turn is taken, and a run interrupted meanwhile ends there. *)
LEMMA TakeTurnTurns ==
    ASSUME Typed, NEW h \in Host, TakeTurn(h)
    PROVE  Turn(h)
<1>1. /\ Running /\ target[h].at = "lock" /\ turn = {} /\ turn' = {h} /\ Works(h)
      /\ UNCHANGED <<run, host>> /\ target[h] \in TargetState /\ host \in [Host -> HostState]
  BY DEF TakeTurn, Step, Running, Works, Working, Typed
<1>2. CASE run.interrupted
  <2> DEFINE r == [target[h] EXCEPT !.at = "endturn", !.outcome = "failed"]
  <2>1. r \in TargetState
    BY <1>1 DEF TargetState, Over
  <2>2. /\ r.at = "endturn" /\ r.outcome = "failed" /\ r.boot = target[h].boot
        /\ r.skip = target[h].skip /\ r.fail = target[h].fail /\ r.rank = target[h].rank
    BY <1>1 DEF TargetState
  <2>3. target' = [target EXCEPT ![h] = r]
    BY <1>2 DEF TakeTurn
  <2> HIDE DEF r
  <2>4. /\ target' \in [Host -> TargetState] /\ target'[h] = r
        /\ \A k \in Host \ {h} : target'[k] = target[k]
    BY <2>1, <2>3, Becoming DEF Typed
  <2>5. Moves(h)
    BY <1>1, <2>2, <2>4 DEF Moves
  <2>6. Ends(h)
    BY <1>1, <2>2, <2>4 DEF Ends, Turns, Over, Outcome
  <2> QED
    BY <2>5, <2>6 DEF Turn
<1>3. CASE ~ run.interrupted
  <2>1. Goto(h, "guard") /\ "guard" \in Working
    BY <1>3 DEF TakeTurn, Goto, Working
  <2>2. /\ Moves(h) /\ target'[h].at = "guard" /\ Outcome(h)' = Outcome(h)
        /\ target'[h].boot = target[h].boot /\ host'[h].order = host[h].order
    BY <1>1, <2>1, GotoMoves
  <2>3. GoesOn(h)
    BY <1>1, <2>2 DEF GoesOn, Turns, Working, Steady, Ready
  <2> QED
    BY <2>2, <2>3 DEF Turn
<1> QED
  BY <1>2, <1>3

(* A node's turn ends. *)
LEMMA EndTurnTurns ==
    ASSUME Typed, NEW h \in Host, EndTurn(h)
    PROVE  Turn(h)
<1>1. /\ Running /\ target[h].at = "endturn" /\ turn' = turn \ {h} /\ Goto(h, "done")
      /\ UNCHANGED <<run, host>> /\ "done" \in Over
  BY DEF EndTurn, Step, Running, Over
<1>2. /\ Moves(h) /\ target'[h].at = "done" /\ Outcome(h)' = Outcome(h)
      /\ target'[h].boot = target[h].boot /\ host'[h].order = host[h].order
  BY <1>1, GotoMoves
<1> QED
  BY <1>1, <1>2 DEF Turn, GivesUpTurn

(* The guard lets the host go on or skips it. *)
LEMMA GuardTurns ==
    ASSUME Typed, NEW h \in Host, Guard(h)
    PROVE  Turn(h)
<1> DEFINE next == IF h = Self THEN "runners" ELSE "bootid"
<1>1. /\ Running /\ target[h].at = "guard" /\ Works(h)
      /\ UNCHANGED <<run, turn, host>> /\ host \in [Host -> HostState]
      /\ Goto(h, next) \/ target' = Finish(h, "skipped")
  BY DEF Guard, Step, Running, Works, Working, Typed
<1>2. CASE Goto(h, next)
  <2>1. next \in Working
    BY DEF Working
  <2>2. /\ Moves(h) /\ target'[h].at = next /\ Outcome(h)' = Outcome(h)
        /\ target'[h].boot = target[h].boot /\ host'[h].order = host[h].order
    BY <1>1, <1>2, <2>1, GotoMoves
  <2>3. GoesOn(h)
    BY <1>1, <2>2 DEF GoesOn, Turns, Working, Steady, Ready
  <2> QED
    BY <2>2, <2>3 DEF Turn
<1>3. CASE target' = Finish(h, "skipped")
  <2>1. /\ Moves(h) /\ target'[h].at \in Over /\ Outcome(h)' = "skipped"
        /\ target'[h].boot = target[h].boot
    BY <1>1, <1>3, FinishMoves
  <2>2. Ends(h)
    BY <1>1, <2>1 DEF Ends, Turns
  <2> QED
    BY <2>1, <2>2 DEF Turn
<1> HIDE DEF next
<1> QED
  BY <1>1, <1>2, <1>3

(* The boot ID is that of the host as it is up. *)
LEMMA ReadBootIDTurns ==
    ASSUME Typed, NEW h \in Host, ReadBootID(h)
    PROVE  Turn(h)
<1>1. /\ Running /\ target[h].at = "bootid" /\ Works(h) /\ target[h] \in TargetState
      /\ host \in [Host -> HostState] /\ host[h] \in HostState
  BY DEF ReadBootID, Step, Running, Works, Working, Typed
<1>2. CASE Fail(h)
  BY <1>1, <1>2, FailMoves DEF Turn
<1>3. CASE /\ Up(h) /\ UNCHANGED <<run, turn, host>>
           /\ target' = [target EXCEPT ![h].at = "ready", ![h].boot = host[h].boot]
  <2> DEFINE r == [target[h] EXCEPT !.at = "ready", !.boot = host[h].boot]
  <2>1. r \in TargetState
    BY <1>1 DEF TargetState, Working, HostState
  <2>2. /\ r.at = "ready" /\ r.outcome = target[h].outcome /\ r.boot = host[h].boot
        /\ r.skip = target[h].skip /\ r.fail = target[h].fail /\ r.rank = target[h].rank
    BY <1>1 DEF TargetState
  <2>3. target' = [target EXCEPT ![h] = r]
    BY <1>3
  <2> HIDE DEF r
  <2>4. /\ target' \in [Host -> TargetState] /\ target'[h] = r
        /\ \A k \in Host \ {h} : target'[k] = target[k]
    BY <2>1, <2>3, Becoming DEF Typed
  <2>5. Moves(h)
    BY <1>1, <1>3, <2>2, <2>4 DEF Moves
  <2>6. GoesOn(h)
    BY <1>1, <1>3, <2>2, <2>4 DEF GoesOn, Turns, Working, Outcome, Steady, Ready
  <2> QED
    BY <2>5, <2>6 DEF Turn
<1> QED
  BY <1>2, <1>3 DEF ReadBootID

(* A gated host passes only while the others of its group are up. *)
LEMMA PassReadyGateTurns ==
    ASSUME Typed, NEW h \in Host, PassReadyGate(h)
    PROVE  Turn(h)
<1> DEFINE next == IF run.opt.check THEN "check" ELSE "runners"
<1>1. /\ Running /\ target[h].at = "ready" /\ Works(h)
  BY DEF PassReadyGate, Step, Running, Works, Working
<1>2. CASE Fail(h)
  BY <1>1, <1>2, FailMoves DEF Turn
<1>3. CASE /\ IsGated(h) => \A k \in Group(h) \ {h} : Up(k)
           /\ Goto(h, next) /\ UNCHANGED <<run, turn, host>>
  <2>1. next \in Working
    BY DEF Working
  <2>2. /\ Moves(h) /\ target'[h].at = next /\ Outcome(h)' = Outcome(h)
        /\ target'[h].boot = target[h].boot /\ host'[h].order = host[h].order
    BY <1>1, <1>3, <2>1, GotoMoves
  <2>3. GoesOn(h)
    BY <1>1, <1>3, <2>2 DEF GoesOn, Turns, Working, Steady, Ready
  <2> QED
    BY <2>2, <2>3 DEF Turn
<1> QED
  BY <1>2, <1>3 DEF PassReadyGate, IsGated

(* A check ends there. *)
LEMMA CheckTurns ==
    ASSUME Typed, NEW h \in Host, Check(h)
    PROVE  Turn(h)
<1>1. /\ Running /\ target[h].at \in {"check", "runners"} /\ Works(h)
      /\ host \in [Host -> HostState]
  BY DEF Check, Step, Running, Works, Working, Typed
<1>2. CASE Fail(h)
  BY <1>1, <1>2, FailMoves DEF Turn
<1>3. CASE target' = Finish(h, "checked") /\ UNCHANGED <<run, turn, host>>
  <2>1. /\ Moves(h) /\ target'[h].at \in Over /\ Outcome(h)' = "checked"
        /\ target'[h].boot = target[h].boot
    BY <1>1, <1>3, FinishMoves
  <2>2. Ends(h)
    BY <1>1, <1>3, <2>1 DEF Ends, Turns
  <2> QED
    BY <2>1, <2>2 DEF Turn
<1> QED
  BY <1>2, <1>3 DEF Check

(* Its runner units are stopped, or it fails with some of them stopped. *)
LEMMA StopRunnersTurns ==
    ASSUME Typed, NEW h \in Host, StopRunners(h)
    PROVE  Turn(h)
<1> DEFINE next == IF h \in KNode THEN "gates" ELSE "order"
           off == host[h].runners /\ ~ target[h].runners
<1>1. /\ Running /\ target[h].at = "runners" /\ Works(h) /\ target[h] \in TargetState
      /\ UNCHANGED <<run, turn>>
  BY DEF StopRunners, Step, Running, Works, Working, Typed
<1>2. CASE /\ target' = [target EXCEPT ![h].stopped = @ \/ target[h].runners, ![h].at = next]
           /\ host' = [host EXCEPT ![h].runners = off]
  <2> DEFINE r == [target[h] EXCEPT !.stopped = target[h].stopped \/ target[h].runners,
                                    !.at = next]
  <2>0. next \in Working /\ target[h] \in TargetState
    BY <1>1 DEF Working
  <2> HIDE DEF next
  <2>1. r \in TargetState
    BY <2>0 DEF TargetState
  <2>2. /\ r.at = next /\ r.outcome = target[h].outcome /\ r.boot = target[h].boot
        /\ r.skip = target[h].skip /\ r.fail = target[h].fail /\ r.rank = target[h].rank
    BY <2>0 DEF TargetState
  <2> USE DEF next
  <2>3. target' = [target EXCEPT ![h] = r]
    BY <1>2
  <2> HIDE DEF r
  <2>4. /\ target' \in [Host -> TargetState] /\ target'[h] = r
        /\ \A k \in Host \ {h} : target'[k] = target[k]
    BY <2>1, <2>3, Becoming DEF Typed
  <2>5. off \in BOOLEAN
    OBVIOUS
  <2> HIDE DEF off
  <2>6. /\ host' \in [Host -> HostState]
        /\ \A k \in Host \ {h} : host'[k] = host[k]
        /\ host'[h].up = host[h].up /\ host'[h].boot = host[h].boot
        /\ host'[h].order = host[h].order
    BY <1>2, <2>5, RunnersChange
  <2>7. Moves(h)
    BY <1>1, <2>2, <2>4, <2>6 DEF Moves
  <2>8. GoesOn(h)
    BY <1>1, <2>2, <2>4, <2>6 DEF GoesOn, Turns, Working, Outcome, Steady, Ready
  <2> QED
    BY <2>7, <2>8 DEF Turn
<1>3. CASE /\ target' = Finish(h, "failed")
           /\ \E on \in BOOLEAN :
                host' = [host EXCEPT ![h].runners = @ /\ (on \/ ~ target[h].runners)]
  <2>1. PICK on \in BOOLEAN :
               host' = [host EXCEPT ![h].runners = @ /\ (on \/ ~ target[h].runners)]
    BY <1>3
  <2> DEFINE still == host[h].runners /\ (on \/ ~ target[h].runners)
  <2>2. still \in BOOLEAN /\ host' = [host EXCEPT ![h].runners = still]
    BY <2>1
  <2> HIDE DEF still
  <2>3. /\ host' \in [Host -> HostState]
        /\ \A k \in Host \ {h} : host'[k] = host[k]
        /\ host'[h].up = host[h].up /\ host'[h].boot = host[h].boot
        /\ host'[h].order = host[h].order
    BY <2>2, RunnersChange
  <2>4. /\ Moves(h) /\ target'[h].at \in Over /\ Outcome(h)' = "failed"
        /\ target'[h].boot = target[h].boot
    BY <1>1, <1>3, <2>3, FinishMoves
  <2>5. Ends(h)
    BY <1>1, <2>3, <2>4 DEF Ends, Turns
  <2> QED
    BY <2>4, <2>5 DEF Turn
<1> QED
  BY <1>2, <1>3 DEF StopRunners

(* A node passes its gates only while every other one is up. *)
LEMMA NodeGatesTurns ==
    ASSUME Typed, NEW h \in Host, NodeGates(h)
    PROVE  Turn(h)
<1>1. Running /\ target[h].at = "gates" /\ Works(h)
  BY DEF NodeGates, Step, Running, Works, Working
<1>2. CASE NodeFails(h)
  BY <1>1, <1>2, NodeFailsMoves DEF Turn
<1>3. CASE StaysUp(h, "skipped")
  BY <1>1, <1>3, StaysUpMoves DEF Turn, Ends, Turns
<1>4. CASE /\ \A k \in InCluster \ {h} : Up(k) /\ ~ host[k].order
           /\ Goto(h, "order") /\ UNCHANGED <<run, turn, host>>
  <2>1. "order" \in Working
    BY DEF Working
  <2>2. /\ Moves(h) /\ target'[h].at = "order" /\ Outcome(h)' = Outcome(h)
        /\ target'[h].boot = target[h].boot /\ host'[h].order = host[h].order
    BY <1>1, <1>4, <2>1, GotoMoves
  <2>3. GoesOn(h)
    BY <1>1, <1>4, <2>2 DEF GoesOn, Turns, Working, Steady, Ready, Leaves, Ordered
  <2> QED
    BY <2>2, <2>3 DEF Turn
<1> QED
  BY <1>2, <1>3, <1>4 DEF NodeGates

(* A host may have accepted the command, and a runner unit be on again. *)
LEMMA OrderChange ==
    ASSUME Typed, NEW h \in Host, NEW order \in BOOLEAN, NEW on \in BOOLEAN,
           host' = [host EXCEPT ![h].order = order, ![h].runners = on]
    PROVE  /\ host' \in [Host -> HostState]
           /\ \A k \in Host \ {h} : host'[k] = host[k]
           /\ host'[h].up = host[h].up /\ host'[h].boot = host[h].boot
<1> DEFINE s == [host[h] EXCEPT !.order = order, !.runners = on]
<1>1. host[h] \in HostState
  BY DEF Typed
<1>2. s \in HostState /\ s.up = host[h].up /\ s.boot = host[h].boot
  BY <1>1 DEF HostState
<1>3. host' = [host EXCEPT ![h] = s]
  BY <1>1 DEF HostState, Typed
<1> HIDE DEF s
<1> QED
  BY <1>2, <1>3, HostBecoming DEF Typed

(* The reboot command, of whatever outcome. *)
LEMMA OrderRebootTurns ==
    ASSUME Typed, NEW h \in Host, OrderReboot(h)
    PROVE  Turn(h)
<1>1. /\ Running /\ target[h].at = "order" /\ Works(h)
      /\ host[h] \in HostState /\ target[h] \in TargetState
  BY DEF OrderReboot, Step, Running, Works, Working, Typed
<1>2. ASSUME NEW arrives \in BOOLEAN, host' = [host EXCEPT ![h].order = arrives]
      PROVE  /\ host' \in [Host -> HostState]
             /\ \A k \in Host \ {h} : host'[k] = host[k]
             /\ host'[h].up = host[h].up /\ host'[h].boot = host[h].boot
  <2> DEFINE s == [host[h] EXCEPT !.order = arrives]
  <2>1. s \in HostState /\ s.up = host[h].up /\ s.boot = host[h].boot
    BY <1>1 DEF HostState
  <2>2. host' = [host EXCEPT ![h] = s]
    BY <1>2
  <2> HIDE DEF s
  <2> QED
    BY <2>1, <2>2, HostBecoming DEF Typed
<1>3. CASE /\ h # Self /\ target' = [target EXCEPT ![h].at = "down"]
           /\ \E arrives \in BOOLEAN : host' = [host EXCEPT ![h].order = arrives]
           /\ UNCHANGED <<run, turn>>
  <2> DEFINE r == [target[h] EXCEPT !.at = "down"]
  <2>1. /\ r \in TargetState /\ r.at = "down" /\ r.outcome = target[h].outcome
        /\ r.boot = target[h].boot
        /\ r.skip = target[h].skip /\ r.fail = target[h].fail /\ r.rank = target[h].rank
    BY <1>1 DEF TargetState, Working
  <2>2. target' = [target EXCEPT ![h] = r]
    BY <1>3
  <2> HIDE DEF r
  <2>3. /\ target' \in [Host -> TargetState] /\ target'[h] = r
        /\ \A k \in Host \ {h} : target'[k] = target[k]
    BY <2>1, <2>2, Becoming DEF Typed
  <2>4. Moves(h)
    BY <1>1, <1>2, <1>3, <2>1, <2>3 DEF Moves
  <2>5. GoesOn(h)
    BY <1>1, <1>3, <2>1, <2>3 DEF GoesOn, Turns, Working, Outcome, Steady, Ready
  <2> QED
    BY <2>4, <2>5 DEF Turn
<1>4. CASE /\ h = Self /\ target' = Finish(h, "rebooted")
           /\ host' = [host EXCEPT ![h].order = TRUE] /\ UNCHANGED <<run, turn>>
  <2>1. /\ Moves(h) /\ target'[h].at \in Over /\ Outcome(h)' = "rebooted"
        /\ target'[h].boot = target[h].boot
    BY <1>1, <1>2, <1>4, FinishMoves
  <2>2. Ends(h)
    BY <1>1, <1>4, <2>1 DEF Ends, Turns
  <2> QED
    BY <2>1, <2>2 DEF Turn
<1>5. CASE NodeFails(h)
  BY <1>1, <1>5, NodeFailsMoves DEF Turn
<1>6. CASE StaysUp(h, "failed")
  BY <1>1, <1>6, StaysUpMoves DEF Turn, Ends, Turns
<1>7. CASE /\ \E restart \in BOOLEAN :
                host' = [host EXCEPT ![h].order = TRUE,
                                     ![h].runners = @ \/ (target[h].stopped /\ restart)]
           /\ target' = Finish(h, "failed") /\ UNCHANGED <<run, turn>>
  <2>1. PICK restart \in BOOLEAN :
               host' = [host EXCEPT ![h].order = TRUE,
                                    ![h].runners = @ \/ (target[h].stopped /\ restart)]
    BY <1>7
  <2> DEFINE on == host[h].runners \/ (target[h].stopped /\ restart)
  <2>2. on \in BOOLEAN /\ host' = [host EXCEPT ![h].order = TRUE, ![h].runners = on]
    BY <2>1
  <2> HIDE DEF on
  <2>3. /\ host' \in [Host -> HostState]
        /\ \A k \in Host \ {h} : host'[k] = host[k]
        /\ host'[h].up = host[h].up /\ host'[h].boot = host[h].boot
    BY <2>2, OrderChange
  <2>4. /\ Moves(h) /\ target'[h].at \in Over /\ Outcome(h)' = "failed"
        /\ target'[h].boot = target[h].boot
    BY <1>1, <1>7, <2>3, FinishMoves
  <2>5. Ends(h)
    BY <1>1, <1>7, <2>4 DEF Ends, Turns
  <2> QED
    BY <2>4, <2>5 DEF Turn
<1> QED
  BY <1>3, <1>4, <1>5, <1>6, <1>7 DEF OrderReboot

(* Only a new boot ID ends the wait well. *)
LEMMA AwaitReturnTurns ==
    ASSUME Typed, NEW h \in Host, AwaitReturn(h)
    PROVE  Turn(h)
<1>1. Running /\ target[h].at = "down" /\ Works(h)
  BY DEF AwaitReturn, Step, Running, Works, Working
<1>2. CASE NodeFails(h)
  BY <1>1, <1>2, NodeFailsMoves DEF Turn
<1>3. CASE /\ Up(h) /\ host[h].boot # target[h].boot
           /\ Goto(h, "verify") /\ UNCHANGED <<run, turn, host>>
  <2>1. "verify" \in Working
    BY DEF Working
  <2>2. /\ Moves(h) /\ target'[h].at = "verify" /\ Outcome(h)' = Outcome(h)
        /\ target'[h].boot = target[h].boot /\ host'[h].order = host[h].order
    BY <1>1, <1>3, <2>1, GotoMoves
  <2>3. GoesOn(h)
    BY <1>1, <1>3, <2>2 DEF GoesOn, Turns, Working, Steady, Ready
  <2> QED
    BY <2>2, <2>3 DEF Turn
<1> QED
  BY <1>2, <1>3 DEF AwaitReturn

(* The checks after the return end the reboot. *)
LEMMA VerifyTurns ==
    ASSUME Typed, NEW h \in Host, Verify(h)
    PROVE  Turn(h)
<1>1. /\ Running /\ target[h].at = "verify" /\ Works(h) /\ host \in [Host -> HostState]
  BY DEF Verify, Step, Running, Works, Working, Typed
<1>2. CASE Fail(h)
  BY <1>1, <1>2, FailMoves DEF Turn
<1>3. CASE target' = Finish(h, "rebooted") /\ UNCHANGED <<run, turn, host>>
  <2>1. /\ Moves(h) /\ target'[h].at \in Over /\ Outcome(h)' = "rebooted"
        /\ target'[h].boot = target[h].boot
    BY <1>1, <1>3, FinishMoves
  <2>2. Ends(h)
    BY <1>1, <1>3, <2>1 DEF Ends, Turns
  <2> QED
    BY <2>1, <2>2 DEF Turn
<1> QED
  BY <1>2, <1>3 DEF Verify

(* Every step of a host is such a turn. *)
LEMMA HostStepTurns ==
    ASSUME Typed, NEW h \in Host, HostStep(h)
    PROVE  Turn(h)
BY ReachTurns, TakeTurnTurns, EndTurnTurns, GuardTurns, ReadBootIDTurns, PassReadyGateTurns,
   CheckTurns, StopRunnersTurns, NodeGatesTurns, OrderRebootTurns, AwaitReturnTurns, VerifyTurns
   DEF HostStep

-----------------------------------------------------------------------------
(* The places in a group *)

(* A host is in its group, whose members all have that group and its gate. *)
LEMMA GroupFacts ==
    ASSUME Inventory, NEW h \in Host
    PROVE  /\ h \in Group(h) /\ Group(h) \subseteq Host
           /\ \A k \in Group(h) : Group(k) = Group(h) /\ (IsGated(h) => IsGated(k))
<1>1. h \in Group(h)
  BY DEF Group
<1>2. Serial \subseteq SUBSET Host /\ Gated \subseteq Serial
  BY DEF Inventory
<1>3. \A g, s \in Serial, k \in Host : k \in g /\ k \in s => g = s
  BY DEF Inventory
<1>4. CASE \E g \in Serial : h \in g
  <2>1. PICK g \in Serial : h \in g
    BY <1>4
  <2>2. \A k \in g : {s \in Serial : k \in s} = {g}
    BY <1>2, <1>3, <2>1
  <2>3. \A k \in g : Group(k) = g
    <3>1. \A k \in g : UNION {s \in Serial : k \in s} = g
      BY <2>2
    <3> QED
      BY <3>1 DEF Group
  <2>4. IsGated(h) => g \in Gated
    BY <1>2, <2>1, <2>2 DEF IsGated
  <2> QED
    BY <1>1, <1>2, <2>1, <2>3, <2>4 DEF IsGated
<1>5. CASE ~ \E g \in Serial : h \in g
  <2>1. {g \in Serial : h \in g} = {}
    BY <1>5
  <2>2. UNION {g \in Serial : h \in g} = {}
    BY <2>1
  <2>3. Group(h) = {h}
    BY <2>2 DEF Group
  <2> QED
    BY <2>3
<1> QED
  BY <1>4, <1>5

\* How many of S are before x in the order R.
Count(S, R) == [x \in S |-> Cardinality({y \in S : <<y, x>> \in R})]

(* In a strict order of all of S the elements have the counts from 0 on, each *)
(* its own, in that order.                                                    *)
LEMMA Counting ==
    ASSUME NEW S, IsFiniteSet(S), NEW R,
           \A x \in S : <<x, x>> \notin R,
           \A x, y, z \in S : <<x, y>> \in R /\ <<y, z>> \in R => <<x, z>> \in R,
           \A x, y \in S : x # y => <<x, y>> \in R \/ <<y, x>> \in R
    PROVE  /\ Count(S, R) \in [S -> 0 .. Cardinality(S) - 1]
           /\ \A x, y \in S : <<x, y>> \in R => Count(S, R)[x] < Count(S, R)[y]
           /\ \A i \in 0 .. Cardinality(S) - 1 : \E x \in S : Count(S, R)[x] = i
<1> DEFINE n == Cardinality(S)
           c == Count(S, R)
           B(x) == {y \in S : <<y, x>> \in R}
<1>1. n \in Nat
  BY FS_CardinalityType
<1>2. \A x \in S : c[x] = Cardinality(B(x))
  BY DEF Count
<1>3. ASSUME NEW x \in S
      PROVE  IsFiniteSet(B(x)) /\ c[x] \in 0 .. n - 1
  <2>1. B(x) \in SUBSET S /\ B(x) # S
    OBVIOUS
  <2> HIDE DEF B
  <2>2. IsFiniteSet(B(x)) /\ Cardinality(B(x)) <= n /\ Cardinality(B(x)) # n
    BY <2>1, FS_Subset
  <2>3. Cardinality(B(x)) \in Nat
    BY <2>2, FS_CardinalityType
  <2> QED
    BY <1>1, <1>2, <2>2, <2>3
<1>4. c \in [S -> 0 .. n - 1]
  BY <1>3 DEF Count
<1>5. ASSUME NEW x \in S, NEW y \in S, <<x, y>> \in R
      PROVE  c[x] < c[y]
  <2>1. B(x) \in SUBSET B(y) /\ B(x) # B(y)
    BY <1>5
  <2>2. IsFiniteSet(B(x)) /\ IsFiniteSet(B(y)) /\ c[x] \in Int /\ c[y] \in Int
    BY <1>3
  <2> HIDE DEF B
  <2>3. Cardinality(B(x)) <= Cardinality(B(y)) /\ Cardinality(B(x)) # Cardinality(B(y))
    BY <2>1, <2>2, FS_Subset
  <2> QED
    BY <1>2, <2>2, <2>3
<1> HIDE DEF B, c
<1>6. c \in Injection(S, 0 .. n - 1)
  <2>1. ASSUME NEW x \in S, NEW y \in S, c[x] = c[y]
        PROVE  x = y
    <3>1. c[x] \in Int /\ ~ (c[x] < c[y]) /\ ~ (c[y] < c[x])
      BY <1>1, <1>4, <2>1
    <3> QED
      BY <1>5, <3>1
  <2> QED
    BY <1>4, <2>1 DEF Injection, IsInjective
<1>7. IsFiniteSet(0 .. n - 1) /\ Cardinality(0 .. n - 1) = n
  <2>1. 0 \in Int /\ n - 1 \in Int
    BY <1>1
  <2>2. /\ IsFiniteSet(0 .. n - 1)
        /\ Cardinality(0 .. n - 1) = IF 0 > n - 1 THEN 0 ELSE n - 1 - 0 + 1
    BY <2>1, FS_Interval
  <2> QED
    BY <1>1, <2>2
<1>8. c \in Surjection(S, 0 .. n - 1)
  BY <1>6, <1>7, FS_Injection
<1> QED
  BY <1>4, <1>5, <1>8 DEF Surjection, c

\* What Ranks chooses.
IsRanking(r, group, going, moves) ==
    /\ r \in [group -> {Place[h] : h \in group}]
    /\ \A h \in group \ going : r[h] = Place[h]
    /\ \A h, k \in group : h # k => r[h] # r[k]
    /\ \A h, k \in going :
          (r[h] < r[k]) <=> \/ moves[h] < moves[k]
                            \/ moves[h] = moves[k] /\ Place[h] < Place[k]

(* The nodes that go can fill the nodes' places in the order of their moves. *)
LEMMA RankingExists ==
    ASSUME Inventory, NEW group \in SUBSET Host, NEW going \in SUBSET group,
           NEW moves \in [Host -> Int]
    PROVE  \E r : IsRanking(r, group, going, moves)
<1> DEFINE Before(h, k) == \/ moves[h] < moves[k]
                           \/ moves[h] = moves[k] /\ Place[h] < Place[k]
           M == {p \in going \X going : Before(p[1], p[2])}
           P == {p \in going \X going : Place[p[1]] < Place[p[2]]}
           n == Cardinality(going)
           m == Count(going, M)
           c == Count(going, P)
<1>1. /\ IsFiniteSet(going) /\ going \subseteq Host
      /\ \A h \in Host : Place[h] \in Int /\ moves[h] \in Int
      /\ \A h, k \in Host : h # k => Place[h] # Place[k]
  <2>1. IsFiniteSet(Host) /\ going \in SUBSET Host
    BY DEF Inventory
  <2>2. IsFiniteSet(going)
    BY <2>1, FS_Subset
  <2> QED
    BY <2>1, <2>2 DEF Inventory
<1>2. /\ \A h, k \in going : <<h, k>> \in M <=> Before(h, k)
      /\ \A h, k \in going : <<h, k>> \in P <=> Place[h] < Place[k]
  OBVIOUS
<1>3. /\ \A h \in going : <<h, h>> \notin M
      /\ \A h, k, l \in going : <<h, k>> \in M /\ <<k, l>> \in M => <<h, l>> \in M
      /\ \A h, k \in going : h # k => <<h, k>> \in M \/ <<k, h>> \in M
  <2>1. \A h \in going : ~ Before(h, h)
    BY <1>1
  <2>2. \A h, k, l \in going : Before(h, k) /\ Before(k, l) => Before(h, l)
    BY <1>1
  <2>3. \A h, k \in going : h # k => Before(h, k) \/ Before(k, h)
    BY <1>1
  <2> HIDE DEF Before, M
  <2> QED
    BY <1>2, <2>1, <2>2, <2>3
<1>4. /\ \A h \in going : <<h, h>> \notin P
      /\ \A h, k, l \in going : <<h, k>> \in P /\ <<k, l>> \in P => <<h, l>> \in P
      /\ \A h, k \in going : h # k => <<h, k>> \in P \/ <<k, h>> \in P
  <2>1. \A h \in going : ~ (Place[h] < Place[h])
    BY <1>1
  <2>2. \A h, k, l \in going : Place[h] < Place[k] /\ Place[k] < Place[l] => Place[h] < Place[l]
    BY <1>1
  <2>3. \A h, k \in going : h # k => Place[h] < Place[k] \/ Place[k] < Place[h]
    BY <1>1
  <2> HIDE DEF P
  <2> QED
    BY <1>2, <2>1, <2>2, <2>3
<1> HIDE DEF M, P
<1>5. /\ m \in [going -> 0 .. n - 1]
      /\ \A h, k \in going : <<h, k>> \in M => m[h] < m[k]
  BY <1>1, <1>3, Counting
<1>6. /\ c \in [going -> 0 .. n - 1]
      /\ \A h, k \in going : <<h, k>> \in P => c[h] < c[k]
      /\ \A i \in 0 .. n - 1 : \E h \in going : c[h] = i
  BY <1>1, <1>4, Counting
<1> HIDE DEF m, c
<1> DEFINE f == [h \in going |-> CHOOSE k \in going : c[k] = m[h]]
           r == [h \in group |-> IF h \in going THEN Place[f[h]] ELSE Place[h]]
<1>7. \A h \in going : f[h] \in going /\ c[f[h]] = m[h]
  BY <1>5, <1>6
<1> HIDE DEF f
<1>n. n \in Nat
  BY <1>1, FS_CardinalityType
<1> HIDE DEF n
<1>8. \A h, k \in going : Place[f[h]] < Place[f[k]] <=> Before(h, k)
  <2> SUFFICES ASSUME NEW h \in going, NEW k \in going
               PROVE  Place[f[h]] < Place[f[k]] <=> Before(h, k)
    OBVIOUS
  <2>1. f[h] \in going /\ f[k] \in going /\ c[f[h]] = m[h] /\ c[f[k]] = m[k]
    BY <1>7
  <2>2. m[h] \in Int /\ m[k] \in Int
    BY <1>5, <1>n
  <2>3. /\ Before(h, k) => m[h] < m[k]
        /\ Before(k, h) => m[k] < m[h]
        /\ h # k => Before(h, k) \/ Before(k, h)
        /\ ~ Before(h, h)
    <3> HIDE DEF Before
    <3> QED
      BY <1>2, <1>3, <1>5
  <2> DEFINE a == f[h]
             b == f[k]
  <2>4. /\ Place[f[h]] < Place[f[k]] => m[h] < m[k]
        /\ Place[f[k]] < Place[f[h]] => m[k] < m[h]
        /\ f[h] # f[k] => Place[f[h]] < Place[f[k]] \/ Place[f[k]] < Place[f[h]]
        /\ Place[f[h]] \in Int /\ Place[f[k]] \in Int
    <3>1. a \in going /\ b \in going /\ c[a] = m[h] /\ c[b] = m[k]
      BY <2>1
    <3> HIDE DEF a, b
    <3>2. /\ Place[a] < Place[b] => c[a] < c[b]
          /\ Place[b] < Place[a] => c[b] < c[a]
      BY <1>2, <1>6, <3>1
    <3>3. /\ a # b => Place[a] < Place[b] \/ Place[b] < Place[a]
          /\ Place[a] \in Int /\ Place[b] \in Int
      BY <1>1, <3>1
    <3> QED
      BY <3>1, <3>2, <3>3 DEF a, b
  <2> HIDE DEF Before
  <2>5. CASE h = k
    BY <2>3, <2>4, <2>5
  <2>6. CASE Before(h, k)
    <3>1. m[h] < m[k] /\ f[h] # f[k] /\ ~ (m[k] < m[h])
      BY <2>1, <2>2, <2>3, <2>6
    <3> QED
      BY <2>4, <2>6, <3>1
  <2>7. CASE Before(k, h)
    <3>1. m[k] < m[h] /\ ~ (m[h] < m[k])
      BY <2>2, <2>3, <2>7
    <3> QED
      BY <2>3, <2>4, <3>1
  <2> QED
    BY <2>3, <2>5, <2>6, <2>7
<1>9. \A h, k \in going : h # k => f[h] # f[k]
  <2> SUFFICES ASSUME NEW h \in going, NEW k \in going, h # k
               PROVE  f[h] # f[k]
    OBVIOUS
  <2>1. m[h] < m[k] \/ m[k] < m[h]
    BY <1>3, <1>5
  <2>2. m[h] \in Int /\ m[k] \in Int /\ c[f[h]] = m[h] /\ c[f[k]] = m[k]
    BY <1>5, <1>7, <1>n
  <2>3. m[h] # m[k]
    BY <2>1, <2>2
  <2> QED
    BY <2>2, <2>3
<1>10. IsRanking(r, group, going, moves)
  <2>1. \A h \in group : r[h] = IF h \in going THEN Place[f[h]] ELSE Place[h]
    OBVIOUS
  <2>2. r \in [group -> {Place[h] : h \in group}]
    BY <1>7
  <2> HIDE DEF r
  <2>3. \A h, k \in group : h # k => r[h] # r[k]
    BY <1>1, <1>7, <1>9, <2>1
  <2>4. \A h, k \in going : r[h] < r[k] <=> Place[f[h]] < Place[f[k]]
    BY <2>1
  <2> QED
    BY <1>8, <2>1, <2>2, <2>3, <2>4 DEF IsRanking
<1> QED
  BY <1>10

(* So the members of a group have places of their own. *)
LEMMA RanksAreDistinct ==
    ASSUME Inventory, NEW group \in SUBSET Host, NEW going \in SUBSET group,
           NEW moves \in [Host -> Int]
    PROVE  /\ \A h \in group : Ranks(group, going, moves)[h] \in Int
           /\ \A h, k \in group : h # k =>
                 Ranks(group, going, moves)[h] # Ranks(group, going, moves)[k]
<1> DEFINE r == Ranks(group, going, moves)
<1>1. PICK q : IsRanking(q, group, going, moves)
  BY RankingExists
<1>2. IsRanking(r, group, going, moves)
  <2> DEFINE Orders(p) ==
               /\ \A h \in group \ going : p[h] = Place[h]
               /\ \A h, k \in group : h # k => p[h] # p[k]
               /\ \A h, k \in going :
                     (p[h] < p[k]) <=> \/ moves[h] < moves[k]
                                       \/ moves[h] = moves[k] /\ Place[h] < Place[k]
             S == [group -> {Place[h] : h \in group}]
  <2>1. r = CHOOSE p \in S : Orders(p)
    BY DEF Ranks
  <2>2. q \in S /\ Orders(q)
    BY <1>1 DEF IsRanking
  <2> HIDE DEF r, S, Orders
  <2>3. r \in S /\ Orders(r)
    BY <2>1, <2>2
  <2> QED BY <2>3 DEF IsRanking, S, Orders
<1> HIDE DEF r
<1>3. \A h \in group : r[h] \in {Place[k] : k \in group}
  BY <1>2 DEF IsRanking
<1>4. \A h \in group : r[h] \in Int
  BY <1>3 DEF Inventory
<1> QED
  BY <1>2, <1>4 DEF IsRanking, r

-----------------------------------------------------------------------------
(* What the plan decides *)

(* What is decided for a host is one of three, and a node that the inventory *)
(* does not list never goes.                                                 *)
LEMMA DecideRefuses ==
    ASSUME NEW h, NEW reading, NEW opt
    PROVE  /\ Decide(h, reading, opt) \in {"go", "skip", "fail"}
           /\ h \in InCluster \ KNode => Decide(h, reading, opt) # "go"
BY DEF Decide

\* The fleet as a new run has planned its reboot.
Fresh(r, t) ==
    /\ r \in RunState /\ r.at = "ask" /\ ~ r.marks
    /\ t \in [Host -> TargetState]
    /\ r.last \subseteq r.opt.hosts
    /\ Self \in r.opt.hosts \ r.last => t[Self].skip
    /\ \A h \in Host :
          /\ t[h].at = "wait" /\ t[h].outcome = "none"
          /\ ~ (t[h].skip /\ t[h].fail)
          /\ h \in r.opt.hosts /\ Barred(h) => t[h].skip \/ t[h].fail

(* A plan is one, and the members of a group have places of their own. *)
LEMMA PlanIsFresh ==
    ASSUME Inventory, Typed, Plan
    PROVE  /\ Fresh(run', target')
           /\ \A h \in Selected' : \A k \in Members(h)' \ {h} : target[h].rank' # target[k].rank'
           /\ turn' = {} /\ marks' = marks /\ marked' = {} /\ warned' = {} /\ host' = host
           /\ \A h \in Host : ~ Ordered(h)
<1>1. PICK opt \in Options, reading \in Readings :
        LET left(h) == h = Self /\ ~ opt.self
            verdict(h) == IF Up(h) THEN Decide(h, reading, opt) ELSE "fail"
            skips(h) == \/ left(h) \/ verdict(h) = "skip"
                        \/ verdict(h) = "go" /\ h = Self /\ (h \in KNode \/ IsGated(h))
            going == {h \in opt.hosts \cap KNode : verdict(h) = "go" /\ ~ skips(h)}
            last == {h \in opt.hosts \cap {Self} : ~ skips(h)}
            fails(h) == \/ verdict(h) = "fail" /\ ~ left(h)
                        \/ h \in going /\ ~ reading.placed
            group(h) == IF h \in last THEN last ELSE (Group(h) \cap opt.hosts) \ last
            guard(h) == IF h \in Interactive THEN reading.guard ELSE "clear"
        IN  /\ run' = [at |-> "ask", opt |-> opt, last |-> last, todo |-> {},
                       interrupted |-> FALSE, marks |-> FALSE, count |-> run.count + 1]
            /\ target' = [h \in Host |->
                 IF h \notin opt.hosts THEN NewTarget
                 ELSE [NewTarget EXCEPT
                        !.skip = skips(h) \/ (~ fails(h) /\ guard(h) = "block" /\ ~ opt.check),
                        !.fail = fails(h), !.guard = guard(h),
                        !.rank = Ranks(group(h), going \cap group(h), reading.moves)[h],
                        !.runners = reading.of[h].runners = "active"]]
  BY DEF Plan
<1> DEFINE left(h) == h = Self /\ ~ opt.self
           verdict(h) == IF Up(h) THEN Decide(h, reading, opt) ELSE "fail"
           skips(h) == \/ left(h) \/ verdict(h) = "skip"
                       \/ verdict(h) = "go" /\ h = Self /\ (h \in KNode \/ IsGated(h))
           going == {h \in opt.hosts \cap KNode : verdict(h) = "go" /\ ~ skips(h)}
           last == {h \in opt.hosts \cap {Self} : ~ skips(h)}
           fails(h) == \/ verdict(h) = "fail" /\ ~ left(h)
                       \/ h \in going /\ ~ reading.placed
           group(h) == IF h \in last THEN last ELSE (Group(h) \cap opt.hosts) \ last
           guard(h) == IF h \in Interactive THEN reading.guard ELSE "clear"
           skip(h) == skips(h) \/ (~ fails(h) /\ guard(h) = "block" /\ ~ opt.check)
           rank(h) == Ranks(group(h), going \cap group(h), reading.moves)[h]
           runners(h) == reading.of[h].runners = "active"
           t(h) == [NewTarget EXCEPT !.skip = skip(h), !.fail = fails(h), !.guard = guard(h),
                                     !.rank = rank(h), !.runners = runners(h)]
<1>2. /\ run' = [at |-> "ask", opt |-> opt, last |-> last, todo |-> {},
                 interrupted |-> FALSE, marks |-> FALSE, count |-> run.count + 1]
      /\ target' = [h \in Host |-> IF h \notin opt.hosts THEN NewTarget ELSE t(h)]
  BY <1>1
<1>3. /\ run.count < MaxRuns /\ run \in RunState /\ \A h \in Host : ~ Ordered(h)
      /\ turn' = {} /\ marked' = {} /\ warned' = {} /\ marks' = marks /\ host' = host
  BY DEF Plan, Typed, Ordered
<1>4. /\ opt.hosts \subseteq Host /\ reading.moves \in [Host -> Int] /\ KNode \subseteq Host
      /\ MaxRuns \in Nat /\ Self \in Host
  BY DEF Inventory
<1>5. last \subseteq opt.hosts /\ last \in SUBSET {Self}
  OBVIOUS
<1>6. /\ run' \in RunState /\ run'.at = "ask" /\ ~ run'.marks
      /\ run'.opt = opt /\ run'.last = last
  <2>1. run.count + 1 \in 0 .. MaxRuns
    BY <1>3, <1>4 DEF RunState
  <2> HIDE DEF last
  <2> QED
    BY <1>2, <1>5, <2>1 DEF RunState
<1>7. \A h \in Host : h \in Group(h) /\ Group(h) \subseteq Host
  BY GroupFacts
<1>8. \A h \in Host : group(h) \in SUBSET Host /\ (h \in opt.hosts => h \in group(h))
  <2> HIDE DEF last
  <2> QED
    BY <1>4, <1>5, <1>7
<1>9. ASSUME NEW h \in opt.hosts
      PROVE  /\ rank(h) \in Int
             /\ \A k \in group(h) \ {h} : group(k) = group(h) => rank(h) # rank(k)
  <2> DEFINE G == group(h)
             E == going \cap group(h)
  <2>1. G \in SUBSET Host /\ E \in SUBSET G /\ h \in G
    BY <1>4, <1>8, <1>9
  <2>2. \A k \in G : group(k) = G => rank(k) = Ranks(G, E, reading.moves)[k]
    OBVIOUS
  <2>3. rank(h) = Ranks(G, E, reading.moves)[h]
    OBVIOUS
  <2>4. G = group(h)
    OBVIOUS
  <2> HIDE DEF G, E, rank, group
  <2>5. /\ \A k \in G : Ranks(G, E, reading.moves)[k] \in Int
        /\ \A k \in G : h # k => Ranks(G, E, reading.moves)[h] # Ranks(G, E, reading.moves)[k]
    BY <1>4, <2>1, RanksAreDistinct
  <2> QED
    BY <2>1, <2>2, <2>3, <2>4, <2>5
<1>10. ASSUME NEW h \in Host
       PROVE  ~ (skip(h) /\ fails(h))
  <2>1. ~ (skips(h) /\ fails(h))
    BY DecideRefuses
  <2> HIDE DEF skips, fails, guard
  <2> QED
    BY <2>1
<1>11. ASSUME NEW h \in opt.hosts, Barred(h)
       PROVE  skip(h) \/ fails(h)
  <2>1. CASE verdict(h) = "go"
    <3>1. h \notin InCluster \ KNode
      BY <2>1, DecideRefuses
    <3> QED
      BY <1>11, <2>1, <3>1 DEF Barred
  <2>2. CASE verdict(h) # "go"
    <3>1. verdict(h) \in {"skip", "fail"}
      BY <2>2, DecideRefuses
    <3> HIDE DEF verdict, guard, going
    <3> QED
      BY <3>1
  <2> QED
    BY <2>1, <2>2
<1>12. Self \in opt.hosts \ last => skip(Self)
  OBVIOUS
<1>13. \A h \in Host : guard(h) \in {"clear"} \cup {q.guard : q \in Readings}
  OBVIOUS
<1>14. \A h \in Host : skip(h) \in BOOLEAN /\ fails(h) \in BOOLEAN /\ runners(h) \in BOOLEAN
  <2> HIDE DEF skips, verdict, going, guard
  <2> QED
    OBVIOUS
<1>15. \A h \in opt.hosts : group(h) = IF h \in last THEN {h} ELSE (Group(h) \cap opt.hosts) \ last
  BY <1>5
<1>16. \A h \in opt.hosts : \A k \in group(h) : group(k) = group(h)
  <2> SUFFICES ASSUME NEW h \in opt.hosts, NEW k \in group(h)
               PROVE  group(k) = group(h)
    OBVIOUS
  <2>1. CASE h \in last
    BY <1>5, <2>1
  <2>2. CASE h \notin last
    <3>1. k \in Group(h) /\ k \notin last /\ h \in Host /\ k \in Host
      BY <1>4, <1>7, <2>2
    <3>2. Group(k) = Group(h)
      BY <3>1, GroupFacts
    <3> HIDE DEF last
    <3> QED
      BY <2>2, <3>1, <3>2
  <2> QED
    BY <2>1, <2>2
<1> HIDE DEF last, skip, fails, guard, rank, runners, group
<1>17. NewTarget \in TargetState
  BY DEF NewTarget, TargetState
<1>18. \A h \in opt.hosts :
           /\ t(h) \in TargetState
           /\ t(h).at = "wait" /\ t(h).outcome = "none" /\ t(h).skip = skip(h)
           /\ t(h).fail = fails(h) /\ t(h).rank = rank(h)
  BY <1>4, <1>9, <1>13, <1>14 DEF NewTarget, TargetState
<1>19. NewTarget.at = "wait" /\ NewTarget.outcome = "none" /\ ~ NewTarget.skip /\ ~ NewTarget.fail
  BY DEF NewTarget
<1> HIDE DEF t
<1>20. target' \in [Host -> TargetState]
  BY <1>2, <1>17, <1>18
<1>21. \A h \in Host : target'[h] = IF h \notin opt.hosts THEN NewTarget ELSE t(h)
  BY <1>2
<1>22. Fresh(run', target')
  <2>1. \A h \in Host :
          /\ target'[h].at = "wait" /\ target'[h].outcome = "none"
          /\ ~ (target'[h].skip /\ target'[h].fail)
          /\ h \in opt.hosts /\ Barred(h) => target'[h].skip \/ target'[h].fail
    BY <1>10, <1>11, <1>18, <1>19, <1>21
  <2>2. Self \in opt.hosts \ last => target'[Self].skip
    BY <1>4, <1>12, <1>18, <1>21
  <2> QED
    BY <1>5, <1>6, <1>20, <2>1, <2>2 DEF Fresh
<1>23. ASSUME NEW h \in opt.hosts, NEW k \in Members(h)' \ {h}
       PROVE  target'[h].rank # target'[k].rank
  <2>1. Members(h)' = IF h \in last THEN {h} ELSE (Group(h) \cap opt.hosts) \ last
    BY <1>6 DEF Members, Selected
  <2>2. k \in group(h) /\ k \in opt.hosts /\ k # h
    BY <1>15, <1>23, <2>1
  <2>3. rank(h) # rank(k)
    BY <1>9, <1>16, <2>2
  <2> QED
    BY <1>4, <1>18, <1>21, <2>2, <2>3
<1> QED
  BY <1>3, <1>6, <1>22, <1>23 DEF Selected

-----------------------------------------------------------------------------
(* What the steps of the run make of it *)

\* The questions were asked: a host declined is skipped.
Asked ==
    /\ At("ask") /\ run'.at \in {"ended", "groups", "mark"} /\ run' \in RunState
    /\ run'.opt = run.opt /\ run'.last = run.last /\ run'.marks = run.marks
    /\ UNCHANGED <<turn, marks, marked, warned, host>>
    /\ target' \in [Host -> TargetState]
    /\ \A h \in Host :
          /\ target'[h].at = target[h].at /\ target'[h].fail = target[h].fail
          /\ target'[h].rank = target[h].rank /\ target'[h].boot = target[h].boot
          /\ Outcome(h)' = Outcome(h)
          /\ target'[h].skip = target[h].skip \/ (target'[h].skip /\ ~ target[h].fail)

\* The run goes on, and no host's reboot does.
Quiet ==
    /\ UNCHANGED <<target, host>>
    /\ run' \in RunState /\ run'.opt = run.opt /\ run'.last = run.last
    /\ run.at # "idle" /\ run'.at # "idle"
    /\ run'.at = "groups" => run.at \in {"mark", "taint", "groups"}
    /\ run'.at = "self" => run.at = "self"
    /\ run'.at \in {"ask", "mark", "unmark", "taint"} =>
          run.at \in {"ask", "mark", "unmark", "taint"}
    /\ turn' = turn \/ (turn' = {} /\ run'.at = "killed")

\* All but this machine are done, and its turn comes or not.
LastOne ==
    /\ At("groups") /\ run' \in RunState /\ run'.opt = run.opt /\ run'.last = run.last
    /\ run'.marks = run.marks /\ run'.todo = marked
    /\ \A k \in Others : target[k].at = "done"
    /\ UNCHANGED <<turn, marks, marked, warned, host>>
    /\ target' \in [Host -> TargetState]
    /\ \A h \in Host \ run.last : target'[h] = target[h]
    /\ \A h \in run.last :
          /\ target'[h].skip = target[h].skip /\ target'[h].fail = target[h].fail
          /\ target'[h].rank = target[h].rank /\ target'[h].boot = target[h].boot
    /\ \/ /\ run'.at = "self" /\ run.last = {Self}
          /\ target'[Self].at = "guard" /\ ~ target[Self].skip /\ ~ target[Self].fail
          /\ Outcome(Self)' = "next"
          /\ \A k \in Others : Outcome(k) # "failed"
       \/ /\ run'.at = "clear"
          /\ \A h \in run.last :
                /\ target'[h].at = "done"
                /\ target[h].fail /\ ~ target[h].skip => Outcome(h)' = "failed"

(* The answers change nothing else. *)
LEMMA AskAsks ==
    ASSUME Typed, Ask
    PROVE  Asked
<1>1. target \in [Host -> TargetState] /\ run \in RunState
  BY DEF Typed
<1>2. /\ At("ask") /\ UNCHANGED <<turn, marks, marked, warned, host>>
      /\ \E at \in {"ended", "groups", "mark"} : run' = [run EXCEPT !.at = at]
  BY DEF Ask
<1>3. /\ run'.at \in {"ended", "groups", "mark"} /\ run' \in RunState
      /\ run'.opt = run.opt /\ run'.last = run.last /\ run'.marks = run.marks
  BY <1>1, <1>2 DEF RunState
<1>4. CASE target' = target
  BY <1>1, <1>2, <1>3, <1>4 DEF Asked, Outcome
<1>5. CASE \E yes \in SUBSET Questioned :
             target' = [h \in Host |->
                     IF h \notin Questioned THEN target[h]
                     ELSE [target[h] EXCEPT !.skip = h \notin yes,
                                            !.confirmed = h \in yes /\ ~ run.opt.check]]
  <2>1. PICK yes \in SUBSET Questioned :
             target' = [h \in Host |->
                     IF h \notin Questioned THEN target[h]
                     ELSE [target[h] EXCEPT !.skip = h \notin yes,
                                            !.confirmed = h \in yes /\ ~ run.opt.check]]
    BY <1>5
  <2> DEFINE skip(h) == h \notin yes
             confirmed(h) == h \in yes /\ ~ run.opt.check
             t(h) == [target[h] EXCEPT !.skip = skip(h), !.confirmed = confirmed(h)]
  <2>2. /\ target' = [h \in Host |-> IF h \notin Questioned THEN target[h] ELSE t(h)]
        /\ \A h \in Host : target'[h] = IF h \notin Questioned THEN target[h] ELSE t(h)
    BY <2>1
  <2>3. \A h \in Host : skip(h) \in BOOLEAN /\ confirmed(h) \in BOOLEAN
    OBVIOUS
  <2> HIDE DEF skip, confirmed
  <2>4. \A h \in Host :
           /\ t(h) \in TargetState
           /\ t(h).at = target[h].at /\ t(h).fail = target[h].fail
           /\ t(h).rank = target[h].rank /\ t(h).boot = target[h].boot
           /\ t(h).outcome = target[h].outcome /\ t(h).skip = skip(h)
    <3> TAKE h \in Host
    <3> DEFINE a == skip(h)
               b == confirmed(h)
    <3>1. target[h] \in TargetState /\ a \in BOOLEAN /\ b \in BOOLEAN
      BY <1>1, <2>3
    <3> HIDE DEF a, b
    <3>2. LET s == [target[h] EXCEPT !.skip = a, !.confirmed = b] IN
            /\ s \in TargetState
            /\ s.at = target[h].at /\ s.fail = target[h].fail
            /\ s.rank = target[h].rank /\ s.boot = target[h].boot
            /\ s.outcome = target[h].outcome /\ s.skip = a
      BY <3>1 DEF TargetState
    <3> QED
      BY <3>2 DEF a, b
  <2> HIDE DEF t
  <2>5. target' \in [Host -> TargetState]
    BY <1>1, <2>2, <2>4
  <2>6. \A h \in Questioned : h \in Selected /\ ~ target[h].skip
                              /\ \A k \in Members(h) : ~ target[k].fail
    BY DEF Questioned, Goes
  <2>7. \A h \in Host \cap Questioned : ~ target[h].skip /\ (h \in Members(h) => ~ target[h].fail)
    BY <2>6
  <2>8. \A h \in Host \cap Questioned : h \in Members(h)
    BY <2>6 DEF Members, Group
  <2>9. \A h \in Host :
          /\ target'[h].at = target[h].at /\ target'[h].fail = target[h].fail
          /\ target'[h].rank = target[h].rank /\ target'[h].boot = target[h].boot
          /\ Outcome(h)' = Outcome(h)
          /\ target'[h].skip = target[h].skip \/ (target'[h].skip /\ ~ target[h].fail)
    <3> SUFFICES ASSUME NEW h \in Host
                 PROVE  /\ target'[h].at = target[h].at /\ target'[h].fail = target[h].fail
                        /\ target'[h].rank = target[h].rank /\ target'[h].boot = target[h].boot
                        /\ Outcome(h)' = Outcome(h)
                        /\ \/ target'[h].skip = target[h].skip
                           \/ target'[h].skip /\ ~ target[h].fail
      OBVIOUS
    <3>1. target[h].skip \in BOOLEAN /\ t(h).skip \in BOOLEAN
      BY <1>1, <2>4 DEF TargetState
    <3> QED
      BY <2>2, <2>4, <2>7, <2>8, <3>1 DEF Outcome
  <2> QED
    BY <1>2, <1>3, <2>5, <2>9 DEF Asked
<1> QED
  BY <1>4, <1>5 DEF Ask

(* The tracked nodes are those of the inventory, and so are those still to do. *)
LEMMA UnmarkTypes ==
    ASSUME Typed, NEW n, Unmark(n)
    PROVE  marks' \subseteq marks /\ marked' \subseteq marked
                 /\ marks' \ marked' \subseteq marks \ marked
BY DEF Unmark, Effective, Reply

(* Two of a run's fields that a step sets, where the others stay. *)
LEMMA RunChange ==
    ASSUME run \in RunState,
           NEW at \in {"idle", "ask", "mark", "unmark", "taint", "groups", "self", "clear",
                       "ended", "killed"},
           NEW todo \in SUBSET KNode, NEW interrupted \in BOOLEAN, NEW some \in BOOLEAN
    PROVE  LET r == [run EXCEPT !.at = at, !.todo = todo, !.interrupted = interrupted,
                                !.marks = some]
           IN  /\ r \in RunState /\ r.at = at /\ r.todo = todo /\ r.interrupted = interrupted
               /\ r.marks = some /\ r.opt = run.opt /\ r.last = run.last
BY DEF RunState

(* The steps that clear marks one after the other, and the last of them. *)
LEMMA UnmarkAllIsQuiet ==
    ASSUME Typed, NEW here \in {"unmark", "clear"}, NEW next \in {"taint", "ended"},
           NEW todo \in SUBSET KNode, UnmarkAll(here, next, todo),
           here = "unmark" <=> next = "taint"
    PROVE  /\ Quiet /\ marks' \subseteq KNode /\ marked' \subseteq KNode
           /\ warned' \subseteq warned \cup marked /\ run'.marks = run.marks
<1>1. run \in RunState /\ run.at = here /\ UNCHANGED <<target, turn, host>>
  BY DEF UnmarkAll, At, Typed
<1>2. CASE \E n \in run.todo :
            /\ Unmark(n) /\ warned' = warned \cup ({n} \cap marked')
            /\ run' = [run EXCEPT !.todo = @ \ {n}]
  <2>1. PICK n \in run.todo :
            /\ Unmark(n) /\ warned' = warned \cup ({n} \cap marked')
            /\ run' = [run EXCEPT !.todo = run.todo \ {n}]
    BY <1>2
  <2>2. run' \in RunState /\ run'.at = here /\ run'.opt = run.opt /\ run'.last = run.last
        /\ run'.marks = run.marks
    BY <1>1, <2>1 DEF RunState
  <2>3. marks' \subseteq marks /\ marked' \subseteq marked
    BY <2>1, UnmarkTypes
  <2> QED
    BY <1>1, <2>1, <2>2, <2>3 DEF Quiet, Typed
<1>3. CASE /\ run' = [run EXCEPT !.at = next, !.todo = todo]
           /\ UNCHANGED <<marks, marked, warned>>
  <2>1. run' \in RunState /\ run'.at = next /\ run'.opt = run.opt /\ run'.last = run.last
        /\ run'.marks = run.marks
    BY <1>1, <1>3 DEF RunState
  <2> QED
    BY <1>1, <1>3, <2>1 DEF Quiet, Typed
<1> QED
  BY <1>2, <1>3 DEF UnmarkAll

(* The nodes that wait for their turn are nodes of the inventory. *)
LEMMA WantedNodes ==
    Wanted \subseteq KNode /\ Pending \subseteq KNode
BY DEF Wanted, Pending

(* The steps at the marks are quiet and keep to the nodes. *)
LEMMA MarksAreQuiet ==
    ASSUME Inventory, Typed, ReadMarks \/ UnmarkOther \/ TaintWanted \/ ClearMarks
    PROVE  /\ Quiet /\ marks' \subseteq KNode /\ marked' \subseteq KNode
           /\ warned' \subseteq Host
<1>1. run \in RunState /\ KNode \subseteq Host
  BY DEF Typed, Inventory
<1>2. CASE ReadMarks
  <2>1. PICK to \in {"groups", "unmark"}, tracked \in {{}, marks}, named \in {{}, Host} :
            /\ run' = [run EXCEPT !.at = to, !.todo = tracked \ Wanted, !.marks = Pending # {}]
            /\ marked' = tracked /\ warned' = named
    BY <1>2 DEF ReadMarks
  <2> DEFINE some == Pending # {}
             todo == tracked \ Wanted
  <2>2. /\ At("mark") /\ UNCHANGED <<target, turn, marks, host>> /\ some \in BOOLEAN
        /\ run' = [run EXCEPT !.at = to, !.todo = todo, !.marks = some]
    BY <1>2, <2>1 DEF ReadMarks
  <2>3. tracked \subseteq KNode /\ marks \subseteq KNode /\ todo \in SUBSET KNode
    BY DEF Typed
  <2> HIDE DEF some, todo
  <2>4. run' \in RunState /\ run'.at = to /\ run'.opt = run.opt /\ run'.last = run.last
    BY <1>1, <2>1, <2>2, <2>3 DEF RunState
  <2> QED
    BY <1>1, <2>1, <2>2, <2>3, <2>4 DEF Quiet, At
<1>3. CASE UnmarkOther
  <2>1. UnmarkAll("unmark", "taint", Wanted) /\ Wanted \in SUBSET KNode
    BY <1>3, WantedNodes DEF UnmarkOther
  <2>2. /\ Quiet /\ marks' \subseteq KNode /\ marked' \subseteq KNode
        /\ warned' \subseteq warned \cup marked
    BY <2>1, UnmarkAllIsQuiet
  <2> QED
    BY <1>1, <2>2 DEF Typed
<1>4. CASE ClearMarks
  <2>1. UnmarkAll("clear", "ended", {}) /\ {} \in SUBSET KNode
    BY <1>4 DEF ClearMarks
  <2>2. /\ Quiet /\ marks' \subseteq KNode /\ marked' \subseteq KNode
        /\ warned' \subseteq warned \cup marked
    BY <2>1, UnmarkAllIsQuiet
  <2> QED
    BY <1>1, <2>2 DEF Typed
<1>5. CASE TaintWanted
  <2>1. At("taint") /\ UNCHANGED <<target, turn, host>>
    BY <1>5 DEF TaintWanted
  <2>2. CASE run.todo = {} /\ run' = [run EXCEPT !.at = "groups"] /\ UNCHANGED marking
    <3>1. run' \in RunState /\ run'.at = "groups" /\ run'.opt = run.opt /\ run'.last = run.last
      BY <1>1, <2>2 DEF RunState
    <3> QED
      BY <2>1, <2>2, <3>1 DEF Quiet, At, Typed, marking
  <2>3. CASE \E n \in run.todo, reply \in Reply :
            /\ marks' = IF reply \in Effective THEN marks \cup {n} ELSE marks
            /\ marked' = IF reply = "done" THEN marked \cup {n} ELSE marked
            /\ warned' = IF reply = "done" THEN warned ELSE warned \cup {n}
            /\ run' = [run EXCEPT !.todo = @ \ {n}]
    <3>1. PICK n \in run.todo :
            /\ marks' \subseteq marks \cup {n} /\ marked' \subseteq marked \cup {n}
            /\ warned' \subseteq warned \cup {n}
            /\ run' = [run EXCEPT !.todo = run.todo \ {n}]
      BY <2>3
    <3>2. /\ run' \in RunState /\ run'.at = run.at /\ run'.opt = run.opt /\ run'.last = run.last
          /\ n \in KNode
      BY <1>1, <3>1 DEF RunState
    <3> QED
      BY <1>1, <2>1, <3>1, <3>2 DEF Quiet, At, Typed
  <2> QED
    BY <1>5, <2>2, <2>3 DEF TaintWanted, marking
<1> QED
  BY <1>2, <1>3, <1>4, <1>5

(* So are the end of this machine's part, an interrupt and a kill. *)
LEMMA EndsAreQuiet ==
    ASSUME Typed, SelfDone \/ Interrupt \/ Kill
    PROVE  Quiet /\ UNCHANGED <<marks, marked, warned>>
<1>1. run \in RunState /\ marked \in SUBSET KNode
  BY DEF Typed
<1>2. CASE SelfDone
  <2>1. At("self") /\ run' = [run EXCEPT !.at = "clear", !.todo = marked]
    BY <1>2 DEF SelfDone
  <2>2. run' \in RunState /\ run'.at = "clear" /\ run'.opt = run.opt /\ run'.last = run.last
    BY <1>1, <2>1 DEF RunState
  <2> QED
    BY <1>2, <2>1, <2>2 DEF Quiet, SelfDone, At, marking
<1>3. CASE Interrupt
  <2>1. run' = [run EXCEPT !.interrupted = TRUE]
    BY <1>3 DEF Interrupt
  <2>2. run' \in RunState /\ run'.at = run.at /\ run'.opt = run.opt /\ run'.last = run.last
    BY <1>1, <2>1 DEF RunState
  <2> QED
    BY <1>3, <2>2 DEF Quiet, Interrupt, marking
<1>4. CASE Kill
  <2>1. run' = [run EXCEPT !.at = "killed"]
    BY <1>4 DEF Kill
  <2>2. run' \in RunState /\ run'.at = "killed" /\ run'.opt = run.opt /\ run'.last = run.last
    BY <1>1, <2>1 DEF RunState
  <2> QED
    BY <1>4, <2>2 DEF Quiet, Kill, marking
<1> QED
  BY <1>2, <1>3, <1>4

(* This machine goes on when its turn comes and no other host failed. *)
LEMMA RunLastIsLastOne ==
    ASSUME Inventory, Typed, RunLast
    PROVE  LastOne
<1> DEFINE blocked == run.interrupted \/ \E h \in Others : Outcome(h) = "failed"
           verdict(h) == IF target[h].skip THEN "skipped"
                         ELSE IF target[h].fail THEN "failed"
                         ELSE IF blocked THEN "notStarted" ELSE "next"
           goes == \E h \in run.last : verdict(h) = "next"
           at == IF goes THEN "guard" ELSE "done"
           t(h) == [target[h] EXCEPT !.at = at, !.outcome = verdict(h)]
<1>1. /\ At("groups") /\ \A h \in Others : target[h].at = "done"
      /\ run' = [run EXCEPT !.at = IF goes THEN "self" ELSE "clear", !.todo = marked]
      /\ target' = [h \in Host |-> IF h \notin run.last THEN target[h] ELSE t(h)]
      /\ UNCHANGED <<turn, host, marks, marked, warned>>
  BY DEF RunLast, marking
<1>2. /\ run \in RunState /\ run.last \subseteq {Self} /\ target \in [Host -> TargetState]
      /\ marked \in SUBSET KNode /\ Self \in Host
  BY DEF Typed, RunState, Inventory
<1>3. /\ run' \in RunState /\ run'.opt = run.opt /\ run'.last = run.last
      /\ run'.at = (IF goes THEN "self" ELSE "clear") /\ run'.marks = run.marks
      /\ run'.todo = marked
  BY <1>1, <1>2 DEF RunState
<1>4. \A h \in Host : verdict(h) \in {"skipped", "failed", "notStarted", "next"}
  OBVIOUS
<1>5. at \in {"guard", "done"}
  OBVIOUS
<1>6. \A h \in run.last :
         /\ target[h].fail /\ ~ target[h].skip => verdict(h) = "failed"
         /\ verdict(h) = "next" => ~ target[h].skip /\ ~ target[h].fail /\ ~ blocked
  OBVIOUS
<1>7. goes => run.last = {Self} /\ verdict(Self) = "next"
  BY <1>2
<1>8. /\ goes => at = "guard"
      /\ ~ goes => at = "done"
  OBVIOUS
<1> HIDE DEF verdict, goes, at
<1>9. \A h \in Host :
         /\ t(h) \in TargetState /\ t(h).at = at /\ t(h).outcome = verdict(h)
         /\ t(h).skip = target[h].skip /\ t(h).fail = target[h].fail
         /\ t(h).rank = target[h].rank /\ t(h).boot = target[h].boot
  <2> TAKE h \in Host
  <2> DEFINE v == verdict(h)
  <2>1. /\ target[h] \in TargetState /\ at \in Working \cup Over
        /\ v \in {"skipped", "failed", "notStarted", "next"}
    BY <1>2, <1>4, <1>5 DEF Working, Over
  <2> HIDE DEF v
  <2>2. LET s == [target[h] EXCEPT !.at = at, !.outcome = v] IN
          /\ s \in TargetState /\ s.at = at /\ s.outcome = v
          /\ s.skip = target[h].skip /\ s.fail = target[h].fail
          /\ s.rank = target[h].rank /\ s.boot = target[h].boot
    BY <2>1 DEF TargetState
  <2> QED
    BY <2>2 DEF v
<1> HIDE DEF t
<1>10. target' \in [Host -> TargetState]
  BY <1>1, <1>2, <1>9
<1>11. /\ \A h \in Host \ run.last : target'[h] = target[h]
       /\ \A h \in Host \cap run.last : target'[h] = t(h)
  BY <1>1
<1> QED
  BY <1>1, <1>2, <1>3, <1>6, <1>7, <1>8, <1>9, <1>10, <1>11 DEF LastOne, Outcome

-----------------------------------------------------------------------------
(* The types *)

\* The host obeys the command, and this machine takes the run along.
Falls(h) ==
    /\ Up(h) /\ Ordered(h)
    /\ host' \in [Host -> HostState] /\ \A k \in Host \ {h} : host'[k] = host[k]
    /\ ~ host'[h].up /\ ~ host'[h].order /\ host'[h].boot = host[h].boot
    /\ run' \in RunState /\ run'.opt = run.opt /\ run'.last = run.last
    /\ run' = run \/ run'.at = "killed"
    /\ UNCHANGED <<target, turn, marks, marked, warned>>

\* The host returns.
Returns(h) ==
    /\ ~ Up(h)
    /\ host' \in [Host -> HostState] /\ \A k \in Host \ {h} : host'[k] = host[k]
    /\ host'[h].up /\ host'[h].order = host[h].order
    /\ UNCHANGED <<run, target, turn, marks, marked, warned>>

(* A host goes down as it accepted. *)
LEMMA GoesDownFalls ==
    ASSUME Typed, NEW h \in Host, GoesDown(h)
    PROVE  Falls(h)
<1> DEFINE s == [host[h] EXCEPT !.up = FALSE, !.order = FALSE]
<1>1. host[h] \in HostState /\ run \in RunState
  BY DEF Typed
<1>2. s \in HostState /\ ~ s.up /\ ~ s.order /\ s.boot = host[h].boot
  BY <1>1 DEF HostState
<1>3. host' = [host EXCEPT ![h] = s]
  BY <1>1 DEF GoesDown, HostState, Typed
<1> HIDE DEF s
<1>4. /\ host' \in [Host -> HostState] /\ host'[h] = s
      /\ \A k \in Host \ {h} : host'[k] = host[k]
  BY <1>2, <1>3, HostBecoming DEF Typed
<1>5. run' = run \/ run' = [run EXCEPT !.at = "killed"]
  BY DEF GoesDown
<1>6. /\ run' \in RunState /\ run'.opt = run.opt /\ run'.last = run.last
      /\ run' = run \/ run'.at = "killed"
  BY <1>1, <1>5 DEF RunState
<1> QED
  BY <1>2, <1>4, <1>6 DEF Falls, GoesDown, Ordered, marking

(* A host that is down comes up. *)
LEMMA ComesUpReturns ==
    ASSUME Typed, NEW h \in Host, ComesUp(h)
    PROVE  Returns(h)
<1>1. PICK running \in BOOLEAN :
        host' = [host EXCEPT ![h].up = TRUE, ![h].boot = @ + 1, ![h].runners = running]
  BY DEF ComesUp
<1> DEFINE s == [host[h] EXCEPT !.up = TRUE, !.boot = host[h].boot + 1, !.runners = running]
<1>2. host[h] \in HostState /\ host[h].boot + 1 \in Nat
  BY DEF Typed, HostState
<1>3. s \in HostState /\ s.up /\ s.order = host[h].order
  <2> DEFINE boot == host[h].boot + 1
  <2> HIDE DEF boot
  <2>1. [host[h] EXCEPT !.up = TRUE, !.boot = boot, !.runners = running] \in HostState
    BY <1>2 DEF HostState, boot
  <2> QED
    BY <1>2, <2>1 DEF HostState, boot
<1>4. host' = [host EXCEPT ![h] = s]
  BY <1>1, <1>2 DEF HostState, Typed
<1> HIDE DEF s
<1>5. /\ host' \in [Host -> HostState] /\ host'[h] = s
      /\ \A k \in Host \ {h} : host'[k] = host[k]
  BY <1>3, <1>4, HostBecoming DEF Typed
<1> QED
  BY <1>3, <1>5 DEF Returns, ComesUp, marking

\* One step of the whole, whatever becomes of the marks.
Kinds ==
    \/ Plan \/ Asked \/ Quiet \/ LastOne
    \/ \E h \in Host : Turn(h) \/ Falls(h) \/ Returns(h)
    \/ UNCHANGED vars

(* Every step is of one of these kinds. *)
LEMMA NextKinds ==
    ASSUME Inventory, Typed, [Next]_vars
    PROVE  Kinds
BY AskAsks, MarksAreQuiet, EndsAreQuiet, RunLastIsLastOne, HostStepTurns, GoesDownFalls,
   ComesUpReturns DEF Next, Kinds

(* A host's step gives at most its own mark up. *)
LEMMA HostStepMarks ==
    ASSUME Typed, NEW h \in Host, HostStep(h)
    PROVE  /\ marks' \subseteq marks /\ marked' \subseteq marked /\ warned' = warned
           /\ marks' \ marked' \subseteq marks \ marked
           /\ run' = run
<1>1. CASE EndTurn(h)
  BY <1>1, UnmarkTypes DEF EndTurn
<1>2. CASE UNCHANGED marking
  <2>1. run' = run
    BY HostStepTurns DEF Turn, Moves
  <2> QED
    BY <1>2, <2>1 DEF marking
<1> QED
  BY <1>1, <1>2 DEF HostStep, Reach, TakeTurn, Guard, ReadBootID, PassReadyGate, Check, StopRunners,
     NodeGates, OrderReboot, AwaitReturn, Verify, NodeFails, StaysUp, Fail

(* The marks, the tracked and the named are hosts of the right kind. *)
LEMMA MarksTyped ==
    ASSUME Inventory, Typed, [Next]_vars
    PROVE  marks' \subseteq KNode /\ marked' \subseteq KNode /\ warned' \subseteq Host
<1>1. marks \subseteq KNode /\ marked \subseteq KNode /\ warned \subseteq Host
  BY DEF Typed
<1>2. CASE Plan
  BY <1>1, <1>2, PlanIsFresh
<1>3. CASE Ask
  BY <1>1, <1>3 DEF Ask
<1>4. CASE ReadMarks \/ UnmarkOther \/ TaintWanted \/ ClearMarks
  BY <1>4, MarksAreQuiet
<1>5. CASE \E h \in Host : HostStep(h)
  BY <1>1, <1>5, HostStepMarks
<1>6. CASE \E h \in Host : GoesDown(h) \/ ComesUp(h)
  BY <1>1, <1>6 DEF GoesDown, ComesUp, marking
<1>7. CASE RunLast \/ SelfDone \/ Interrupt \/ Kill
  BY <1>1, <1>7 DEF RunLast, SelfDone, Interrupt, Kill, marking
<1>8. CASE UNCHANGED vars
  BY <1>1, <1>8 DEF vars
<1> QED
  BY <1>2, <1>3, <1>4, <1>5, <1>6, <1>7, <1>8 DEF Next

(* The turn is a node's, or nobody's. *)
LEMMA TurnTyped ==
    ASSUME Inventory, Typed, Decided, Kinds
    PROVE  turn' = {} \/ \E h \in KNode : turn' = {h}
<1>1. turn = {} \/ \E h \in KNode : turn = {h}
  BY DEF Typed
<1>2. ASSUME NEW h \in Host, Turn(h)
      PROVE  turn' = {} \/ \E k \in KNode : turn' = {k}
  <2>1. target[h].at = "lock" => h \in KNode
    BY DEF Decided
  <2>2. turn' = turn \/ (target[h].at = "lock" /\ turn' = {h}) \/ turn' = turn \ {h}
    BY <1>2 DEF Turn, Starts, PassedOver, Reached, GoesOn, Ends, Turns, GivesUpTurn
  <2> QED
    BY <1>1, <2>1, <2>2
<1>3. CASE Plan
  BY <1>3, PlanIsFresh
<1>4. CASE Asked \/ Quiet \/ LastOne \/ UNCHANGED vars
  BY <1>1, <1>4 DEF Asked, Quiet, LastOne, vars
<1>5. CASE \E h \in Host : Falls(h) \/ Returns(h)
  BY <1>1, <1>5 DEF Falls, Returns
<1> QED
  BY <1>2, <1>3, <1>4, <1>5 DEF Kinds

(* The type invariant is kept. *)
LEMMA TypedNext ==
    ASSUME Inventory, Typed, Decided, [Next]_vars
    PROVE  Typed'
<1>1. Kinds
  BY NextKinds
<1>2. /\ marks' \subseteq KNode /\ marked' \subseteq KNode /\ warned' \subseteq Host
      /\ turn' = {} \/ \E h \in KNode : turn' = {h}
  BY <1>1, MarksTyped, TurnTyped
<1>3. /\ run \in RunState /\ target \in [Host -> TargetState] /\ host \in [Host -> HostState]
      /\ \A h \in Host : Outcome(h) \notin {"none", "next"} => target[h].at \in Over
  BY DEF Typed
<1> DEFINE Goal == /\ run' \in RunState /\ target' \in [Host -> TargetState]
                   /\ host' \in [Host -> HostState]
                   /\ \A h \in Host : Outcome(h)' \notin {"none", "next"} => target'[h].at \in Over
<1>4. Goal
  <2>1. CASE Plan
    <3>1. Fresh(run', target') /\ host' = host
      BY <2>1, PlanIsFresh
    <3> QED
      BY <1>3, <3>1 DEF Fresh, Outcome
  <2>2. CASE Asked
    BY <1>3, <2>2 DEF Asked
  <2>3. CASE Quiet
    BY <1>3, <2>3 DEF Quiet, Outcome
  <2>4. CASE LastOne
    <3>1. \A h \in Host : Outcome(h)' \notin {"none", "next"} => target'[h].at \in Over
      <4> SUFFICES ASSUME NEW h \in Host, Outcome(h)' \notin {"none", "next"}
                   PROVE  target'[h].at \in Over
        OBVIOUS
      <4>1. CASE h \in run.last
        BY <2>4, <4>1 DEF LastOne, Over, Outcome
      <4>2. CASE h \notin run.last
        BY <1>3, <2>4, <4>2 DEF LastOne, Outcome
      <4> QED
        BY <4>1, <4>2
    <3> QED
      BY <1>3, <2>4, <3>1 DEF LastOne
  <2>5. ASSUME NEW h \in Host, Turn(h)
        PROVE  Goal
    <3>1. /\ run' = run /\ target' \in [Host -> TargetState] /\ host' \in [Host -> HostState]
          /\ \A k \in Host \ {h} : target'[k] = target[k]
      BY <2>5 DEF Turn, Moves
    <3>2. Outcome(h)' \notin {"none", "next"} => target'[h].at \in Over
      <4>1. CASE Starts(h) \/ GoesOn(h)
        BY <1>3, <4>1 DEF Starts, GoesOn, Reached, Works, Working, Over
      <4>2. CASE PassedOver(h) \/ Ends(h) \/ GivesUpTurn(h)
        BY <1>3, <4>2 DEF PassedOver, Ends, GivesUpTurn, Over
      <4> QED
        BY <2>5, <4>1, <4>2 DEF Turn
    <3> QED
      BY <1>3, <3>1, <3>2 DEF Outcome
  <2>6. CASE \E h \in Host : Falls(h) \/ Returns(h)
    BY <1>3, <2>6 DEF Falls, Returns, Outcome
  <2>7. CASE UNCHANGED vars
    BY <1>3, <2>7 DEF vars, Outcome
  <2> QED
    BY <1>1, <2>1, <2>2, <2>3, <2>4, <2>5, <2>6, <2>7 DEF Kinds
<1> QED
  BY <1>2, <1>4 DEF Typed

-----------------------------------------------------------------------------
(* What was decided *)

\* Decided, of the run and of each host.
DecidedRun ==
    /\ run.last \subseteq Selected
    /\ run.at \in {"idle", "ask", "mark", "unmark", "taint"} =>
          \A h \in Host : target[h].at = "wait"
    /\ At("groups") => \A h \in run.last : target[h].at = "wait"
    /\ Planned /\ Self \in Others => target[Self].skip
DecidedHost(h) ==
    /\ ~ (target[h].skip /\ target[h].fail)
    /\ Planned /\ h \in Selected /\ Barred(h) => target[h].skip \/ target[h].fail
    /\ target[h].at # "wait" => h \in Selected
    /\ Works(h) \/ Ordered(h) => h \in Selected /\ ~ target[h].skip /\ ~ target[h].fail
    /\ target[h].at \in Over /\ target[h].fail => Outcome(h) = "failed"
    /\ target[h].at = "lock" => h \in KNode
    /\ target[h].at = "down" => h # Self
    /\ Ordered(h) => \/ target[h].at = "down"
                     \/ target[h].at \in Over /\ (h = Self \/ Outcome(h) = "failed")

(* A host's step keeps what is decided of the run: it is none of this        *)
(* machine's before its turn.                                                *)
LEMMA DecidedRunTurn ==
    ASSUME Inventory, Typed, Decided, NEW h \in Host, Turn(h)
    PROVE  DecidedRun'
<1>1. /\ Running /\ run' = run /\ Self \in Host
      /\ \A k \in Host \ {h} : target'[k] = target[k]
      /\ target'[h].skip = target[h].skip
  BY DEF Turn, Moves, Inventory
<1>2. /\ run.last \subseteq Selected
      /\ At("groups") => \A k \in run.last : target[k].at = "wait"
      /\ Planned /\ Self \in Others => target[Self].skip
  BY DEF Decided
<1>3. run.last \subseteq Host /\ Selected' = Selected /\ Others' = Others
  BY <1>1 DEF Typed, RunState, Inventory, Selected, Others
<1>4. At("groups") => h \notin run.last
  <2>1. CASE Starts(h) \/ PassedOver(h)
    BY <2>1 DEF Starts, PassedOver, Reached, Others
  <2>2. CASE GoesOn(h) \/ Ends(h) \/ GivesUpTurn(h)
    BY <1>2, <2>2 DEF GoesOn, Ends, GivesUpTurn, Works, Working
  <2> QED
    BY <2>1, <2>2 DEF Turn
<1> QED
  BY <1>1, <1>2, <1>3, <1>4 DEF DecidedRun, Running, At, Planned

(* And what is decided of the host. *)
LEMMA DecidedHostTurn ==
    ASSUME Inventory, Typed, Decided, InStep, NEW h \in Host, Turn(h)
    PROVE  DecidedHost(h)'
<1>1. /\ Running /\ run' = run
      /\ target'[h].skip = target[h].skip /\ target'[h].fail = target[h].fail
      /\ host[h].order \in BOOLEAN /\ host'[h].order \in BOOLEAN
  BY DEF Turn, Moves, Typed, HostState
<1>2. DecidedHost(h)
  BY DEF Decided, DecidedHost
<1>3. Selected' = Selected /\ Barred(h)' = Barred(h) /\ Planned' = Planned
  BY <1>1 DEF Selected, Barred, Planned
<1>4. CASE Starts(h)
  <2>1. /\ h \in Selected /\ ~ target[h].skip /\ ~ target[h].fail /\ host'[h].order = host[h].order
        /\ target[h].at = "wait" /\ target'[h].at = IF h \in KNode THEN "lock" ELSE "guard"
    BY <1>4 DEF Starts, Reached, Others
  <2>2. ~ Ordered(h)
    BY <1>2, <2>1 DEF DecidedHost, Over
  <2> QED
    BY <1>1, <1>2, <1>3, <2>1, <2>2 DEF DecidedHost, Works, Working, Over, Ordered
<1>5. CASE PassedOver(h)
  <2>1. /\ h \in Selected /\ host'[h].order = host[h].order
        /\ target[h].at = "wait" /\ target'[h].at = "done"
        /\ ~ target[h].skip => (Outcome(h)' = "failed" <=> target[h].fail)
    BY <1>5 DEF PassedOver, Reached, Others
  <2>2. ~ Ordered(h)
    BY <1>2, <2>1 DEF DecidedHost, Over
  <2> QED
    BY <1>1, <1>2, <1>3, <2>1, <2>2 DEF DecidedHost, Works, Working, Over, Ordered
<1>6. CASE GoesOn(h)
  <2>1. /\ target[h].at \in Working /\ target'[h].at \in Working \ {"lock"}
        /\ host'[h].order # host[h].order => target'[h].at = "down"
        /\ target'[h].at = "down" => h # Self
        /\ target[h].at = "down" => host[h].boot # target[h].boot
    BY <1>6 DEF GoesOn, Works
  <2>2. h \in Selected /\ ~ target[h].skip /\ ~ target[h].fail
    BY <1>2, <2>1 DEF DecidedHost, Works
  <2>3. Ordered(h)' => target'[h].at = "down"
    <3>1. ~ Ordered(h)
      BY <1>2, <2>1 DEF DecidedHost, InStep, Over, Working
    <3> QED
      BY <1>1, <2>1, <3>1 DEF Ordered
  <2> QED
    BY <1>1, <1>2, <1>3, <2>1, <2>2, <2>3 DEF DecidedHost, Works, Working, Over
<1>7. CASE Ends(h)
  <2>1. /\ target[h].at \in Working /\ target'[h].at \in Over
        /\ host'[h].order # host[h].order => h = Self \/ Outcome(h)' = "failed"
        /\ target[h].at = "down" => Outcome(h)' = "failed"
    BY <1>7 DEF Ends, Works
  <2>2. h \in Selected /\ ~ target[h].skip /\ ~ target[h].fail
    BY <1>2, <2>1 DEF DecidedHost, Works
  <2> QED
    BY <1>1, <1>2, <1>3, <2>1, <2>2 DEF DecidedHost, Works, Working, Over, Ordered
<1>8. CASE GivesUpTurn(h)
  BY <1>1, <1>2, <1>3, <1>8 DEF GivesUpTurn, DecidedHost, Works, Working, Over, Ordered
<1> QED
  BY <1>4, <1>5, <1>6, <1>7, <1>8 DEF Turn

(* What was decided stays so. *)
LEMMA DecidedNext ==
    ASSUME Inventory, Typed, Decided, InStep, Kinds
    PROVE  Decided'
<1> DEFINE Goal == DecidedRun' /\ \A h \in Host : DecidedHost(h)'
<1> SUFFICES Goal
  BY DEF Decided, DecidedRun, DecidedHost
<1>1. DecidedRun /\ \A h \in Host : DecidedHost(h)
  BY DEF Decided, DecidedRun, DecidedHost
<1>2. /\ run \in RunState /\ target \in [Host -> TargetState] /\ host \in [Host -> HostState]
      /\ run.last \subseteq {Self} /\ Self \in Host /\ run.last \subseteq Host
  BY DEF Typed, RunState, Inventory
<1>3. CASE Plan
  <2>1. /\ Fresh(run', target') /\ host' = host /\ \A h \in Host : ~ Ordered(h)
    BY <1>3, PlanIsFresh
  <2>2. DecidedRun'
    BY <1>2, <2>1 DEF Fresh, DecidedRun, Selected, Others, At
  <2>3. ASSUME NEW h \in Host
        PROVE  DecidedHost(h)'
    <3>1. Barred(h)' = Barred(h) /\ ~ Ordered(h)' /\ target'[h].at = "wait"
      BY <2>1 DEF Barred, Ordered, Fresh
    <3>2. /\ ~ (target'[h].skip /\ target'[h].fail)
          /\ h \in run'.opt.hosts /\ Barred(h) => target'[h].skip \/ target'[h].fail
      BY <2>1 DEF Fresh
    <3> QED
      BY <3>1, <3>2 DEF DecidedHost, Works, Working, Over, Selected
  <2> QED
    BY <2>2, <2>3
<1>4. CASE Asked
  <2>1. /\ At("ask") /\ run'.at \in {"ended", "groups", "mark"} /\ host' = host
        /\ Selected' = Selected /\ Others' = Others /\ run'.last = run.last
    BY <1>4 DEF Asked, Selected, Others
  <2>2. \A h \in Host : /\ target'[h].at = target[h].at /\ target'[h].fail = target[h].fail
                        /\ \/ target'[h].skip = target[h].skip
                           \/ target'[h].skip /\ ~ target[h].fail
    BY <1>4 DEF Asked
  <2>3. \A h \in Host : target[h].at = "wait"
    BY <1>1, <2>1 DEF DecidedRun, At
  <2>4. DecidedRun'
    BY <1>1, <1>2, <2>1, <2>2, <2>3 DEF DecidedRun, At, Planned
  <2>5. ASSUME NEW h \in Host
        PROVE  DecidedHost(h)'
    <3>1. DecidedHost(h) /\ Barred(h)' = Barred(h) /\ Ordered(h)' = Ordered(h) /\ Planned
      BY <1>1, <2>1 DEF Barred, Ordered, Planned, At
    <3>2. ~ Ordered(h)
      BY <2>3, <3>1 DEF DecidedHost, Over
    <3> QED
      BY <2>1, <2>2, <2>3, <3>1, <3>2 DEF DecidedHost, Works, Working, Over
  <2> QED
    BY <2>4, <2>5
<1>5. CASE Quiet
  <2>1. /\ target' = target /\ host' = host /\ run'.last = run.last
        /\ Selected' = Selected /\ Others' = Others /\ Planned /\ Planned'
        /\ run'.at = "groups" => run.at \in {"mark", "taint", "groups"}
        /\ run'.at \in {"idle", "ask", "mark", "unmark", "taint"} =>
               run.at \in {"ask", "mark", "unmark", "taint"}
    BY <1>5 DEF Quiet, Selected, Others, Planned
  <2>2. DecidedRun'
    BY <1>1, <1>2, <2>1 DEF DecidedRun, At
  <2>3. ASSUME NEW h \in Host
        PROVE  DecidedHost(h)'
    BY <1>1, <2>1 DEF DecidedHost, Works, Ordered, Outcome, Barred
  <2> QED
    BY <2>2, <2>3
<1>6. CASE LastOne
  <2>1. /\ At("groups") /\ run'.at \in {"self", "clear"} /\ host' = host /\ run'.last = run.last
        /\ Selected' = Selected /\ Others' = Others /\ Planned /\ Planned'
    BY <1>6 DEF LastOne, Selected, Others, Planned, At
  <2>2. \A h \in Host : /\ target'[h].skip = target[h].skip /\ target'[h].fail = target[h].fail
                        /\ h \notin run.last => target'[h] = target[h]
    BY <1>6 DEF LastOne
  <2>3. DecidedRun'
    BY <1>1, <1>2, <2>1, <2>2 DEF DecidedRun, At
  <2>4. ASSUME NEW h \in Host
        PROVE  DecidedHost(h)'
    <3>1. /\ DecidedHost(h) /\ Barred(h)' = Barred(h) /\ Ordered(h)' = Ordered(h)
      BY <1>1, <2>1 DEF Barred, Ordered
    <3>2. CASE h \notin run.last
      BY <2>1, <2>2, <3>1, <3>2 DEF DecidedHost, Works, Outcome
    <3>3. CASE h \in run.last
      <4>1. h = Self /\ h \in Selected /\ target[h].at = "wait"
        BY <1>1, <1>2, <2>1, <3>3 DEF DecidedRun
      <4>2. ~ Ordered(h)
        BY <3>1, <4>1 DEF DecidedHost, Over
      <4>3. \/ /\ target'[h].at = "guard" /\ ~ target[h].skip /\ ~ target[h].fail
            \/ /\ target'[h].at = "done"
               /\ target[h].fail /\ ~ target[h].skip => Outcome(h)' = "failed"
        BY <1>6, <3>3, <4>1 DEF LastOne
      <4> QED
        BY <2>1, <2>2, <3>1, <4>1, <4>2, <4>3 DEF DecidedHost, Works, Working, Over
    <3> QED
      BY <3>2, <3>3
  <2> QED
    BY <2>3, <2>4
<1>7. ASSUME NEW h \in Host, Turn(h)
      PROVE  Goal
  <2>1. /\ run' = run /\ \A k \in Host \ {h} : target'[k] = target[k] /\ host'[k] = host[k]
    BY <1>7 DEF Turn, Moves
  <2>2. \A k \in Host \ {h} : DecidedHost(k)'
    BY <1>1, <2>1 DEF DecidedHost, Works, Ordered, Outcome, Barred, Planned, Selected
  <2> QED
    BY <1>7, <2>2, DecidedRunTurn, DecidedHostTurn
<1>8. ASSUME NEW h \in Host, Falls(h)
      PROVE  Goal
  <2>1. /\ target' = target /\ run'.last = run.last /\ run'.opt = run.opt
        /\ run' = run \/ run'.at = "killed"
        /\ ~ host'[h].order /\ \A k \in Host \ {h} : host'[k] = host[k]
        /\ Ordered(h)
    BY <1>8 DEF Falls
  <2>2. Planned
    BY <1>1, <2>1 DEF DecidedRun, DecidedHost, Planned, Over
  <2>3. DecidedRun'
    BY <1>1, <2>1, <2>2 DEF DecidedRun, At, Planned, Selected, Others
  <2>4. \A k \in Host : DecidedHost(k)'
    BY <1>1, <2>1, <2>2 DEF DecidedHost, Works, Ordered, Outcome, Barred, Planned, Selected
  <2> QED
    BY <2>3, <2>4
<1>9. ASSUME NEW h \in Host, Returns(h)
      PROVE  Goal
  <2>1. /\ target' = target /\ run' = run
        /\ \A k \in Host : host'[k].order = host[k].order
    BY <1>9 DEF Returns
  <2>2. DecidedRun'
    BY <1>1, <2>1 DEF DecidedRun, At, Planned, Selected, Others
  <2>3. \A k \in Host : DecidedHost(k)'
    BY <1>1, <2>1 DEF DecidedHost, Works, Ordered, Outcome, Barred, Planned, Selected
  <2> QED
    BY <2>2, <2>3
<1>10. CASE UNCHANGED vars
  <2>1. run' = run /\ target' = target /\ host' = host
    BY <1>10 DEF vars
  <2>2. DecidedRun'
    BY <1>1, <2>1 DEF DecidedRun, At, Planned, Selected, Others
  <2>3. \A k \in Host : DecidedHost(k)'
    BY <1>1, <2>1 DEF DecidedHost, Works, Ordered, Outcome, Barred, Planned, Selected
  <2> QED
    BY <2>2, <2>3
<1> QED
  BY <1>3, <1>4, <1>5, <1>6, <1>7, <1>8, <1>9, <1>10 DEF Kinds

-----------------------------------------------------------------------------
(* Boots, and the nodes of the cluster *)

(* A host that accepted the command is on the boot that was read until it     *)
(* goes down.                                                                 *)
LEMMA InStepNext ==
    ASSUME Inventory, Typed, Decided, InStep, Kinds
    PROVE  InStep'
<1> DEFINE OnBoot(h) == target[h].at \in Steady \/ Ordered(h) =>
                           Up(h) /\ host[h].boot = target[h].boot
<1> SUFFICES \A h \in Host \ {Self} : OnBoot(h)'
  BY DEF InStep, Steady
<1>1. Decided' /\ \A h \in Host : DecidedHost(h)'
  BY DecidedNext DEF Decided, DecidedHost
<1>2. /\ \A h \in Host \ {Self} : OnBoot(h)
      /\ \A h \in Host : DecidedHost(h)
      /\ run.last \subseteq {Self}
  BY DEF InStep, Steady, Decided, DecidedHost, Typed, RunState
<1>3. CASE Plan
  <2>1. Fresh(run', target') /\ host' = host /\ \A h \in Host : ~ Ordered(h)
    BY <1>3, PlanIsFresh
  <2> QED
    BY <2>1 DEF Fresh, Steady, Ordered
<1>4. CASE Asked
  BY <1>2, <1>4 DEF Asked, Ordered, Up
<1>5. CASE Quiet
  BY <1>2, <1>5 DEF Quiet, Ordered, Up
<1>6. CASE LastOne
  <2>1. \A h \in Host \ {Self} : target'[h] = target[h] /\ host'[h] = host[h]
    BY <1>2, <1>6 DEF LastOne
  <2> QED
    BY <1>2, <2>1 DEF Ordered, Up
<1>7. ASSUME NEW h \in Host, Turn(h)
      PROVE  \A k \in Host \ {Self} : OnBoot(k)'
  <2>1. /\ \A k \in Host \ {h} : target'[k] = target[k] /\ host'[k] = host[k]
        /\ host'[h].up = host[h].up /\ host'[h].boot = host[h].boot
    BY <1>7 DEF Turn, Moves
  <2>2. \A k \in Host \ {h, Self} : OnBoot(k)'
    BY <1>2, <2>1 DEF Ordered, Up
  <2>3. ASSUME h # Self
        PROVE  OnBoot(h)'
    <3>1. OnBoot(h) /\ DecidedHost(h)'
      BY <1>1, <1>2, <2>3
    <3>2. CASE Starts(h) \/ PassedOver(h)
      <4>1. /\ target'[h].at \in {"lock", "guard", "done"} /\ target'[h].boot = target[h].boot
            /\ host'[h].order = host[h].order
        BY <3>2 DEF Starts, PassedOver, Reached
      <4> QED
        BY <2>1, <3>1, <4>1 DEF Steady, Ordered, Up
    <3>3. CASE GoesOn(h)
      <4>1. CASE target'[h].at \in Steady
        <5>1. \/ target[h].at \in Steady /\ target'[h].boot = target[h].boot
              \/ Up(h) /\ target'[h].boot = host[h].boot
          BY <2>3, <3>3, <4>1 DEF GoesOn
        <5> QED
          BY <2>1, <3>1, <5>1 DEF Up
      <4>2. CASE target'[h].at = "down"
        <5>1. target[h].at \in Steady /\ target'[h].boot = target[h].boot
          BY <3>3, <4>2 DEF GoesOn, Steady
        <5> QED
          BY <2>1, <3>1, <5>1 DEF Up
      <4>3. CASE target'[h].at \notin Steady \cup {"down"}
        <5>1. ~ Ordered(h)'
          BY <3>1, <3>3, <4>3 DEF GoesOn, DecidedHost, Working, Over
        <5> QED
          BY <4>3, <5>1
      <4> QED
        BY <4>1, <4>2, <4>3
    <3>4. CASE Ends(h)
      <4>1. /\ target'[h].at \in Over /\ target'[h].boot = target[h].boot
            /\ host'[h].order # host[h].order => target[h].at = "order"
        BY <3>4 DEF Ends
      <4> QED
        BY <2>1, <3>1, <4>1 DEF Steady, Over, Ordered, Up
    <3>5. CASE GivesUpTurn(h)
      BY <2>1, <3>1, <3>5 DEF GivesUpTurn, Steady, Ordered, Up
    <3> QED
      BY <1>7, <3>2, <3>3, <3>4, <3>5 DEF Turn
  <2> QED
    BY <2>2, <2>3
<1>8. ASSUME NEW h \in Host, Falls(h)
      PROVE  \A k \in Host \ {Self} : OnBoot(k)'
  <2>1. /\ \A k \in Host \ {h} : host'[k] = host[k]
        /\ target' = target /\ ~ host'[h].order /\ Ordered(h)
    BY <1>8 DEF Falls
  <2>2. target[h].at \notin Steady
    BY <1>2, <2>1 DEF DecidedHost, Steady, Over
  <2> QED
    BY <1>2, <2>1, <2>2 DEF Ordered, Up
<1>9. ASSUME NEW h \in Host, Returns(h)
      PROVE  \A k \in Host \ {Self} : OnBoot(k)'
  <2>1. /\ \A k \in Host \ {h} : host'[k] = host[k]
        /\ target' = target /\ host'[h].order = host[h].order /\ ~ Up(h)
    BY <1>9 DEF Returns
  <2> QED
    BY <1>2, <2>1 DEF Ordered, Up
<1>10. CASE UNCHANGED vars
  BY <1>2, <1>10 DEF vars, Ordered, Up
<1> QED
  BY <1>3, <1>4, <1>5, <1>6, <1>7, <1>8, <1>9, <1>10 DEF Kinds

(* A host of the cluster that is at work is one of the inventory's nodes. *)
LEMMA WorksIsNode ==
    ASSUME Inventory, Decided, Planned, NEW h \in Host, Works(h)
    PROVE  /\ h \in InCluster => h \in KNode
           /\ h = Self => h \notin KNode
BY DEF Decided, Barred

(* A node at work has the turn. *)
LEMMA TurnsNext ==
    ASSUME Inventory, Typed, Decided, OneDown, Kinds, Running'
    PROVE  \A h \in KNode : Works(h)' /\ target'[h].at # "lock" => h \in turn'
<1>1. /\ Running => \A h \in KNode : Works(h) /\ target[h].at # "lock" => h \in turn
      /\ KNode \subseteq Host /\ Self \in Host
      /\ run.last \subseteq {Self}
      /\ turn = {} \/ \E h \in KNode : turn = {h}
  BY DEF OneDown, Inventory, Typed, RunState
<1>2. CASE Plan \/ Asked
  <2>1. \A h \in Host : target'[h].at = "wait"
    BY <1>2, PlanIsFresh DEF Fresh, Asked, Decided, At
  <2> QED
    BY <1>1, <2>1 DEF Works, Working
<1>3. CASE Quiet
  <2>1. target' = target
    BY <1>3 DEF Quiet
  <2>2. CASE Running
    <3>1. turn' = turn
      BY <1>3 DEF Quiet, Running
    <3> QED
      BY <1>1, <2>1, <2>2, <3>1 DEF Works
  <2>3. CASE ~ Running
    <3>1. run.at \in {"mark", "taint"}
      BY <1>3, <2>3 DEF Quiet, Running
    <3>2. \A h \in Host : target[h].at = "wait"
      BY <3>1 DEF Decided
    <3> QED
      BY <1>1, <2>1, <3>2 DEF Works, Working
  <2> QED
    BY <2>2, <2>3
<1>4. CASE LastOne
  <2>1. Running /\ Planned /\ turn' = turn
    BY <1>4 DEF LastOne, At, Running, Planned
  <2>2. \A h \in KNode \ run.last : target'[h] = target[h]
    BY <1>1, <1>4 DEF LastOne
  <2>3. run.last # {} => Self \in run.last /\ Self \in Selected
    BY <1>1 DEF Decided
  <2>4. \/ target'[Self].at \notin Working \/ Self \notin KNode \/ run.last = {}
    BY <1>4, <2>1, <2>3, <1>1 DEF LastOne, Decided, Barred, Working
  <2> QED
    BY <1>1, <2>1, <2>2, <2>4 DEF Works
<1>5. ASSUME NEW h \in Host, Turn(h)
      PROVE  \A k \in KNode : Works(k)' /\ target'[k].at # "lock" => k \in turn'
  <2>1. /\ Running /\ \A k \in Host \ {h} : target'[k] = target[k]
    BY <1>5 DEF Turn, Moves
  <2>2. CASE Starts(h) \/ PassedOver(h)
    <3>1. turn' = turn /\ (h \in KNode => target'[h].at \in {"lock", "done"})
      BY <2>2 DEF Starts, PassedOver, Reached
    <3> QED
      BY <1>1, <2>1, <3>1 DEF Works, Working
  <2>3. CASE GoesOn(h) \/ Ends(h)
    <3>1. Works(h) /\ Turns(h)
      BY <2>3 DEF GoesOn, Ends
    <3>2. CASE target[h].at = "lock"
      <4>1. turn = {} /\ turn' = {h}
        BY <3>1, <3>2 DEF Turns
      <4> QED
        BY <1>1, <2>1, <4>1 DEF Works
    <3>3. CASE target[h].at # "lock"
      <4>1. turn' = turn
        BY <3>1, <3>3 DEF Turns
      <4> QED
        BY <1>1, <2>1, <3>1, <3>3, <4>1 DEF Works
    <3> QED
      BY <3>2, <3>3
  <2>4. CASE GivesUpTurn(h)
    <3>1. turn' = turn \ {h} /\ target'[h].at = "done"
      BY <2>4 DEF GivesUpTurn
    <3> QED
      BY <1>1, <2>1, <3>1 DEF Works, Working
  <2> QED
    BY <1>5, <2>2, <2>3, <2>4 DEF Turn
<1>6. CASE \E h \in Host : Falls(h) \/ Returns(h)
  <2>1. target' = target /\ turn' = turn /\ (Running' => Running)
    BY <1>6 DEF Falls, Returns, Running
  <2> QED
    BY <1>1, <2>1 DEF Works
<1>7. CASE UNCHANGED vars
  BY <1>1, <1>7 DEF vars, Works, Running
<1> QED
  BY <1>2, <1>3, <1>4, <1>5, <1>6, <1>7 DEF Kinds

(* A step of a host that makes it one to go down is that of a node which found *)
(* every other node up.                                                        *)
LEMMA LeavesTurn ==
    ASSUME Inventory, Typed, Decided, OneDown, NEW h \in Host, Turn(h)
    PROVE  /\ \A k \in Host \ {h} : Leaves(k)' = Leaves(k)
           /\ Leaves(h)' => \/ Leaves(h)
                            \/ /\ target[h].at = "order"
                               /\ h \in InCluster => \A k \in InCluster \ {h} : ~ Leaves(k)
<1>1. /\ Running /\ \A k \in Host \ {h} : host'[k] = host[k]
      /\ host'[h].up = host[h].up
      /\ host[h].order \in BOOLEAN /\ host'[h].order \in BOOLEAN
  BY DEF Turn, Moves, Typed, HostState
<1>2. \A k \in Host \ {h} : Leaves(k)' = Leaves(k)
  BY <1>1 DEF Leaves, Ordered, Up
<1>3. host'[h].order # host[h].order => target[h].at = "order"
  BY DEF Turn, Starts, PassedOver, Reached, GoesOn, Ends, GivesUpTurn
<1>4. target[h].at = "order" => (h \in InCluster => \A k \in InCluster \ {h} : ~ Leaves(k))
  BY <1>1 DEF OneDown
<1> QED
  BY <1>1, <1>2, <1>3, <1>4 DEF Leaves, Ordered, Up

(* At most one node of the cluster is down or about to be. *)
LEMMA OneDownNext ==
    ASSUME Inventory, Typed, Decided, OneDown, Kinds
    PROVE  OneDown'
<1> DEFINE Others0(h) == \A k \in InCluster \ {h} : ~ Leaves(k)
           Clear == Running => \A h \in InCluster : target[h].at = "order" => Others0(h)
           Once == \A h, k \in InCluster : Leaves(h) /\ Leaves(k) => h = k
           Goal == Clear' /\ Once'
<1>1. Clear /\ Once /\ InCluster \subseteq Host /\ Self \in Host
  BY DEF OneDown, Inventory
<1>2. SUFFICES Goal
  BY TurnsNext DEF OneDown
<1>3. CASE Plan
  <2>1. Fresh(run', target') /\ host' = host
    BY <1>3, PlanIsFresh
  <2> QED
    BY <1>1, <2>1 DEF Fresh, Running, Leaves, Up, Ordered
<1>4. CASE Asked \/ Quiet
  <2>1. host' = host /\ \A h \in Host : target'[h].at = target[h].at
    BY <1>4 DEF Asked, Quiet
  <2>2. Running' => Running \/ \A h \in Host : target[h].at = "wait"
    BY <1>4 DEF Asked, Quiet, Running, Decided, At
  <2> QED
    BY <1>1, <2>1, <2>2 DEF Leaves, Up, Ordered
<1>5. CASE LastOne
  <2>1. /\ host' = host /\ Running
        /\ \A h \in Host : target'[h].at = target[h].at \/ target'[h].at \in {"guard", "done"}
    BY <1>5 DEF LastOne, Running, At, Typed, RunState
  <2> QED
    BY <1>1, <2>1 DEF Leaves, Up, Ordered
<1>6. ASSUME NEW h \in Host, Turn(h)
      PROVE  Goal
  <2>1. /\ Running /\ Planned /\ \A k \in Host \ {h} : target'[k] = target[k]
    BY <1>6 DEF Turn, Moves, Running, Planned
  <2>2. /\ \A k \in Host \ {h} : Leaves(k)' = Leaves(k)
        /\ Leaves(h)' => \/ Leaves(h)
                         \/ /\ target[h].at = "order"
                            /\ h \in InCluster => Others0(h)
    BY <1>6, LeavesTurn
  <2>3. Once'
    BY <1>1, <2>2
  <2>4. ASSUME NEW x \in InCluster, target'[x].at = "order"
        PROVE  Others0(x)'
    <3>1. CASE x = h
      <4>1. GoesOn(h) /\ Works(h)
        BY <1>6, <2>4, <3>1 DEF Turn, Starts, PassedOver, Ends, GivesUpTurn, GoesOn, Over
      <4>2. h \in KNode
        BY <2>1, <3>1, <4>1, WorksIsNode
      <4>3. Others0(h)
        BY <2>4, <3>1, <4>1, <4>2 DEF GoesOn
      <4> QED
        BY <1>1, <2>2, <3>1, <4>3
    <3>2. CASE x # h
      <4>1. target[x].at = "order" /\ Others0(x)
        BY <1>1, <2>1, <2>4, <3>2
      <4>2. h \in InCluster => ~ Leaves(h)'
        <5> SUFFICES ASSUME h \in InCluster, Leaves(h)'
                     PROVE  FALSE
          OBVIOUS
        <5>1. target[h].at = "order" /\ Works(h) /\ Works(x)
          BY <2>2, <3>2, <4>1 DEF Works, Working
        <5>2. h \in KNode /\ x \in KNode
          BY <1>1, <2>1, <5>1, WorksIsNode
        <5>3. h \in turn /\ x \in turn
          BY <2>1, <4>1, <5>1, <5>2 DEF OneDown
        <5> QED
          BY <3>2, <5>3 DEF Typed
      <4> QED
        BY <1>1, <2>2, <4>1, <4>2
    <3> QED
      BY <3>1, <3>2
  <2> QED
    BY <2>3, <2>4
<1>7. ASSUME NEW h \in Host, Falls(h)
      PROVE  Goal
  <2>1. /\ target' = target /\ (Running' => Running) /\ Leaves(h)
        /\ \A k \in Host \ {h} : host'[k] = host[k]
    BY <1>7 DEF Falls, Running, Leaves
  <2>2. \A k \in Host : Leaves(k)' => Leaves(k)
    BY <2>1 DEF Leaves, Up, Ordered
  <2> QED
    BY <1>1, <2>1, <2>2
<1>8. ASSUME NEW h \in Host, Returns(h)
      PROVE  Goal
  <2>1. /\ target' = target /\ (Running' => Running)
        /\ ~ Up(h) /\ \A k \in Host \ {h} : host'[k] = host[k]
    BY <1>8 DEF Returns, Running
  <2>2. \A k \in Host : Leaves(k)' => Leaves(k)
    BY <2>1 DEF Leaves, Up, Ordered
  <2> QED
    BY <1>1, <2>1, <2>2
<1>9. CASE UNCHANGED vars
  BY <1>1, <1>9 DEF vars, Running, Leaves, Up, Ordered
<1> QED
  BY <1>3, <1>4, <1>5, <1>6, <1>7, <1>8, <1>9 DEF Kinds

-----------------------------------------------------------------------------
(* The members of a group *)

(* A host's members have the same members, and this machine, when it goes     *)
(* last, has none but itself.                                                 *)
LEMMA MembersFacts ==
    ASSUME Inventory, Typed, NEW h \in Selected
    PROVE  /\ h \in Host /\ h \in Members(h) /\ Members(h) \subseteq Selected
           /\ \A k \in Members(h) : Members(k) = Members(h) /\ (k \in run.last <=> h \in run.last)
           /\ h \in run.last => Members(h) = {h}
           /\ h \notin run.last => Members(h) = (Group(h) \cap Selected) \ run.last
<1>1. /\ Selected \subseteq Host /\ run.last \subseteq {Self}
  BY DEF Typed, RunState, Inventory, Selected
<1>2. h \in Group(h) /\ \A k \in Group(h) : Group(k) = Group(h)
  BY <1>1, GroupFacts
<1>3. CASE h \in run.last
  BY <1>1, <1>3 DEF Members
<1>4. CASE h \notin run.last
  BY <1>1, <1>2, <1>4 DEF Members
<1> QED
  BY <1>3, <1>4

(* Who has the turn of its group is alone: the members before it are done and *)
(* did not fail when it works, those after it wait.                           *)
LEMMA Alone ==
    ASSUME Inventory, Typed, Decided, InOrder, NEW h \in Selected, Planned,
           target[h].at # "done"
    PROVE  \A k \in Members(h) \ {h} :
              /\ target[h].at # "wait" => target[k].at \in {"wait", "done"}
              /\ target[k].rank < target[h].rank \/ target[k].at = "wait"
              /\ Works(h) /\ Ordered(k) => FALSE
<1> SUFFICES ASSUME NEW k \in Members(h) \ {h}
             PROVE  /\ target[h].at # "wait" => target[k].at \in {"wait", "done"}
                    /\ target[k].rank < target[h].rank \/ target[k].at = "wait"
                    /\ Works(h) /\ Ordered(k) => FALSE
  OBVIOUS
<1>1. /\ h \in Host /\ k \in Host /\ k \in Selected /\ h \in Members(k) /\ k \in Members(h)
      /\ k \notin run.last
  <2>1. h \in Host /\ h \in Members(h) /\ k \in Selected /\ Members(k) = Members(h)
    BY MembersFacts
  <2>2. k \in Host /\ (h \in run.last => Members(h) = {h}) /\ (k \in run.last <=> h \in run.last)
    BY <2>1, MembersFacts
  <2> QED
    BY <2>1, <2>2
<1>2. target[h].rank \in Int /\ target[k].rank \in Int /\ target[h].rank # target[k].rank
  BY <1>1 DEF Typed, TargetState, InOrder, OneByOne
<1>3. target[h].rank < target[k].rank => target[k].at = "wait"
  BY <1>1 DEF InOrder, OneByOne
<1>4. target[h].at # "wait" => (target[k].rank < target[h].rank => target[k].at = "done")
  BY <1>1 DEF InOrder, OneByOne
<1>5. target[k].rank < target[h].rank \/ target[k].at = "wait"
  BY <1>2, <1>3
<1>6. ASSUME Works(h), Ordered(k)
      PROVE  FALSE
  <2>1. target[h].at # "wait" /\ ~ Failed(k)
    BY <1>1, <1>6 DEF Works, Working, InOrder, NoneFailed
  <2>2. k # Self
    BY <1>1, <1>6 DEF InOrder, SelfLast
  <2>3. target[k].at = "down" \/ (target[k].at \in Over /\ Outcome(k) = "failed")
    BY <1>1, <1>6, <2>2 DEF Decided
  <2> QED
    BY <1>4, <1>5, <2>1, <2>3 DEF Failed, Over
<1> QED
  BY <1>4, <1>5, <1>6

(* A gated host at work or about to go down is not this machine, so the       *)
(* others of its group that are in the same case are its members.             *)
LEMMA GatedMembers ==
    ASSUME Inventory, Typed, Decided, Planned, NEW h \in Host, NEW k \in Group(h) \ {h}, IsGated(h),
           Works(h) \/ Ordered(h), Works(k) \/ Ordered(k)
    PROVE  /\ h \in Selected /\ k \in Members(h) \ {h} /\ h # Self /\ k # Self
<1>1. k \in Host /\ IsGated(k)
  BY GroupFacts
<1>2. /\ h \in Selected /\ ~ target[h].skip /\ ~ target[h].fail
      /\ k \in Selected /\ ~ target[k].skip /\ ~ target[k].fail
  BY <1>1 DEF Decided
<1>3. h # Self /\ k # Self
  BY <1>1, <1>2 DEF Decided, Barred
<1>4. h \notin run.last /\ k \notin run.last
  BY <1>3 DEF Typed, RunState
<1> QED
  BY <1>2, <1>3, <1>4 DEF Members

(* What is done or at work in a step of host h, of which the group's others   *)
(* are no part.                                                               *)
LEMMA OneByOneTurn ==
    ASSUME Inventory, Typed, Decided, InOrder, NEW h \in Host, Turn(h)
    PROVE  OneByOne'
<1>1. /\ run' = run /\ Planned /\ \A k \in Host \ {h} : target'[k] = target[k]
      /\ target'[h].rank = target[h].rank
      /\ Selected' = Selected /\ \A k \in Host : Members(k)' = Members(k)
  BY DEF Turn, Moves, Running, Planned, Selected, Members
<1>2. OneByOne
  BY DEF InOrder
<1>3. target[h].at # "done"
  BY DEF Turn, Starts, PassedOver, Reached, GoesOn, Ends, GivesUpTurn, Works, Working
<1>4. Selected \subseteq Host
  BY DEF Typed, RunState, Inventory, Selected
<1>5. ASSUME NEW x \in Selected, NEW y \in Members(x), target'[x].at # "wait",
             target'[y].rank < target'[x].rank
      PROVE  target'[y].at = "done"
  <2>1. y \in Host /\ x \in Host /\ target[y].rank < target[x].rank
    <3>1. y \in Host /\ x \in Host
      BY <1>4, MembersFacts
    <3>2. \A k \in Host : target'[k].rank = target[k].rank
      BY <1>1
    <3> QED
      BY <1>5, <3>1, <3>2
  <2>2. y # x
    BY <2>1 DEF Typed, TargetState
  <2>3. target[y].at = "done"
    <3>1. CASE target[x].at # "wait"
      BY <1>2, <2>1, <3>1 DEF OneByOne
    <3>2. CASE target[x].at = "wait"
      <4>1. x = h
        BY <1>1, <1>5, <2>1, <3>2
      <4>2. Starts(h) \/ PassedOver(h)
        BY <3>2, <4>1 DEF Turn, GoesOn, Ends, GivesUpTurn, Works, Working
      <4> QED
        BY <2>1, <4>1, <4>2 DEF Starts, PassedOver, Reached
    <3> QED
      BY <3>1, <3>2
  <2> QED
    BY <1>1, <1>3, <2>1, <2>3
<1>6. ASSUME NEW x \in Selected, NEW y \in Members(x) \ {x}
      PROVE  target'[x].rank # target'[y].rank
  <2>1. x \in Host /\ y \in Host /\ target[x].rank # target[y].rank
    BY <1>1, <1>2, <1>4, MembersFacts DEF OneByOne
  <2> QED
    BY <1>1, <2>1
<1>7. \A x \in Selected : \A y \in Members(x) \ {x} : target'[x].rank # target'[y].rank
  BY <1>6
<1>8. \A x \in Selected : target'[x].at # "wait" =>
         \A y \in Members(x) : target'[y].rank < target'[x].rank => target'[y].at = "done"
  BY <1>5
<1> QED
  BY <1>1, <1>4, <1>7, <1>8 DEF OneByOne

(* Who is at work after a step was so before, or starts in it. *)
LEMMA WorksTurn ==
    ASSUME Typed, NEW h \in Host, Turn(h), Works(h)' \/ Ordered(h)'
    PROVE  Starts(h) \/ Works(h) \/ Ordered(h)
<1>1. host[h].order \in BOOLEAN /\ host'[h].order \in BOOLEAN
  BY DEF Turn, Moves, Typed, HostState
<1>2. CASE PassedOver(h) \/ GivesUpTurn(h)
  <2>1. target'[h].at = "done" /\ host'[h].order = host[h].order
    BY <1>2 DEF PassedOver, GivesUpTurn, Reached
  <2> QED
    BY <1>1, <2>1 DEF Works, Working, Ordered
<1>3. CASE GoesOn(h) \/ Ends(h)
  BY <1>3 DEF GoesOn, Ends
<1> QED
  BY <1>2, <1>3 DEF Turn

(* A step fails no host while another of its group is at work. *)
LEMMA NoneFailedTurn ==
    ASSUME Inventory, Typed, Decided, InOrder, NEW h \in Host, Turn(h)
    PROVE  NoneFailed'
<1>1. /\ run' = run /\ Planned /\ \A k \in Host \ {h} : target'[k] = target[k] /\ host'[k] = host[k]
      /\ target'[h].fail = target[h].fail
      /\ Selected' = Selected /\ \A k \in Host : Members(k)' = Members(k)
  BY DEF Turn, Moves, Running, Planned, Selected, Members
<1>2. Selected \subseteq Host
  BY DEF Typed, RunState, Inventory, Selected
<1>3. \A k \in Host \ {h} : /\ Failed(k)' = Failed(k)
                            /\ Works(k)' = Works(k) /\ Ordered(k)' = Ordered(k)
  BY <1>1 DEF Failed, Outcome, Works, Ordered
<1>4. ASSUME NEW x \in Selected, NEW y \in Members(x) \ {x}, Works(x)' \/ Ordered(x)'
      PROVE  ~ Failed(y)'
  <2>1. x \in Host /\ y \in Host /\ y \in Selected /\ x \in Members(y)
    BY <1>2, MembersFacts
  <2>2. CASE y # h
    <3>1. ~ Failed(y)
      <4>1. CASE x = h
        <5>1. Starts(h) \/ Works(h) \/ Ordered(h)
          BY <1>4, <4>1, WorksTurn
        <5> QED
          BY <4>1, <5>1, <2>1 DEF Starts, InOrder, NoneFailed
      <4>2. CASE x # h
        BY <1>3, <1>4, <2>1, <4>2 DEF InOrder, NoneFailed
      <4> QED
        BY <4>1, <4>2
    <3> QED
      BY <1>3, <2>1, <2>2, <3>1
  <2>3. CASE y = h
    <3>1. x \in Host \ {h} /\ (Works(x) \/ Ordered(x)) /\ x \in Members(h) \ {h} /\ h \in Selected
      BY <1>3, <1>4, <2>1, <2>3
    <3>2. ~ Failed(h)
      BY <2>1, <2>3, <3>1 DEF InOrder, NoneFailed
    <3>3. CASE Starts(h) \/ GoesOn(h) \/ GivesUpTurn(h)
      <4>1. Outcome(h)' = Outcome(h)
        BY <3>3 DEF Starts, GoesOn, GivesUpTurn
      <4> QED
        BY <1>1, <2>3, <3>2, <4>1 DEF Failed
    <3>4. CASE PassedOver(h)
      <4>1. Outcome(h)' # "failed"
        BY <3>2, <3>4 DEF PassedOver, Failed
      <4> QED
        BY <1>1, <2>3, <3>2, <4>1 DEF Failed
    <3>5. CASE Ends(h)
      <4>1. Works(h)
        BY <3>5 DEF Ends
      <4>2. target[h].at \notin {"wait", "done"}
        BY <4>1 DEF Works, Working
      <4>3. ~ Ordered(x) /\ target[x].at \in {"wait", "done"}
        BY <1>1, <3>1, <4>1, <4>2, Alone
      <4> QED
        BY <3>1, <4>3 DEF Works, Working
    <3> QED
      BY <3>3, <3>4, <3>5 DEF Turn
  <2> QED
    BY <2>2, <2>3
<1>5. \A x \in Selected : Works(x)' \/ Ordered(x)' => \A y \in Members(x) \ {x} : ~ Failed(y)'
  BY <1>4
<1> QED
  BY <1>1, <1>2, <1>5 DEF NoneFailed

(* Nor does it take a host down while another waits behind the group's gate. *)
LEMMA GateKeptTurn ==
    ASSUME Inventory, Typed, Decided, OneDown, InOrder, NEW h \in Host, Turn(h)
    PROVE  GateKept'
<1>1. /\ Planned /\ \A k \in Host \ {h} : target'[k] = target[k] /\ host'[k] = host[k]
  BY DEF Turn, Moves, Running, Planned
<1>2. /\ \A k \in Host \ {h} : Leaves(k)' = Leaves(k)
      /\ Leaves(h)' => Leaves(h) \/ target[h].at = "order"
  BY LeavesTurn
<1>3. host[h].order \in BOOLEAN /\ host'[h].order \in BOOLEAN
  BY DEF Turn, Moves, Typed, HostState
<1>4. ASSUME NEW x \in Host \ {Self}, NEW k \in Group(x) \ {x}, IsGated(x),
             target'[x].at \in Ready \/ Ordered(x)'
      PROVE  ~ Leaves(k)'
  <2>1. k \in Host /\ Group(k) = Group(x) /\ x \in Group(k) /\ IsGated(k)
    BY <1>4, GroupFacts
  <2>2. CASE x = h
    <3>1. CASE target[h].at \in Ready \/ Ordered(h)
      <4>1. ~ Leaves(k)
        BY <1>4, <2>2, <3>1 DEF InOrder, GateKept, Ready
      <4> QED
        BY <1>2, <2>1, <2>2, <4>1
    <3>2. CASE target[h].at \notin Ready /\ ~ Ordered(h)
      <4>1. GoesOn(h) /\ target'[h].at \in Ready
        <5>1. CASE Starts(h) \/ PassedOver(h) \/ GivesUpTurn(h)
          <6>1. target'[h].at \in {"lock", "guard", "done"} /\ host'[h].order = host[h].order
            BY <5>1 DEF Starts, PassedOver, Reached, GivesUpTurn
          <6> QED
            BY <1>4, <2>2, <3>2, <6>1 DEF Ready, Ordered
        <5>2. CASE Ends(h)
          BY <1>3, <1>4, <2>2, <3>2, <5>2 DEF Ends, Ready, Over, Ordered
        <5>3. CASE GoesOn(h)
          BY <1>3, <1>4, <2>2, <3>2, <5>3 DEF GoesOn, Ready, Ordered
        <5> QED
          BY <5>1, <5>2, <5>3 DEF Turn
      <4>2. Works(h) /\ Up(k)
        BY <1>4, <2>2, <3>2, <4>1 DEF GoesOn
      <4>3. ~ Ordered(k)
        <5> SUFFICES ASSUME Ordered(k)
                     PROVE  FALSE
          OBVIOUS
        <5>1. h \in Selected /\ k \in Members(h) \ {h}
          BY <1>1, <1>4, <2>2, <4>2, GatedMembers
        <5>2. target[h].at # "done"
          BY <4>2 DEF Works, Working
        <5> QED
          BY <1>1, <4>2, <5>1, <5>2, Alone
      <4> QED
        BY <1>2, <1>4, <2>1, <2>2, <4>2, <4>3 DEF Leaves
    <3> QED
      BY <3>1, <3>2
  <2>3. CASE x # h
    <3>1. target[x].at \in Ready \/ Ordered(x)
      BY <1>1, <1>4, <2>3 DEF Ordered
    <3>2. ~ Leaves(k)
      BY <1>4, <3>1 DEF InOrder, GateKept, Ready
    <3>3. ASSUME k = h, target[h].at = "order"
          PROVE  FALSE
      <4>1. Works(h) /\ (Works(x) \/ Ordered(x))
        BY <3>1, <3>3 DEF Works, Working, Ready
      <4>2. h \in Selected /\ x \in Members(h) \ {h}
        BY <1>1, <2>1, <2>3, <3>3, <4>1, GatedMembers
      <4>3. ~ Ordered(x) /\ target[x].at \in {"wait", "done"}
        BY <1>1, <3>3, <4>1, <4>2, Alone
      <4> QED
        BY <3>1, <4>3 DEF Ready
    <3> QED
      BY <1>2, <2>1, <3>2, <3>3
  <2> QED
    BY <2>2, <2>3
<1> QED
  BY <1>4 DEF GateKept, Ready

(* Nor anything before this machine's turn. *)
LEMMA SelfLastTurn ==
    ASSUME Inventory, Typed, Decided, InOrder, NEW h \in Host, Turn(h)
    PROVE  SelfLast'
<1>1. /\ Running /\ run' = run /\ Planned
      /\ \A k \in Host \ {h} : target'[k] = target[k] /\ host'[k] = host[k]
      /\ host[h].order \in BOOLEAN /\ host'[h].order \in BOOLEAN
  BY DEF Turn, Moves, Running, Planned, Typed, HostState
<1>2. /\ Self \in Host /\ run.last \subseteq {Self} /\ Selected \subseteq Host
  BY DEF Inventory, Typed, RunState, Selected
<1>3. target[h].at # "done"
  BY DEF Turn, Starts, PassedOver, Reached, GoesOn, Ends, GivesUpTurn, Works, Working
<1>4. CASE At("self") \/ Ordered(Self)
  <2>1. Self \in run.last /\ \A k \in Others : target[k].at = "done" /\ ~ Failed(k)
    BY <1>4 DEF InOrder, SelfLast
  <2>2. h \notin Others
    BY <1>3, <2>1
  <2>3. \A k \in Others : k \in Host \ {h}
    BY <1>2, <2>2 DEF Others
  <2>4. \A k \in Others : target'[k].at = "done" /\ ~ Failed(k)'
    BY <1>1, <2>1, <2>3 DEF Failed, Outcome
  <2>5. Others' = Others
    BY <1>1 DEF Others, Selected
  <2> QED
    BY <1>1, <2>1, <2>4, <2>5 DEF SelfLast
<1>5. CASE ~ At("self") /\ ~ Ordered(Self)
  <2>1. ~ Ordered(Self)'
    <3> SUFFICES ASSUME Ordered(Self)'
                 PROVE  FALSE
      OBVIOUS
    <3>1. h = Self
      BY <1>1, <1>2, <1>5 DEF Ordered
    <3>2. target[h].at = "order"
      BY <1>1, <1>5, <3>1 DEF Turn, Starts, PassedOver, Reached, GoesOn, Ends, GivesUpTurn, Ordered
    <3>3. h \in Selected /\ ~ target[h].skip
      BY <3>2 DEF Decided, Works, Working
    <3>4. h \in run.last
      BY <1>1, <3>1, <3>3 DEF Decided, Others
    <3>5. At("groups")
      BY <1>1, <1>5 DEF Running, At
    <3> QED
      BY <3>2, <3>4, <3>5 DEF Decided
  <2> QED
    BY <1>1, <1>5, <2>1 DEF SelfLast, At
<1> QED
  BY <1>4, <1>5

(* The order in the groups is kept by every step. *)
LEMMA InOrderNext ==
    ASSUME Inventory, Typed, Decided, OneDown, InOrder, Kinds
    PROVE  InOrder'
<1>1. /\ Selected \subseteq Host /\ run.last \subseteq {Self} /\ Self \in Host
      /\ run.last \subseteq Selected
      /\ \A h \in Host : Works(h) \/ Ordered(h) => h \in Selected
  BY DEF Typed, RunState, Inventory, Selected, Decided
<1>2. CASE Plan
  <2>1. /\ Fresh(run', target') /\ host' = host /\ \A h \in Host : ~ Ordered(h)
        /\ \A h \in Selected' : \A k \in Members(h)' \ {h} : target[h].rank' # target[k].rank'
    BY <1>2, PlanIsFresh
  <2>2. Selected' \subseteq Host
    BY <2>1 DEF Fresh, RunState, Selected, Inventory
  <2>3. \A h \in Host : target'[h].at = "wait" /\ ~ Ordered(h)' /\ ~ Works(h)'
    BY <2>1 DEF Fresh, Ordered, Works, Working
  <2>4. OneByOne' /\ NoneFailed'
    BY <2>1, <2>2, <2>3 DEF OneByOne, NoneFailed
  <2>5. GateKept' /\ SelfLast'
    BY <1>1, <2>1, <2>3 DEF Fresh, GateKept, SelfLast, At
  <2> QED
    BY <2>4, <2>5 DEF InOrder
<1>3. CASE Asked
  <2>1. /\ host' = host /\ Selected' = Selected /\ \A h \in Host : Members(h)' = Members(h)
        /\ At("ask") /\ run'.at # "self" /\ Planned
    BY <1>3 DEF Asked, Selected, Members, At, Planned
  <2>2. \A h \in Host : target'[h].at = "wait" /\ target'[h].rank = target[h].rank
    BY <1>3, <2>1 DEF Asked, Decided, At
  <2>3. \A h \in Host : ~ Ordered(h)' /\ ~ Works(h)'
    BY <1>3, <2>1, <2>2 DEF Asked, Decided, Ordered, Works, Working, Over, At
  <2>4. ASSUME NEW h \in Selected, NEW k \in Members(h) \ {h}
        PROVE  target'[h].rank # target'[k].rank
    <3>1. h \in Host /\ k \in Host /\ target[h].rank # target[k].rank
      BY <1>1, <2>1, <2>4, MembersFacts DEF InOrder, OneByOne
    <3> QED
      BY <2>2, <3>1
  <2>5. \A h \in Selected : \A k \in Members(h) \ {h} : target'[h].rank # target'[k].rank
    BY <2>4
  <2>6. OneByOne' /\ NoneFailed'
    BY <1>1, <2>1, <2>2, <2>3, <2>5 DEF OneByOne, NoneFailed
  <2>7. GateKept' /\ SelfLast'
    BY <1>1, <2>1, <2>2, <2>3 DEF GateKept, SelfLast, At
  <2> QED
    BY <2>6, <2>7 DEF InOrder
<1>4. ASSUME target' = target, run'.opt = run.opt, run'.last = run.last, Planned' => Planned,
             At("self")' => At("self"),
             \A h \in Host : (Ordered(h)' => Ordered(h)) /\ (Leaves(h)' => Leaves(h))
      PROVE  InOrder'
  <2>1. /\ Selected' = Selected /\ Others' = Others /\ \A h : Members(h)' = Members(h)
        /\ \A h : Failed(h)' = Failed(h) /\ Works(h)' = Works(h)
    BY <1>4 DEF Selected, Others, Members, Failed, Outcome, Works
  <2>2. OneByOne'
    BY <1>4, <2>1 DEF InOrder, OneByOne
  <2>3. NoneFailed'
    BY <1>1, <1>4, <2>1 DEF InOrder, NoneFailed
  <2>4. GateKept'
    <3> SUFFICES ASSUME NEW h \in Host \ {Self}, IsGated(h), NEW k \in Group(h) \ {h},
                        target'[h].at \in {"check", "runners", "gates", "order"} \/ Ordered(h)'
                 PROVE  ~ Leaves(k)'
      BY DEF GateKept
    <3>1. ~ Leaves(k)
      BY <1>4 DEF InOrder, GateKept
    <3>2. k \in Host
      BY GroupFacts
    <3> QED
      BY <1>4, <3>1, <3>2
  <2>5. SelfLast'
    BY <1>1, <1>4, <2>1 DEF InOrder, SelfLast
  <2> QED
    BY <2>2, <2>3, <2>4, <2>5 DEF InOrder
<1>5. CASE Quiet \/ UNCHANGED vars
  BY <1>4, <1>5 DEF Quiet, vars, Planned, At, Ordered, Leaves, Up
<1>6. CASE LastOne
  <2>1. /\ host' = host /\ Selected' = Selected /\ Others' = Others
        /\ \A h \in Host : Members(h)' = Members(h)
        /\ At("groups") /\ Planned /\ \A k \in Others : target[k].at = "done"
        /\ \A h \in Host \ run.last : target'[h] = target[h]
        /\ \A h \in Host : target'[h].rank = target[h].rank
    BY <1>1, <1>6 DEF LastOne, Selected, Others, Members, At, Planned
  <2>2. \A h \in Selected : \A k \in Members(h) \ {h} :
           h \in Host \ run.last /\ k \in Host \ run.last
    BY <1>1, MembersFacts
  <2>3. OneByOne'
    <3>1. ASSUME NEW h \in Selected, NEW k \in Members(h) \ {h}
          PROVE  target'[h].rank # target'[k].rank
      BY <2>1, <2>2, <3>1 DEF InOrder, OneByOne
    <3>2. ASSUME NEW h \in Selected, target'[h].at # "wait", NEW k \in Members(h),
                 target'[k].rank < target'[h].rank
          PROVE  target'[k].at = "done"
      <4>1. h \in Host /\ target[h].rank \in Int
        BY <1>1 DEF Typed, TargetState
      <4>2. k # h
        BY <2>1, <3>2, <4>1
      <4> QED
        BY <2>1, <2>2, <3>2, <4>2 DEF InOrder, OneByOne
    <3> QED
      BY <1>1, <2>1, <3>1, <3>2 DEF OneByOne
  <2>4. NoneFailed'
    <3>1. ASSUME NEW h \in Selected, NEW k \in Members(h) \ {h}, Works(h)' \/ Ordered(h)'
          PROVE  ~ Failed(k)'
      <4>1. target'[h] = target[h] /\ target'[k] = target[k]
        BY <2>1, <2>2
      <4> QED
        BY <2>1, <3>1, <4>1 DEF InOrder, NoneFailed, Works, Ordered, Failed, Outcome
    <3> QED
      BY <1>1, <2>1, <3>1 DEF NoneFailed
  <2>5. GateKept'
    <3>1. \A h \in Host \ {Self} : target'[h] = target[h]
      BY <1>1, <2>1
    <3> QED
      BY <2>1, <3>1 DEF InOrder, GateKept, Ordered, Leaves, Up
  <2>6. SelfLast'
    <3>1. \A k \in Others : k \in Host \ run.last
      BY <1>1 DEF Others
    <3>2. ASSUME At("self")'
          PROVE  Self \in run.last /\ \A k \in Others : ~ Failed(k)
      <4>1. run.last = {Self} /\ \A k \in Others : Outcome(k) # "failed"
        BY <1>6, <3>2 DEF LastOne, At
      <4>2. \A k \in Others : ~ target[k].fail
        BY <2>1, <3>1, <4>1 DEF Decided, Over
      <4> QED
        BY <4>1, <4>2 DEF Failed
    <3>3. Ordered(Self) => Self \in run.last /\ \A k \in Others : ~ Failed(k)
      BY DEF InOrder, SelfLast
    <3>4. \A k \in Others : target'[k].at = "done" /\ Failed(k)' = Failed(k)
      BY <2>1, <3>1 DEF Failed, Outcome
    <3>5. Ordered(Self)' = Ordered(Self) /\ run'.last = run.last
      BY <1>6, <2>1 DEF Ordered, LastOne
    <3> QED
      BY <2>1, <3>2, <3>3, <3>4, <3>5 DEF SelfLast
  <2> QED
    BY <2>3, <2>4, <2>5, <2>6 DEF InOrder
<1>7. ASSUME NEW h \in Host, Turn(h)
      PROVE  InOrder'
  BY <1>7, OneByOneTurn, NoneFailedTurn, GateKeptTurn, SelfLastTurn DEF InOrder
<1>8. ASSUME NEW h \in Host, Falls(h)
      PROVE  InOrder'
  <2>1. /\ target' = target /\ run'.opt = run.opt /\ run'.last = run.last
        /\ Ordered(h) /\ ~ host'[h].order /\ \A k \in Host \ {h} : host'[k] = host[k]
        /\ run' = run \/ run'.at = "killed"
    BY <1>8 DEF Falls
  <2>2. Planned
    BY <2>1 DEF Decided, Planned, Over
  <2>3. At("self")' => At("self")
    BY <2>1 DEF At
  <2>4. \A k \in Host : (Ordered(k)' => Ordered(k)) /\ (Leaves(k)' => Leaves(k))
    BY <2>1 DEF Ordered, Leaves, Up
  <2> QED
    BY <1>4, <2>1, <2>2, <2>3, <2>4
<1>9. ASSUME NEW h \in Host, Returns(h)
      PROVE  InOrder'
  <2>1. /\ target' = target /\ run' = run /\ host'[h].order = host[h].order /\ ~ Up(h)
        /\ \A k \in Host \ {h} : host'[k] = host[k]
    BY <1>9 DEF Returns
  <2>2. \A k \in Host : (Ordered(k)' => Ordered(k)) /\ (Leaves(k)' => Leaves(k))
    BY <2>1 DEF Ordered, Leaves, Up
  <2> QED
    BY <1>4, <2>1, <2>2 DEF Planned, At
<1> QED
  BY <1>2, <1>3, <1>5, <1>6, <1>7, <1>8, <1>9 DEF Kinds

-----------------------------------------------------------------------------
(* The marks *)

(* A mark that is tracked is tried again, one that is not was named. *)
LEMMA TrackedNext ==
    ASSUME Inventory, Typed, Decided, Tracked, [Next]_vars
    PROVE  Tracked'
<1> DEFINE Covered == marks \subseteq marked \cup warned
           Late == run.at \in {"unmark", "taint", "groups", "self", "clear", "ended"}
<1>1. /\ run.marks /\ Late => Covered
      /\ At("ask") => ~ run.marks
      /\ At("clear") => marked \ run.todo \subseteq warned
      /\ At("ended") /\ run.marks => marks \subseteq warned
      /\ run \in RunState /\ marks \subseteq KNode /\ KNode \subseteq Host
  BY DEF Tracked, Typed, Inventory
<1>2. CASE Plan
  <2>1. ~ run'.marks /\ run'.at = "ask"
    BY <1>2, PlanIsFresh DEF Fresh
  <2> QED
    BY <2>1 DEF Tracked, At
<1>3. CASE Ask
  <2>1. run.at = "ask" /\ run'.at \in {"ended", "groups", "mark"} /\ run'.marks = run.marks
    <3>1. run.at = "ask" /\ \E to \in {"ended", "groups", "mark"} : run' = [run EXCEPT !.at = to]
      BY <1>3 DEF Ask, At
    <3> QED
      BY <1>1, <3>1 DEF RunState
  <2> QED
    BY <2>1 DEF Tracked, At
<1>4. CASE ReadMarks
  <2>1. \/ ~ run'.marks /\ run'.at = "groups"
        \/ run'.at = "groups" /\ marks' = marks /\ warned' = Host
        \/ run'.at = "unmark" /\ marks' = marks /\ marked' = marks
    BY <1>1, <1>4 DEF ReadMarks, RunState
  <2> QED
    BY <1>1, <2>1 DEF Tracked, At
<1>5. CASE UnmarkOther
  <2>1. /\ run.at = "unmark" /\ run'.at \in {"unmark", "taint"} /\ run'.marks = run.marks
        /\ warned \subseteq warned' /\ marks' \ marked' \subseteq marks \ marked
    <3>1. At("unmark") /\ UnmarkAll("unmark", "taint", Wanted)
      BY <1>5 DEF UnmarkOther, UnmarkAll
    <3>2. /\ warned \subseteq warned' /\ marks' \ marked' \subseteq marks \ marked
          /\ run'.at \in {"unmark", "taint"} /\ run'.marks = run.marks
      BY <1>1, <3>1, UnmarkTypes DEF UnmarkAll, RunState, At
    <3> QED
      BY <3>1, <3>2 DEF At
  <2> QED
    BY <1>1, <2>1 DEF Tracked, At
<1>6. CASE TaintWanted
  <2>1. run.at = "taint"
    BY <1>6 DEF TaintWanted, At
  <2>2. CASE run' = [run EXCEPT !.at = "groups"] /\ UNCHANGED <<marks, marked, warned>>
    <3>1. run'.at = "groups" /\ run'.marks = run.marks
      BY <1>1, <2>2 DEF RunState
    <3> QED
      BY <1>1, <2>1, <2>2, <3>1 DEF Tracked, At
  <2>3. CASE \E n \in run.todo, reply \in Reply :
            /\ marks' = IF reply \in Effective THEN marks \cup {n} ELSE marks
            /\ marked' = IF reply = "done" THEN marked \cup {n} ELSE marked
            /\ warned' = IF reply = "done" THEN warned ELSE warned \cup {n}
            /\ run' = [run EXCEPT !.todo = @ \ {n}]
    <3>1. run'.at = "taint" /\ run'.marks = run.marks
      BY <1>1, <2>1, <2>3 DEF RunState
    <3>2. Covered => Covered'
      BY <2>3
    <3> QED
      BY <1>1, <2>1, <3>1, <3>2 DEF Tracked, At
  <2> QED
    BY <1>6, <2>2, <2>3 DEF TaintWanted
<1>7. CASE ClearMarks
  <2>1. run.at = "clear"
    BY <1>7 DEF ClearMarks, UnmarkAll, At
  <2>2. CASE \E n \in run.todo :
            /\ Unmark(n) /\ warned' = warned \cup ({n} \cap marked')
            /\ run' = [run EXCEPT !.todo = @ \ {n}]
    <3>1. PICK n \in run.todo :
            /\ Unmark(n) /\ warned' = warned \cup ({n} \cap marked')
            /\ run' = [run EXCEPT !.todo = run.todo \ {n}]
      BY <2>2
    <3>2. run'.at = "clear" /\ run'.marks = run.marks /\ run'.todo = run.todo \ {n}
      BY <1>1, <2>1, <3>1 DEF RunState
    <3>3. marked' \subseteq marked /\ marks' \ marked' \subseteq marks \ marked
      BY <3>1, UnmarkTypes
    <3> QED
      BY <1>1, <2>1, <3>1, <3>2, <3>3 DEF Tracked, At
  <2>3. CASE /\ run.todo = {} /\ run' = [run EXCEPT !.at = "ended", !.todo = {}]
             /\ UNCHANGED <<marks, marked, warned>>
    <3>1. run'.at = "ended" /\ run'.marks = run.marks
      BY <1>1, <2>3 DEF RunState
    <3> QED
      BY <1>1, <2>1, <2>3, <3>1 DEF Tracked, At
  <2> QED
    BY <1>7, <2>2, <2>3 DEF ClearMarks, UnmarkAll
<1>8. ASSUME NEW h \in Host, HostStep(h)
      PROVE  Tracked'
  <2>1. /\ marks' \subseteq marks /\ marked' \subseteq marked /\ warned' = warned
        /\ marks' \ marked' \subseteq marks \ marked /\ run' = run
    BY <1>8, HostStepMarks
  <2> QED
    BY <1>1, <2>1 DEF Tracked, At
<1>9. CASE RunLast
  <2>1. /\ run.at = "groups" /\ run'.at \in {"self", "clear"} /\ run'.marks = run.marks
        /\ run'.todo = marked /\ UNCHANGED <<marks, marked, warned>>
    BY <1>9, RunLastIsLastOne DEF LastOne, At
  <2> QED
    BY <1>1, <2>1 DEF Tracked, At
<1>10. CASE SelfDone
  <2>1. /\ run.at = "self" /\ run' = [run EXCEPT !.at = "clear", !.todo = marked]
        /\ UNCHANGED <<marks, marked, warned>>
    BY <1>10 DEF SelfDone, At, marking
  <2>2. run'.at = "clear" /\ run'.marks = run.marks /\ run'.todo = marked
    BY <1>1, <2>1 DEF RunState
  <2> QED
    BY <1>1, <2>1, <2>2 DEF Tracked, At
<1>11. CASE Interrupt
  <2>1. run' = [run EXCEPT !.interrupted = TRUE] /\ UNCHANGED <<marks, marked, warned>>
    BY <1>11 DEF Interrupt, marking
  <2>2. run'.at = run.at /\ run'.marks = run.marks /\ run'.todo = run.todo
    BY <1>1, <2>1 DEF RunState
  <2> QED
    BY <1>1, <2>1, <2>2 DEF Tracked, At
<1>12. CASE Kill
  <2>1. run'.at = "killed"
    BY <1>1, <1>12 DEF Kill, RunState
  <2> QED
    BY <2>1 DEF Tracked, At
<1>13. ASSUME NEW h \in Host, GoesDown(h) \/ ComesUp(h)
       PROVE  Tracked'
  <2>1. /\ UNCHANGED <<marks, marked, warned>> /\ (run' = run \/ run'.at = "killed")
    BY <1>13, GoesDownFalls, ComesUpReturns DEF Falls, Returns
  <2> QED
    BY <1>1, <2>1 DEF Tracked, At
<1>14. CASE UNCHANGED vars
  BY <1>1, <1>14 DEF vars, Tracked, At
<1> QED
  BY <1>2, <1>3, <1>4, <1>5, <1>6, <1>7, <1>8, <1>9, <1>10, <1>11, <1>12, <1>13, <1>14 DEF Next

-----------------------------------------------------------------------------
(* The theorems *)

(* A set whose members are all one has one at most. *)
LEMMA AtMostOne ==
    ASSUME NEW S, S = {} \/ \E x : S = {x}
    PROVE  Cardinality(S) <= 1
<1>1. CASE S = {}
  <2>1. Cardinality(S) = 0
    BY <1>1, FS_EmptySet
  <2> QED
    BY <2>1
<1>2. CASE \E x : S = {x}
  <2>1. PICK x : S = {x}
    BY <1>2
  <2>2. Cardinality(S) = 1
    BY <2>1, FS_Singleton
  <2> QED
    BY <2>2
<1> QED
  BY <1>1, <1>2

Inv == Typed /\ Decided /\ InStep /\ OneDown /\ InOrder /\ Tracked

(* It holds at first. *)
LEMMA InvInit ==
    ASSUME Inventory, Init
    PROVE  Inv
<1>1. /\ (CHOOSE o \in Options : TRUE) \in Options /\ 0 \in 0 .. MaxRuns
  BY DEF Inventory
<1> DEFINE opt == CHOOSE o \in Options : TRUE
<1> HIDE DEF opt
<1>2. run = [at |-> "idle", opt |-> opt, last |-> {}, todo |-> {},
             interrupted |-> FALSE, marks |-> FALSE, count |-> 0]
  BY DEF Init, opt
<1>3. run \in RunState /\ run.at = "idle" /\ run.last = {} /\ ~ run.marks
  BY <1>1, <1>2 DEF RunState, opt
<1>4. /\ NewTarget \in TargetState /\ NewTarget.at = "wait" /\ NewTarget.outcome = "none"
      /\ ~ NewTarget.skip /\ ~ NewTarget.fail
  BY DEF NewTarget, TargetState
<1>5. /\ target \in [Host -> TargetState]
      /\ \A h \in Host : target[h] = NewTarget
  BY <1>4 DEF Init
<1>6. /\ host \in [Host -> HostState]
      /\ \A h \in Host : Up(h) /\ ~ Ordered(h)
  BY DEF Init, HostState, Up, Ordered
<1>7. Typed
  BY <1>3, <1>4, <1>5, <1>6 DEF Init, Typed, Outcome
<1>8. \A h \in Host : target[h].at = "wait" /\ ~ Works(h) /\ ~ Leaves(h) /\ ~ Failed(h)
  BY <1>4, <1>5, <1>6 DEF Works, Working, Leaves, Failed, Outcome
<1>9. Selected \subseteq Host /\ InCluster \subseteq Host /\ KNode \subseteq Host /\ Self \in Host
  BY <1>3 DEF Selected, RunState, Inventory
<1>10. Decided
  BY <1>3, <1>4, <1>5, <1>6, <1>8 DEF Decided, At, Planned, Over
<1>11. InStep /\ OneDown
  BY <1>3, <1>6, <1>8, <1>9 DEF InStep, OneDown, Running
<1>12. OneByOne /\ NoneFailed
  BY <1>3, <1>6, <1>8, <1>9 DEF OneByOne, NoneFailed, Planned
<1>13. GateKept /\ SelfLast
  BY <1>3, <1>6, <1>8, <1>9 DEF GateKept, SelfLast, At
<1>14. Tracked
  BY <1>3 DEF Tracked, At
<1> QED
  BY <1>7, <1>10, <1>11, <1>12, <1>13, <1>14 DEF Inv, InOrder

(* It is kept by every step. *)
LEMMA InvNext ==
    ASSUME Inventory, Inv, [Next]_vars
    PROVE  Inv'
BY NextKinds, TypedNext, DecidedNext, InStepNext, OneDownNext, InOrderNext, TrackedNext DEF Inv

(* So it always holds. *)
LEMMA Invariance ==
    ASSUME Inventory
    PROVE  Spec => []Inv
<1>1. Init => Inv
  BY InvInit
<1>2. Inv /\ [Next]_vars => Inv'
  BY InvNext
<1> QED
  BY <1>1, <1>2, PTL DEF Spec

(* Every part of the state has its type, and one node at most holds the turn, *)
(* for any inventory, any command lines and readings, and any number of runs. *)
THEOREM TypeCorrect ==
    ASSUME Inventory
    PROVE  Spec => []TypeOK
<1>1. Inv => TypeOK
  <2> SUFFICES ASSUME Inv PROVE TypeOK
    OBVIOUS
  <2>1. /\ run \in RunState /\ target \in [Host -> TargetState] /\ host \in [Host -> HostState]
        /\ turn = {} \/ \E h \in KNode : turn = {h}
        /\ marks \subseteq KNode /\ marked \subseteq KNode /\ warned \subseteq Host
        /\ \A h \in Host : Outcome(h) \notin {"none", "next"} => target[h].at \in Over
        /\ KNode \subseteq Host
    BY DEF Inv, Typed, Inventory
  <2>2. turn \subseteq KNode /\ Cardinality(turn) <= 1
    BY <2>1, AtMostOne
  <2>3. /\ run.at \in {"idle", "ask", "mark", "unmark", "taint", "groups", "self", "clear",
                       "ended", "killed"}
        /\ run.opt \in Options /\ run.last \subseteq {Self} /\ run.todo \subseteq Host
        /\ run.interrupted \in BOOLEAN /\ run.marks \in BOOLEAN /\ run.count \in 0 .. MaxRuns
    BY <2>1 DEF RunState
  <2>4. \A h \in Host :
          /\ target[h].at \in {"wait", "lock", "guard", "bootid", "ready", "check", "runners",
                              "gates", "order", "down", "verify", "endturn", "done"}
          /\ target[h].outcome \in {"none", "skipped", "failed", "notStarted", "checked",
                                   "next", "rebooted"}
          /\ target[h].outcome \notin {"none", "next"} => target[h].at \in {"endturn", "done"}
    BY <2>1 DEF TargetState, Working, Over, Outcome
  <2> QED
    BY <2>1, <2>2, <2>3, <2>4 DEF TypeOK, HostState
<1> QED
  BY <1>1, Invariance, PTL

(* Two nodes of the cluster are never down at once, whichever groups they are *)
(* in and whatever failed, was interrupted or killed (hostReboot.run's turn   *)
(* and the gates of the node reboot).                                         *)
THEOREM NodesGoDownOneAtATime ==
    ASSUME Inventory
    PROVE  Spec => []OneNodeDown
<1>1. Inv => OneNodeDown
  <2> SUFFICES ASSUME Inv PROVE OneNodeDown
    OBVIOUS
  <2> DEFINE D == {h \in InCluster : ~ Up(h)}
  <2>1. \A h, k \in D : h = k
    BY DEF Inv, OneDown, Leaves
  <2>2. D = {} \/ \E h : D = {h}
    BY <2>1
  <2> HIDE DEF D
  <2>3. Cardinality(D) <= 1
    BY <2>2, AtMostOne
  <2> QED
    BY <2>3 DEF OneNodeDown, D
<1> QED
  BY <1>1, Invariance, PTL

(* A host goes down only in its turn: after no failure in its group, behind a *)
(* ready command only while the others are up, and this machine after all     *)
(* (runGroup, runLast).                                                       *)
THEOREM HostsRebootInTurn ==
    ASSUME Inventory
    PROVE  Spec => RebootsInTurn
<1>1. Inv /\ [Next]_vars => [DownInTurn]_vars
  <2> SUFFICES ASSUME Inv, Next
               PROVE  DownInTurn
    BY DEF vars, DownInTurn, Up
  <2>1. Typed /\ Decided /\ InOrder /\ Kinds
    BY NextKinds DEF Inv
  <2> SUFFICES ASSUME NEW h \in Host, Up(h), ~ Up(h)'
               PROVE  /\ \A k \in Members(h) \ {h} : ~ Failed(k)
                      /\ IsGated(h) => \A k \in Group(h) \ {h} : Up(k)
                      /\ h = Self => \A k \in Others : target[k].at = "done" /\ ~ Failed(k)
    BY DEF DownInTurn
  <2>2. Ordered(h)
    <3>1. CASE Plan
      BY <2>1, <3>1, PlanIsFresh DEF Up
    <3>2. CASE Asked \/ Quiet \/ LastOne \/ UNCHANGED vars
      BY <3>2 DEF Asked, Quiet, LastOne, vars, Up
    <3>3. ASSUME NEW k \in Host, Turn(k)
          PROVE  FALSE
      BY <3>3 DEF Turn, Moves, Up
    <3>4. ASSUME NEW k \in Host, Falls(k)
          PROVE  Ordered(h)
      BY <3>4 DEF Falls, Up
    <3>5. ASSUME NEW k \in Host, Returns(k)
          PROVE  FALSE
      BY <3>5 DEF Returns, Up
    <3> QED
      BY <2>1, <3>1, <3>2, <3>3, <3>4, <3>5 DEF Kinds
  <2>3. h \in Selected /\ ~ target[h].skip /\ ~ target[h].fail /\ Planned
    BY <2>1, <2>2 DEF Decided, Planned, Over
  <2>4. IsGated(h) => h # Self
    BY <2>1, <2>3 DEF Decided, Barred
  <2>5. \A k \in Members(h) \ {h} : ~ Failed(k)
    BY <2>1, <2>2, <2>3 DEF InOrder, NoneFailed
  <2>6. IsGated(h) => \A k \in Group(h) \ {h} : Up(k)
    BY <2>1, <2>2, <2>4 DEF InOrder, GateKept, Leaves
  <2>7. h = Self => \A k \in Others : target[k].at = "done" /\ ~ Failed(k)
    BY <2>1, <2>2 DEF InOrder, SelfLast
  <2> QED
    BY <2>5, <2>6, <2>7
<1>2. RebootsInTurn <=> [][DownInTurn]_vars
  BY DEF RebootsInTurn
<1> QED
  BY <1>1, <1>2, Invariance, PTL DEF Spec

(* A run that ends leaves no mark that it did not name in a warning           *)
(* (clearMarks).                                                              *)
THEOREM MarksAreAccountedFor ==
    ASSUME Inventory
    PROVE  Spec => []MarksAccountedFor
<1>1. Inv => MarksAccountedFor
  BY DEF Inv, Tracked, MarksAccountedFor
<1> QED
  BY <1>1, Invariance, PTL
==============================================================================
