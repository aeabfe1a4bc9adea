------------------------ MODULE ReservationsProofs ------------------------
(***************************************************************************)
(* Proofs about Reservations: type correctness, and that activation work   *)
(* is always covered by its run's complete reservation.                    *)
(***************************************************************************)
EXTENDS Reservations, FiniteSetTheorems, TLAPS

\* The states of a run and of an operator command, as types of ctl and op.
LEMMA NewRunType == \A i \in Run : NewRun(i) \in RunState
<1>. SUFFICES ASSUME NEW i \in Run PROVE NewRun(i) \in RunState
  OBVIOUS
<1>1. PICK h \in Changed[i] : TRUE
  BY ReservationsAssumption
<1>2. (CHOOSE x \in Changed[i] : TRUE) \in Changed[i]
  BY <1>1
<1>. QED
  BY <1>2, ReservationsAssumption DEF NewRun, RunState, Live, Holding, Exits

\* A fresh removal command is a state of an operator.
LEMMA NewOperatorType == NewOperator \in OperatorState
<1>1. PICK h \in Host : TRUE
  BY ReservationsAssumption
<1>2. (CHOOSE x \in Host : TRUE) \in Host
  BY <1>1
<1>. QED
  BY <1>2 DEF NewOperator, OperatorState

\* The placeholder of a call on a whole group is a host of the model.
LEMMA NoKeyType == NoKey \in Host
<1>1. PICK h \in Host : TRUE
  BY ReservationsAssumption
<1>. QED
  BY <1>1 DEF NoKey

\* The processes start in states of their types.
LEMMA TypeInit == Init => TypeOK
BY NewRunType, NewOperatorType DEF Init, TypeOK

\* A live run that goes on to another live phase stays a run state.
LEMMA MoveType ==
  ASSUME TypeOK, NEW i \in Run, NEW pc \in Live, Move(i, pc)
  PROVE  ctl' \in [Run -> RunState]
BY DEF TypeOK, Move, RunState

\* A run that stops on a failure stays a run state.
LEMMA StopType ==
  ASSUME TypeOK, NEW i \in Run, Stop(i)
  PROVE  ctl' \in [Run -> RunState]
<1>. DEFINE r == [ctl[i] EXCEPT !.pc = "finish", !.failed = TRUE]
<1>0. ctl[i] \in RunState /\ "finish" \in Live
  BY DEF TypeOK, Live, Holding
<1>1. r \in RunState
  BY <1>0 DEF RunState
<1>2. ctl' = [ctl EXCEPT ![i] = r]
  BY DEF TypeOK, Stop
<1>. QED
  BY <1>1, <1>2 DEF TypeOK

\* A run that exits, done or dead, is reset to a run state.
LEMMA ExitType ==
  ASSUME TypeOK, NEW i \in Run, NEW pc \in Exits, Exit(i, pc)
  PROVE  ctl' \in [Run -> RunState]
<1>. DEFINE r == [NewRun(i) EXCEPT !.pc = pc, !.cur = ctl[i].cur, !.todo = {}]
<1>1. NewRun(i) \in RunState /\ ctl[i] \in RunState
  BY NewRunType DEF TypeOK
<1>2. r \in RunState
  BY <1>1 DEF RunState
<1>. QED
  BY <1>2 DEF TypeOK, Exit

\* The authority's scripts keep the types of the store.
LEMMA StoreTypes ==
  ASSUME TypeOK, NEW i \in Run, NEW h \in Host, NEW owner,
         \/ Acquire(i) \/ TornAcquire(i)
         \/ Update(i) /\ UNCHANGED held
         \/ Remove(owner, h)
  PROVE  /\ held' \in [Host -> Run \cup {Free, Ownerless}]
         /\ meta' \in [Host -> {"none", "reserved", "started"}]
<1>1. CASE Acquire(i)
  BY <1>1 DEF TypeOK, Acquire
<1>2. CASE TornAcquire(i)
  BY <1>2 DEF TypeOK, TornAcquire
<1>3. CASE Update(i) /\ UNCHANGED held
  BY <1>3 DEF TypeOK, Update
<1>4. CASE Remove(owner, h)
  BY <1>4 DEF TypeOK, Remove
<1>. QED
  BY <1>1, <1>2, <1>3, <1>4

\* An update of one run's state, or of one operator command's, that is typed.
LEMMA CtlType ==
  ASSUME TypeOK, NEW i \in Run, NEW r \in RunState, ctl' = [ctl EXCEPT ![i] = r]
  PROVE  ctl' \in [Run -> RunState]
BY DEF TypeOK

\* Replacing one command by an operator state keeps the type of op.
LEMMA OpType ==
  ASSUME TypeOK, NEW o \in Operator, NEW s \in OperatorState, op' = [op EXCEPT ![o] = s]
  PROVE  op' \in [Operator -> OperatorState]
BY DEF TypeOK

\* A call given up on is recorded as a call: its name, its caller, its host.
LEMMA CallType ==
  ASSUME TypeOK, NEW name \in {"acquire", "update", "release"},
         NEW owner \in Run \cup {Ownerless}, NEW h \in Host,
         GivenUp(name, owner, h) \/ UNCHANGED late
  PROVE  late' \subseteq Call
BY DEF TypeOK, GivenUp, Call

\* Keeping a reservation (retain) leaves runs, metadata and late calls typed.
LEMMA RetainType ==
  ASSUME TypeOK, NEW i \in Run, Retain(i), UNCHANGED held
  PROVE  /\ ctl' \in [Run -> RunState]
         /\ meta' \in [Host -> {"none", "reserved", "started"}]
         /\ late' \subseteq Call
<1>1. ctl' \in [Run -> RunState]
  BY ExitType DEF Retain, Exits
<1>2. CASE Update(i) /\ UNCHANGED late
  BY <1>1, <1>2, StoreTypes, ReservationsAssumption DEF TypeOK
<1>3. CASE UNCHANGED <<meta, late>>
  BY <1>1, <1>3 DEF TypeOK
<1>4. CASE GivenUp("update", i, NoKey) /\ UNCHANGED meta
  BY <1>1, <1>4, CallType, NoKeyType DEF TypeOK
<1>. QED
  BY <1>2, <1>3, <1>4 DEF Retain

\* The steps of a run, one by one.
LEMMA ReserveType == ASSUME TypeOK, NEW i \in Run, Reserve(i) PROVE TypeOK'
<1>0. UNCHANGED <<front, target, ready, op>>
  BY DEF Reserve, work
<1>1. ASSUME NEW h \in Changed[i], Acquire(i), UNCHANGED late,
             ctl' = [ctl EXCEPT ![i].pc = "precheck", ![i].cur = h,
                                ![i].todo = Changed[i] \ {h}]
      PROVE  TypeOK'
  <2>. DEFINE r == [ctl[i] EXCEPT !.pc = "precheck", !.cur = h, !.todo = Changed[i] \ {h}]
  <2>2. ctl[i] \in RunState /\ "precheck" \in Live /\ h \in Host /\ Changed[i] \subseteq Host
    BY ReservationsAssumption DEF TypeOK, Live, Holding
  <2>3. r \in RunState
    BY <2>2 DEF RunState
  <2>4. ctl' = [ctl EXCEPT ![i] = r]
    BY <1>1 DEF TypeOK
  <2>5. ctl' \in [Run -> RunState]
    BY <2>3, <2>4, CtlType
  <2>6. /\ held' \in [Host -> Run \cup {Free, Ownerless}]
        /\ meta' \in [Host -> {"none", "reserved", "started"}]
    BY <1>1, StoreTypes, ReservationsAssumption
  <2>. QED
    BY <1>0, <1>1, <2>5, <2>6 DEF TypeOK
<1>2. CASE Exit(i, "done") /\ UNCHANGED store
  BY <1>0, <1>2, ExitType DEF TypeOK, Exits, store
<1>3. CASE Exit(i, "done") /\ GivenUp("acquire", i, NoKey) /\ UNCHANGED <<held, meta>>
  BY <1>0, <1>3, ExitType, CallType, NoKeyType DEF TypeOK, Exits
<1>4. CASE Exit(i, "done") /\ TornAcquire(i) /\ UNCHANGED late
  BY <1>0, <1>4, ExitType, StoreTypes, NoKeyType DEF TypeOK, Exits
<1>. QED
  BY <1>1, <1>2, <1>3, <1>4 DEF Reserve

\* The precheck keeps every variable in its type.
LEMMA PrecheckType == ASSUME TypeOK, NEW i \in Run, Precheck(i) PROVE TypeOK'
<1>0. UNCHANGED <<front, target, held, meta, late, ready, op>>
  BY DEF Precheck, work, store
<1>1. ASSUME NEW h \in CheckSet(i), ctl' = [ctl EXCEPT ![i].seen = @ \cup {h}]
      PROVE  ctl' \in [Run -> RunState]
  <2>. DEFINE r == [ctl[i] EXCEPT !.seen = @ \cup {h}]
  <2>1. h \in Host /\ ctl[i] \in RunState
    BY ReservationsAssumption DEF CheckSet, TypeOK
  <2>2. r \in RunState
    BY <2>1 DEF RunState
  <2>3. ctl' = [ctl EXCEPT ![i] = r]
    BY <1>1 DEF TypeOK
  <2>. QED
    BY <2>2, <2>3, CtlType
<1>2. ctl' \in [Run -> RunState]
  BY <1>1, MoveType, StopType DEF Precheck, Live, Holding
<1>. QED
  BY <1>0, <1>2 DEF TypeOK

\* Recording the activation locally keeps every variable in its type.
LEMMA BeginType == ASSUME TypeOK, NEW i \in Run, Begin(i) PROVE TypeOK'
<1>1. ctl' \in [Run -> RunState]
  BY MoveType, StopType DEF Begin, Live, Holding
<1>. QED
  BY <1>1 DEF Begin, TypeOK, work, store

\* Starting the activation keeps every variable in its type.
LEMMA StartActivationType ==
  ASSUME TypeOK, NEW i \in Run, StartActivation(i) PROVE TypeOK'
<1>0. UNCHANGED <<front, target, held, ready, op>>
  BY DEF StartActivation, work
<1>1. CASE /\ Update(i) /\ UNCHANGED late
           /\ ctl' = [ctl EXCEPT ![i].pc = "activate", ![i].attempted = TRUE,
                                 ![i].ambiguous = TRUE]
  <2>. DEFINE r == [ctl[i] EXCEPT !.pc = "activate", !.attempted = TRUE, !.ambiguous = TRUE]
  <2>1. ctl[i] \in RunState /\ "activate" \in Live
    BY DEF TypeOK, Live, Holding
  <2>2. r \in RunState
    BY <2>1 DEF RunState
  <2>3. ctl' = [ctl EXCEPT ![i] = r]
    BY <1>1 DEF TypeOK
  <2>4. ctl' \in [Run -> RunState]
    BY <2>2, <2>3, CtlType
  <2>5. meta' \in [Host -> {"none", "reserved", "started"}]
    BY <1>0, <1>1, StoreTypes, NoKeyType
  <2>. QED
    BY <1>0, <1>1, <2>4, <2>5 DEF TypeOK
<1>2. CASE Stop(i) /\ UNCHANGED <<meta, late>>
  BY <1>0, <1>2, StopType DEF TypeOK
<1>3. CASE Stop(i) /\ UNCHANGED meta /\ GivenUp("update", i, NoKey)
  BY <1>0, <1>3, StopType, CallType, NoKeyType DEF TypeOK
<1>. QED
  BY <1>1, <1>2, <1>3 DEF StartActivation

\* Launching the command keeps every variable in its type.
LEMMA LaunchType == ASSUME TypeOK, NEW i \in Run, Launch(i) PROVE TypeOK'
<1>1. ctl' \in [Run -> RunState]
  BY MoveType, StopType DEF Launch, Live, Holding
<1>2. front' \in [Run -> BOOLEAN]
  BY DEF Launch, TypeOK
<1>. QED
  BY <1>1, <1>2 DEF Launch, TypeOK, store

\* The return of the command keeps every variable in its type.
LEMMA CommandReturnsType ==
  ASSUME TypeOK, NEW i \in Run, CommandReturns(i) PROVE TypeOK'
<1>0. UNCHANGED <<held, meta, late, ready, op>> /\ front' \in [Run -> BOOLEAN]
  BY DEF CommandReturns, store, TypeOK
<1>1. target' \in [Run -> BOOLEAN]
  BY DEF CommandReturns, TypeOK
<1>2. CASE ctl' = [ctl EXCEPT ![i].pc = "result", ![i].ambiguous = FALSE]
  <2>. DEFINE r == [ctl[i] EXCEPT !.pc = "result", !.ambiguous = FALSE]
  <2>1. ctl[i] \in RunState /\ "result" \in Live
    BY DEF TypeOK, Live, Holding
  <2>2. r \in RunState
    BY <2>1 DEF RunState
  <2>3. ctl' = [ctl EXCEPT ![i] = r]
    BY <1>2 DEF TypeOK
  <2>. QED
    BY <1>0, <1>1, <2>2, <2>3, CtlType DEF TypeOK
<1>3. ASSUME NEW definite \in BOOLEAN,
             ctl' = [ctl EXCEPT ![i].pc = "finish", ![i].failed = TRUE,
                                ![i].ambiguous = ~definite]
      PROVE  TypeOK'
  <2>. DEFINE r == [ctl[i] EXCEPT !.pc = "finish", !.failed = TRUE, !.ambiguous = ~definite]
  <2>1. ctl[i] \in RunState /\ "finish" \in Live /\ (~definite) \in BOOLEAN
    BY DEF TypeOK, Live, Holding
  <2>2. r \in RunState
    BY <2>1 DEF RunState
  <2>3. ctl' = [ctl EXCEPT ![i] = r]
    BY <1>3 DEF TypeOK
  <2>. QED
    BY <1>0, <1>1, <2>2, <2>3, CtlType DEF TypeOK
<1>. QED
  BY <1>2, <1>3 DEF CommandReturns

\* Telling the authority the result keeps every variable in its type.
LEMMA ResultType == ASSUME TypeOK, NEW i \in Run, Result(i) PROVE TypeOK'
<1>0. UNCHANGED <<front, target, held, ready, op>>
  BY DEF Result, work
<1>1. CASE Update(i) /\ Move(i, "gate") /\ UNCHANGED late
  BY <1>0, <1>1, MoveType, StoreTypes, NoKeyType DEF TypeOK, Live, Holding
<1>2. CASE Stop(i) /\ UNCHANGED <<meta, late>>
  BY <1>0, <1>2, StopType DEF TypeOK
<1>3. CASE Stop(i) /\ UNCHANGED meta /\ GivenUp("update", i, NoKey)
  BY <1>0, <1>3, StopType, CallType, NoKeyType DEF TypeOK
<1>. QED
  BY <1>1, <1>2, <1>3 DEF Result

\* The gate after a host keeps every variable in its type.
LEMMA GateType == ASSUME TypeOK, NEW i \in Run, Gate(i) PROVE TypeOK'
<1>0. UNCHANGED <<front, target, held, meta, late, ready, op>>
  BY DEF Gate, work, store
<1>1. ASSUME NEW h \in ctl[i].todo,
             ctl' = [ctl EXCEPT ![i].pc = "precheck", ![i].cur = h,
                                ![i].todo = @ \ {h}, ![i].seen = {}]
      PROVE  ctl' \in [Run -> RunState]
  <2>. DEFINE r == [ctl[i] EXCEPT !.pc = "precheck", !.cur = h, !.todo = @ \ {h}, !.seen = {}]
  <2>1. ctl[i] \in RunState /\ "precheck" \in Live
    BY DEF TypeOK, Live, Holding
  <2>2. r \in RunState
    BY <2>1 DEF RunState
  <2>3. ctl' = [ctl EXCEPT ![i] = r]
    BY <1>1 DEF TypeOK
  <2>. QED
    BY <2>2, <2>3, CtlType
<1>2. ctl' \in [Run -> RunState]
  BY <1>1, MoveType, StopType DEF Gate, Live, Holding
<1>. QED
  BY <1>0, <1>2 DEF TypeOK

\* Starting a pass over hosts, and going on with it.
LEMMA PassType ==
  ASSUME TypeOK, NEW i \in Run, NEW pc \in {"releasing", "inspect"},
         ctl' = [ctl EXCEPT ![i].pc = pc, ![i].seen = {}]
  PROVE  ctl' \in [Run -> RunState]
<1>. DEFINE r == [ctl[i] EXCEPT !.pc = pc, !.seen = {}]
<1>1. ctl[i] \in RunState /\ pc \in Live
  BY DEF TypeOK, Live, Holding
<1>2. r \in RunState
  BY <1>1 DEF RunState
<1>3. ctl' = [ctl EXCEPT ![i] = r]
  BY DEF TypeOK
<1>. QED
  BY <1>2, <1>3, CtlType

\* Noting one more inspected host leaves a run state.
LEMMA SeenType ==
  ASSUME TypeOK, NEW i \in Run, NEW h \in Host, ctl' = [ctl EXCEPT ![i].seen = @ \cup {h}]
  PROVE  ctl' \in [Run -> RunState]
<1>. DEFINE r == [ctl[i] EXCEPT !.seen = @ \cup {h}]
<1>1. ctl[i] \in RunState
  BY DEF TypeOK
<1>2. r \in RunState
  BY <1>1 DEF RunState
<1>3. ctl' = [ctl EXCEPT ![i] = r]
  BY DEF TypeOK
<1>. QED
  BY <1>2, <1>3, CtlType

\* Finishing the run keeps every variable in its type.
LEMMA FinishType == ASSUME TypeOK, NEW i \in Run, Finish(i) PROVE TypeOK'
<1>0. UNCHANGED <<front, target, held, ready, op>>
  BY DEF Finish, work
<1>1. ASSUME NEW pc \in {"releasing", "inspect"},
             ctl' = [ctl EXCEPT ![i].pc = pc, ![i].seen = {}], UNCHANGED <<meta, late>>
      PROVE  TypeOK'
  BY <1>0, <1>1, PassType DEF TypeOK
<1>2. CASE Retain(i)
  BY <1>0, <1>2, RetainType DEF TypeOK
<1>. QED
  BY <1>1, <1>2 DEF Finish

\* Inspecting a host for surviving work keeps every variable in its type.
LEMMA InspectType == ASSUME TypeOK, NEW i \in Run, Inspect(i) PROVE TypeOK'
<1>0. UNCHANGED <<front, target, held, ready, op>>
  BY DEF Inspect, work
<1>1. ASSUME NEW h \in NextProbe(Group[i], {Controller[i]}, ctl[i].seen),
             ctl' = [ctl EXCEPT ![i].seen = @ \cup {h}], UNCHANGED <<meta, late>>
      PROVE  TypeOK'
  <2>1. h \in Host
    BY <1>1, ReservationsAssumption DEF NextProbe
  <2>. QED
    BY <1>0, <1>1, <2>1, SeenType DEF TypeOK
<1>2. CASE ctl' = [ctl EXCEPT ![i].pc = "releasing", ![i].seen = {}] /\ UNCHANGED <<meta, late>>
  BY <1>0, <1>2, PassType DEF TypeOK
<1>3. CASE Retain(i)
  BY <1>0, <1>3, RetainType DEF TypeOK
<1>. QED
  BY <1>1, <1>2, <1>3 DEF Inspect

\* Releasing the reservation keeps every variable in its type.
LEMMA ReleasingType == ASSUME TypeOK, NEW i \in Run, Releasing(i) PROVE TypeOK'
<1>0. UNCHANGED <<front, target, ready, op>>
  BY DEF Releasing, work
<1>1. ASSUME NEW h \in Group[i], Remove(i, h), UNCHANGED late,
             ctl' = [ctl EXCEPT ![i].seen = @ \cup {h}]
      PROVE  TypeOK'
  <2>1. h \in Host
    BY ReservationsAssumption
  <2>2. /\ held' \in [Host -> Run \cup {Free, Ownerless}]
        /\ meta' \in [Host -> {"none", "reserved", "started"}]
    BY <1>1, <2>1, StoreTypes
  <2>. QED
    BY <1>0, <1>1, <2>1, <2>2, SeenType DEF TypeOK
<1>2. ASSUME NEW h \in Group[i], UNCHANGED late \/ GivenUp("release", i, h),
             Exit(i, "done"), UNCHANGED <<held, meta>>
      PROVE  TypeOK'
  <2>1. h \in Host
    BY ReservationsAssumption
  <2>2. late' \subseteq Call
    BY <1>2, <2>1, CallType
  <2>. QED
    BY <1>0, <1>2, <2>2, ExitType DEF TypeOK, Exits
<1>3. CASE Exit(i, "done") /\ UNCHANGED store
  BY <1>0, <1>3, ExitType DEF TypeOK, Exits, store
<1>. QED
  BY <1>1, <1>2, <1>3 DEF Releasing

\* An interrupt keeps every variable in its type.
LEMMA InterruptType == ASSUME TypeOK, NEW i \in Run, Interrupt(i) PROVE TypeOK'
<1>0. UNCHANGED <<front, target, held, meta, late, ready, op>>
  BY DEF Interrupt, work, store
<1>1. CASE ctl' = [ctl EXCEPT ![i].interrupted = TRUE]
  <2>. DEFINE r == [ctl[i] EXCEPT !.interrupted = TRUE]
  <2>1. ctl[i] \in RunState
    BY DEF TypeOK
  <2>2. r \in RunState
    BY <2>1 DEF RunState
  <2>3. ctl' = [ctl EXCEPT ![i] = r]
    BY <1>1 DEF TypeOK
  <2>. QED
    BY <1>0, <2>2, <2>3, CtlType DEF TypeOK
<1>2. CASE Exit(i, "done")
  BY <1>0, <1>2, ExitType DEF TypeOK, Exits
<1>. QED
  BY <1>1, <1>2 DEF Interrupt

\* The death of a run keeps every variable in its type.
LEMMA CrashType == ASSUME TypeOK, NEW i \in Run, Crash(i) PROVE TypeOK'
BY ExitType DEF Crash, TypeOK, Exits, work, store


\* The environment and the operator commands.
LEMMA WorkTypes ==
  ASSUME TypeOK, NEW i \in Run,
         FrontStarts(i) \/ TargetEnds(i) \/ FrontExits(i) \/ Disrupt(i)
  PROVE  TypeOK'
<1>1. CASE FrontStarts(i)
  BY <1>1 DEF FrontStarts, TypeOK, store
<1>2. CASE TargetEnds(i)
  BY <1>2 DEF TargetEnds, TypeOK, store
<1>3. CASE FrontExits(i)
  BY <1>3 DEF FrontExits, TypeOK, store
<1>4. CASE Disrupt(i)
  BY <1>4 DEF Disrupt, TypeOK, store, work
<1>. QED
  BY <1>1, <1>2, <1>3, <1>4

\* A call that lands late keeps every variable in its type.
LEMMA LateCallType == ASSUME TypeOK, LateCall PROVE TypeOK'
<1>1. PICK k \in late :
        /\ LateAcquire(k) \/ LateUpdate(k) \/ LateRelease(k)
        /\ late' = late \ {k}
  BY DEF LateCall
<1>2. k.name = "acquire" => LateAcquire(k)
  BY <1>1 DEF LateAcquire, LateUpdate, LateRelease
<1>3. k \in Call /\ k.key \in Host
  BY <1>1 DEF TypeOK, Call
<1>4. /\ held' \in [Host -> Run \cup {Free, Ownerless}]
      /\ meta' \in [Host -> {"none", "reserved", "started"}]
  <2>1. CASE LateAcquire(k)
    <3>1. /\ held' = [h \in Host |-> IF h \in Group[k.run] THEN k.run ELSE held[h]]
          /\ meta' = [h \in Host |-> IF h \in Group[k.run] THEN "reserved" ELSE meta[h]]
      BY <2>1 DEF LateAcquire, Acquire
    <3>. QED
      BY <1>3, <3>1 DEF TypeOK, Call
  <2>2. CASE LateUpdate(k)
    BY <2>2 DEF LateUpdate, TypeOK
  <2>3. CASE LateRelease(k)
    BY <2>3, <1>3 DEF LateRelease, Remove, TypeOK
  <2>. QED
    BY <1>1, <2>1, <2>2, <2>3
<1>. QED
  BY <1>1, <1>4 DEF LateCall, TypeOK, work

\* A command that goes on, or is refused, is left in an operator state.
LEMMA OpMoveType ==
  ASSUME TypeOK, NEW o \in Operator, NEW pc \in {"probe", "remove"},
         OpMove(o, pc) \/ Refused(o)
  PROVE  op' \in [Operator -> OperatorState]
<1>1. CASE OpMove(o, pc)
  <2>. DEFINE s == [op[o] EXCEPT !.pc = pc, !.seen = {}]
  <2>1. op[o] \in OperatorState
    BY DEF TypeOK
  <2>2. s \in OperatorState
    BY <2>1 DEF OperatorState
  <2>3. op' = [op EXCEPT ![o] = s]
    BY <1>1 DEF OpMove, TypeOK
  <2>. QED
    BY <2>2, <2>3, OpType
<1>2. CASE Refused(o)
  BY <1>2, OpType, NewOperatorType DEF Refused
<1>. QED
  BY <1>1, <1>2

\* A step of a removal command keeps every variable in its type.
LEMMA OperatorStepType == ASSUME TypeOK, NEW o \in Operator, OperatorStep(o) PROVE TypeOK'
<1>1. CASE OpList(o)
  <2>1. PICK h \in Host, confirmed \in BOOLEAN :
          held[h] # Free /\ op' = [op EXCEPT ![o] =
                   [pc |-> "controller", key |-> h, owner |-> held[h],
                    keys |-> OwnedBy(held[h], h), confirmed |-> confirmed, seen |-> {}]]
    BY <1>1 DEF OpList
  <2>. DEFINE s == [pc |-> "controller", key |-> h, owner |-> held[h],
                    keys |-> OwnedBy(held[h], h), confirmed |-> confirmed, seen |-> {}]
  <2>2. OwnedBy(held[h], h) \subseteq Host /\ held[h] \in Run \cup {Ownerless}
    BY <2>1 DEF OwnedBy, TypeOK
  <2>3. s \in OperatorState
    BY <2>2 DEF OperatorState
  <2>4. op' \in [Operator -> OperatorState]
    BY <2>1, <2>3, OpType
  <2>. QED
    BY <1>1, <2>4 DEF OpList, TypeOK, work, store
<1>2. CASE OpController(o)
  <2>1. op' \in [Operator -> OperatorState]
    BY <1>2, OpMoveType DEF OpController
  <2>. QED
    BY <1>2, <2>1 DEF OpController, TypeOK, work, store
<1>3. CASE OpProbe(o)
  <2>1. ASSUME NEW h \in NextProbe(OpMembers(o), OpControllers(o), op[o].seen),
               op' = [op EXCEPT ![o].seen = @ \cup {h}]
        PROVE  op' \in [Operator -> OperatorState]
    <3>. DEFINE s == [op[o] EXCEPT !.seen = @ \cup {h}]
    <3>1. op[o] \in OperatorState
      BY DEF TypeOK
    <3>2. OpMembers(o) \subseteq Host /\ OpControllers(o) \subseteq Host
      BY <3>1, ReservationsAssumption DEF OpMembers, OpControllers, OperatorState
    <3>3. h \in Host
      BY <2>1, <3>2 DEF NextProbe
    <3>4. s \in OperatorState
      BY <3>1, <3>3 DEF OperatorState
    <3>5. op' = [op EXCEPT ![o] = s]
      BY <2>1 DEF TypeOK
    <3>. QED
      BY <3>4, <3>5, OpType
  <2>2. op' \in [Operator -> OperatorState]
    BY <1>3, <2>1, OpMoveType DEF OpProbe
  <2>. QED
    BY <1>3, <2>2 DEF OpProbe, TypeOK, work, store
<1>4. CASE OpRemove(o)
  <2>0. op[o] \in OperatorState /\ op[o].keys \subseteq Host /\ op[o].owner \in Run \cup {Ownerless}
    BY DEF TypeOK, OperatorState
  <2>1. ASSUME NEW h \in op[o].keys, Remove(op[o].owner, h), UNCHANGED late,
               op' = [op EXCEPT ![o].keys = @ \ {h}]
        PROVE  TypeOK'
    <3>. DEFINE s == [op[o] EXCEPT !.keys = @ \ {h}]
    <3>1. s \in OperatorState
      BY <2>0 DEF OperatorState
    <3>2. op' = [op EXCEPT ![o] = s]
      BY <2>1 DEF TypeOK
    <3>3. op' \in [Operator -> OperatorState]
      BY <3>1, <3>2, OpType
    <3>4. /\ held' \in [Host -> Run \cup {Free, Ownerless}]
          /\ meta' \in [Host -> {"none", "reserved", "started"}]
      BY <2>0, <2>1 DEF Remove, TypeOK
    <3>. QED
      BY <1>4, <2>1, <3>3, <3>4 DEF OpRemove, TypeOK, work
  <2>2. ASSUME NEW h \in op[o].keys,
               UNCHANGED late \/ GivenUp("release", op[o].owner, h),
               Refused(o), UNCHANGED <<held, meta>>
        PROVE  TypeOK'
    <3>1. op' \in [Operator -> OperatorState]
      BY <2>2, OpMoveType
    <3>2. late' \subseteq Call
      BY <2>2, <2>0, CallType
    <3>. QED
      BY <1>4, <2>2, <3>1, <3>2 DEF OpRemove, TypeOK, work
  <2>3. CASE Refused(o) /\ UNCHANGED store
    <3>1. op' \in [Operator -> OperatorState]
      BY <2>3, OpMoveType
    <3>. QED
      BY <1>4, <2>3, <3>1 DEF OpRemove, TypeOK, work, store
  <2>. QED
    BY <1>4, <2>1, <2>2, <2>3 DEF OpRemove
<1>. QED
  BY <1>1, <1>2, <1>3, <1>4 DEF OperatorStep

\* Every step keeps the types.
LEMMA TypeStep == TypeOK /\ [Next]_vars => TypeOK'
<1>. SUFFICES ASSUME TypeOK, [Next]_vars PROVE TypeOK'
  OBVIOUS
<1>1. ASSUME NEW i \in Run, RunStep(i) PROVE TypeOK'
  BY <1>1, ReserveType, PrecheckType, BeginType, StartActivationType, LaunchType,
     CommandReturnsType, ResultType, GateType, FinishType, InspectType, ReleasingType
     DEF RunStep
<1>2. ASSUME NEW i \in Run, Interrupt(i) \/ Crash(i) PROVE TypeOK'
  BY <1>2, InterruptType, CrashType
<1>3. ASSUME NEW o \in Operator, OperatorStep(o) PROVE TypeOK'
  BY <1>3, OperatorStepType
<1>4. CASE Environment
  <2>1. ASSUME NEW h \in Host, Rejoin(h) PROVE TypeOK'
    BY <2>1 DEF Rejoin, TypeOK, work, store
  <2>. QED
    BY <1>4, <2>1, WorkTypes, LateCallType DEF Environment
<1>5. CASE UNCHANGED vars
  BY <1>5 DEF vars, TypeOK
<1>. QED
  BY <1>1, <1>2, <1>3, <1>4, <1>5 DEF Next

(* The state of every run, operator command and reservation directory always  *)
(* has its declared type.                                                     *)
THEOREM TypeCorrect == Spec => []TypeOK
<1>. QED
  BY TypeInit, TypeStep, PTL DEF Spec

-----------------------------------------------------------------------------
(* Protected *)

\* Where a run with control state r may have work, as WorkPhases has it.
Phase(i, r, f, t) ==
    /\ r.cur \in Group[i] /\ r.todo \subseteq Group[i]
    /\ f => r.pc \in {"running", "dead"}
    /\ t => r.pc \in {"running", "finish", "inspect", "done", "dead"}
    /\ t /\ r.pc = "finish" => r.attempted /\ r.failed
    /\ t /\ r.pc = "inspect" => r.cur \notin r.seen
    /\ r.pc \in {"activate", "running", "result", "gate"} => r.attempted

\* WorkPhases, run by run: Phase of each run and its two kinds of work.
LEMMA PhaseIsWorkPhases ==
    WorkPhases <=> \A i \in Run : Phase(i, ctl[i], front[i], target[i])
BY DEF WorkPhases, Phase

\* Whatever a live run i does keeps IInv if it takes no reservation away from
\* another run, keeps its own while it holds it, and reaches a state in which
\* its work may be where it is.
LEMMA LiveStep ==
  ASSUME IInv, TypeOK', NEW i \in Run, ctl[i].pc \in Live,
         NEW r, ctl' = [ctl EXCEPT ![i] = r],
         \A j \in Run \ {i} : front'[j] = front[j] /\ target'[j] = target[j],
         UNCHANGED op,
         \A h \in Host : held[h] # Free /\ held[h] # i => held'[h] = held[h],
         r.pc \in Holding \/ Working(i)' => \A h \in Group[i] : held'[h] = i,
         Phase(i, r, front'[i], target'[i]),
         \A k \in late' \ late :
            IF k.name = "release" THEN k.run = i /\ r.pc \in Exits /\ ~Working(i)'
                                  ELSE k.run \in Run
  PROVE  IInv'
<1>. USE DEF IInv
<1>1. /\ ctl'[i] = r
      /\ \A j \in Run \ {i} : ctl'[j] = ctl[j] /\ front'[j] = front[j] /\ target'[j] = target[j]
  BY DEF TypeOK
<1>2. \A j \in Run \ {i}, h \in Host : held[h] = j => held'[h] = j
  BY ReservationsAssumption
<1>3. Owns'
  BY <1>1, <1>2, ReservationsAssumption DEF Owns
<1>4. Protected'
  BY <1>1, <1>2, ReservationsAssumption DEF Protected, Working
<1>5. WorkPhases'
  BY <1>1 DEF WorkPhases, Phase
<1>6. ~Exited(i)
  BY DEF Exited, Live, Holding, Exits
<1>7. ASSUME NEW own, Stopped(own) PROVE Stopped(own)'
  BY <1>1, <1>6, <1>7 DEF Stopped, Exited, Working
<1>8. LateStopped'
  <2>. SUFFICES ASSUME NEW k \in late'
                PROVE  IF k.name = "release" THEN Stopped(k.run)' ELSE k.run \in Run
    BY DEF LateStopped
  <2>1. CASE k \in late
    BY <2>1, <1>7 DEF LateStopped
  <2>2. CASE k \notin late
    BY <2>2, <1>1 DEF Stopped, Exited, Working
  <2>. QED
    BY <2>1, <2>2
<1>9. OperatorKnows'
  <2>. SUFFICES ASSUME NEW o \in Operator
                PROVE
        /\ op[o].pc # "idle" /\ op[o].confirmed => Stopped(op[o].owner)'
        /\ op[o].pc = "remove" => Stopped(op[o].owner)'
        /\ op[o].pc = "probe" /\ op[o].owner \in Run =>
             /\ Exited(op[o].owner)'
             /\ ctl'[op[o].owner].cur \in op[o].seen => ~target'[op[o].owner] \/ front'[op[o].owner]
             /\ Controller[op[o].owner] \in op[o].seen => ~front'[op[o].owner]
    BY DEF OperatorKnows
  <2>1. op[o].pc # "idle" /\ op[o].confirmed => Stopped(op[o].owner)'
    BY <1>7 DEF OperatorKnows
  <2>2. op[o].pc = "remove" => Stopped(op[o].owner)'
    BY <1>7 DEF OperatorKnows
  <2>3. ASSUME op[o].pc = "probe", op[o].owner \in Run
        PROVE
             /\ Exited(op[o].owner)'
             /\ ctl'[op[o].owner].cur \in op[o].seen => ~target'[op[o].owner] \/ front'[op[o].owner]
             /\ Controller[op[o].owner] \in op[o].seen => ~front'[op[o].owner]
    <3>1. Exited(op[o].owner) /\ op[o].owner # i
      BY <2>3, <1>6 DEF OperatorKnows
    <3>. QED
      BY <2>3, <3>1, <1>1 DEF OperatorKnows, Exited
  <2>. QED
    BY <2>1, <2>2, <2>3
<1>. QED
  BY <1>3, <1>4, <1>5, <1>8, <1>9

\* A live run moves on without touching its work or a reservation.
LEMMA QuietStep ==
  ASSUME IInv, TypeOK', NEW i \in Run, ctl[i].pc \in Live,
         NEW r, ctl' = [ctl EXCEPT ![i] = r],
         UNCHANGED <<front, target, held, op>>,
         r.pc \in Holding => ctl[i].pc \in Holding,
         Phase(i, r, front[i], target[i]),
         \A k \in late' \ late : k.name # "release" /\ k.run \in Run
  PROVE  IInv'
<1>1. r.pc \in Holding \/ Working(i)' => \A h \in Group[i] : held'[h] = i
  BY DEF IInv, Owns, Protected, Working
<1>. QED
  BY <1>1, LiveStep

\* What a call given up on adds to the late calls has its name and its caller.
LEMMA LateAdds ==
  ASSUME NEW name, NEW owner, NEW h, GivenUp(name, owner, h) \/ UNCHANGED late
  PROVE  \A k \in late' \ late : k.name = name /\ k.run = owner
BY DEF GivenUp

\* What a run's state gives at each of its phases.
LEMMA PhaseNow ==
  ASSUME IInv, NEW i \in Run
  PROVE  Phase(i, ctl[i], front[i], target[i]) /\ ctl[i] \in RunState
BY PhaseIsWorkPhases DEF IInv, TypeOK

\* Going on to a phase that holds the reservation, with no work running, keeps
\* IInv when an activation phase is only entered by a run that attempted one.
LEMMA MoveKeeps ==
  ASSUME IInv, TypeOK', NEW i \in Run, ctl[i].pc \in Holding,
         NEW pc \in Holding, Move(i, pc),
         ~front[i], ~target[i],
         pc \in {"activate", "running", "result", "gate"} => ctl[i].attempted,
         UNCHANGED <<front, target, held, op>>,
         \A k \in late' \ late : k.name # "release" /\ k.run \in Run
  PROVE  IInv'
<1>. DEFINE r == [ctl[i] EXCEPT !.pc = pc]
<1>1. ctl' = [ctl EXCEPT ![i] = r]
  BY DEF Move, IInv, TypeOK
<1>2. r.pc = pc /\ r.cur = ctl[i].cur /\ r.todo = ctl[i].todo /\ r.attempted = ctl[i].attempted
  BY PhaseNow DEF RunState
<1>3. Phase(i, r, front[i], target[i])
  BY <1>2, PhaseNow DEF Phase
<1>. HIDE DEF r
<1>. QED
  BY <1>1, <1>2, <1>3, QuietStep DEF Live

\* A run that holds its reservation and stops on a failure keeps IInv.
LEMMA StopKeeps ==
  ASSUME IInv, TypeOK', NEW i \in Run, ctl[i].pc \in Holding, Stop(i),
         ~front[i], ~target[i],
         UNCHANGED <<front, target, held, op>>,
         \A k \in late' \ late : k.name # "release" /\ k.run \in Run
  PROVE  IInv'
<1>. DEFINE r == [ctl[i] EXCEPT !.pc = "finish", !.failed = TRUE]
<1>1. ctl' = [ctl EXCEPT ![i] = r]
  BY DEF Stop, IInv, TypeOK
<1>2. r.pc = "finish" /\ r.cur = ctl[i].cur /\ r.todo = ctl[i].todo
  BY PhaseNow DEF RunState
<1>3. Phase(i, r, front[i], target[i])
  BY <1>2, PhaseNow DEF Phase
<1>. HIDE DEF r
<1>. QED
  BY <1>1, <1>2, <1>3, QuietStep DEF Live

\* The state a run leaves behind.
LEMMA ExitState ==
  ASSUME IInv, NEW i \in Run, NEW pc \in Exits, Exit(i, pc), NEW f, NEW t,
         f => pc = "dead"
  PROVE  \E r : /\ ctl' = [ctl EXCEPT ![i] = r]
                /\ r.pc = pc
                /\ Phase(i, r, f, t)
<1>. DEFINE r == [NewRun(i) EXCEPT !.pc = pc, !.cur = ctl[i].cur, !.todo = {}]
<1>1. r.pc = pc /\ r.cur = ctl[i].cur /\ r.todo = {}
  BY NewRunType DEF RunState
<1>2. Phase(i, r, f, t)
  BY <1>1, PhaseNow DEF Phase, Exits
<1>. QED
  BY <1>1, <1>2 DEF Exit

\* Exiting keeps IInv when a local command outlives only a run that died.
LEMMA ExitKeeps ==
  ASSUME IInv, TypeOK', NEW i \in Run, ctl[i].pc \in Live, NEW pc \in Exits, Exit(i, pc),
         front[i] => pc = "dead",
         UNCHANGED <<front, target, held, op>>,
         \A k \in late' \ late : k.name # "release" /\ k.run \in Run
  PROVE  IInv'
<1>1. PICK r : /\ ctl' = [ctl EXCEPT ![i] = r]
               /\ r.pc = pc
               /\ Phase(i, r, front[i], target[i])
  BY ExitState
<1>. QED
  BY <1>1, QuietStep DEF Exits, Holding

\* Exiting with the reservation retained keeps IInv.
LEMMA RetainKeeps ==
  ASSUME IInv, TypeOK', NEW i \in Run, ctl[i].pc \in Holding, Retain(i), ~front[i],
         UNCHANGED <<front, target, held, op>>
  PROVE  IInv'
<1>1. Exit(i, "done") /\ "done" \in Exits
  BY DEF Retain, Exits
<1>2. \A k \in late' \ late : k.name # "release" /\ k.run \in Run
  BY LateAdds DEF Retain
<1>. QED
  BY <1>1, <1>2, ExitKeeps DEF Live

\* The steps of a run keep IInv.
LEMMA ReserveKeeps == ASSUME IInv, NEW i \in Run, Reserve(i) PROVE IInv'
<1>0. /\ TypeOK' /\ ctl[i].pc = "idle" /\ "idle" \in Live /\ UNCHANGED <<front, target, op>>
      /\ ~front[i] /\ ~target[i]
  BY ReserveType, PhaseNow DEF Reserve, IInv, Phase, work, Live
<1>1. ASSUME NEW h \in Changed[i], Acquire(i), UNCHANGED late,
             ctl' = [ctl EXCEPT ![i].pc = "precheck", ![i].cur = h,
                                ![i].todo = Changed[i] \ {h}]
      PROVE  IInv'
  <2>. DEFINE r == [ctl[i] EXCEPT !.pc = "precheck", !.cur = h, !.todo = Changed[i] \ {h}]
  <2>1. ctl' = [ctl EXCEPT ![i] = r]
    BY <1>1 DEF IInv, TypeOK
  <2>2. r.pc = "precheck" /\ r.cur = h /\ r.todo = Changed[i] \ {h}
    BY PhaseNow DEF RunState
  <2>3. Phase(i, r, front'[i], target'[i])
    BY <1>0, <2>2, ReservationsAssumption DEF Phase
  <2>4. /\ \A k \in Group[i] : held'[k] = i
        /\ \A k \in Host : held[k] # Free /\ held[k] # i => held'[k] = held[k]
    BY <1>1, ReservationsAssumption DEF Acquire
  <2>. HIDE DEF r
  <2>. QED
    BY <1>0, <1>1, <2>1, <2>3, <2>4, LiveStep
<1>2. CASE Exit(i, "done") /\ UNCHANGED store
  BY <1>0, <1>2, ExitKeeps DEF store, Exits
<1>3. CASE Exit(i, "done") /\ GivenUp("acquire", i, NoKey) /\ UNCHANGED <<held, meta>>
  BY <1>0, <1>3, ExitKeeps, LateAdds DEF Exits
<1>4. CASE Exit(i, "done") /\ TornAcquire(i) /\ UNCHANGED late
  <2>1. \A k \in Host : held[k] # Free /\ held[k] # i => held'[k] = held[k]
    BY <1>4 DEF TornAcquire
  <2>2. PICK r : ctl' = [ctl EXCEPT ![i] = r] /\ r.pc = "done" /\ Phase(i, r, front'[i], target'[i])
    BY <1>0, <1>4, ExitState DEF Exits
  <2>. QED
    BY <1>0, <1>4, <2>1, <2>2, LiveStep DEF Holding, Working
<1>. QED
  BY <1>1, <1>2, <1>3, <1>4 DEF Reserve

\* The precheck keeps IInv.
LEMMA PrecheckKeeps == ASSUME IInv, NEW i \in Run, Precheck(i) PROVE IInv'
<1>0. /\ TypeOK' /\ ctl[i].pc = "precheck" /\ UNCHANGED <<front, target, held, late, op>>
      /\ ~front[i] /\ ~target[i] /\ "precheck" \in Holding /\ "begin" \in Holding
  BY PrecheckType, PhaseNow DEF Precheck, IInv, Phase, work, store, Holding
<1>1. ASSUME NEW h, ctl' = [ctl EXCEPT ![i].seen = @ \cup {h}] PROVE IInv'
  <2>. DEFINE r == [ctl[i] EXCEPT !.seen = @ \cup {h}]
  <2>1. ctl' = [ctl EXCEPT ![i] = r]
    BY <1>1 DEF IInv, TypeOK
  <2>2. r.pc = "precheck" /\ r.cur = ctl[i].cur /\ r.todo = ctl[i].todo
    BY <1>0, PhaseNow DEF RunState
  <2>3. Phase(i, r, front[i], target[i])
    BY <1>0, <2>2, PhaseNow DEF Phase
  <2>. HIDE DEF r
  <2>. QED
    BY <1>0, <2>1, <2>2, <2>3, QuietStep DEF Live
<1>. QED
  BY <1>0, <1>1, MoveKeeps, StopKeeps DEF Precheck

\* Recording the activation locally keeps IInv.
LEMMA BeginKeeps == ASSUME IInv, NEW i \in Run, Begin(i) PROVE IInv'
<1>0. /\ TypeOK' /\ ctl[i].pc = "begin" /\ UNCHANGED <<front, target, held, late, op>>
      /\ ~front[i] /\ ~target[i] /\ "begin" \in Holding /\ "start" \in Holding
  BY BeginType, PhaseNow DEF Begin, IInv, Phase, work, store, Holding
<1>. QED
  BY <1>0, MoveKeeps, StopKeeps DEF Begin

\* Starting the activation keeps IInv.
LEMMA StartActivationKeeps == ASSUME IInv, NEW i \in Run, StartActivation(i) PROVE IInv'
<1>0. /\ TypeOK' /\ ctl[i].pc = "start" /\ UNCHANGED <<front, target, held, op>>
      /\ ~front[i] /\ ~target[i] /\ "start" \in Holding
  BY StartActivationType, PhaseNow DEF StartActivation, IInv, Phase, work, Holding
<1>1. CASE /\ UNCHANGED late
           /\ ctl' = [ctl EXCEPT ![i].pc = "activate", ![i].attempted = TRUE,
                                 ![i].ambiguous = TRUE]
  <2>. DEFINE r == [ctl[i] EXCEPT !.pc = "activate", !.attempted = TRUE, !.ambiguous = TRUE]
  <2>1. ctl' = [ctl EXCEPT ![i] = r]
    BY <1>1 DEF IInv, TypeOK
  <2>2. r.pc = "activate" /\ r.cur = ctl[i].cur /\ r.todo = ctl[i].todo /\ r.attempted
    BY PhaseNow DEF RunState
  <2>3. Phase(i, r, front[i], target[i])
    BY <1>0, <2>2, PhaseNow DEF Phase
  <2>. HIDE DEF r
  <2>. QED
    BY <1>0, <1>1, <2>1, <2>2, <2>3, QuietStep DEF Live
<1>2. CASE Stop(i) /\ (UNCHANGED late \/ GivenUp("update", i, NoKey))
  BY <1>0, <1>2, StopKeeps, LateAdds
<1>. QED
  BY <1>1, <1>2 DEF StartActivation

\* Launching the command keeps IInv.
LEMMA LaunchKeeps == ASSUME IInv, NEW i \in Run, Launch(i) PROVE IInv'
<1>0. /\ TypeOK' /\ ctl[i].pc = "activate" /\ UNCHANGED <<target, held, late, op>>
      /\ ~front[i] /\ ~target[i] /\ "activate" \in Holding
  BY LaunchType, PhaseNow DEF Launch, IInv, Phase, store, Holding
<1>1. CASE Stop(i) /\ UNCHANGED front
  BY <1>0, <1>1, StopKeeps
<1>2. CASE Move(i, "running") /\ front' = [front EXCEPT ![i] = TRUE]
  <2>. DEFINE r == [ctl[i] EXCEPT !.pc = "running"]
  <2>1. ctl' = [ctl EXCEPT ![i] = r]
    BY <1>2 DEF Move, IInv, TypeOK
  <2>2. r.pc = "running" /\ r.cur = ctl[i].cur /\ r.todo = ctl[i].todo /\ r.attempted = ctl[i].attempted
    BY PhaseNow DEF RunState
  <2>3. Phase(i, r, front'[i], target'[i])
    BY <1>0, <2>2, PhaseNow DEF Phase
  <2>4. \A j \in Run \ {i} : front'[j] = front[j] /\ target'[j] = target[j]
    BY <1>0, <1>2 DEF IInv, TypeOK
  <2>5. \A h \in Group[i] : held'[h] = i
    BY <1>0 DEF IInv, Owns
  <2>. HIDE DEF r
  <2>. QED
    BY <1>0, <2>1, <2>2, <2>3, <2>4, <2>5, LiveStep DEF Live
<1>. QED
  BY <1>1, <1>2 DEF Launch

\* The return of the command keeps IInv.
LEMMA CommandReturnsKeeps == ASSUME IInv, NEW i \in Run, CommandReturns(i) PROVE IInv'
<1>0. /\ TypeOK' /\ ctl[i].pc = "running" /\ UNCHANGED <<held, late, op>>
      /\ ctl[i].attempted /\ "running" \in Holding /\ ~front'[i]
      /\ \A j \in Run \ {i} : front'[j] = front[j] /\ target'[j] = target[j]
      /\ \A h \in Group[i] : held'[h] = i
  <2>1. TypeOK' /\ ctl[i].pc = "running" /\ UNCHANGED <<held, late, op>>
    BY CommandReturnsType DEF CommandReturns, IInv, store
  <2>2. ctl[i].attempted /\ "running" \in Holding
    BY <2>1, PhaseNow DEF Phase, Holding
  <2>3. ~front'[i] /\ \A j \in Run \ {i} : front'[j] = front[j] /\ target'[j] = target[j]
    BY DEF CommandReturns, IInv, TypeOK
  <2>4. \A h \in Group[i] : held'[h] = i
    BY <2>1, <2>2 DEF IInv, Owns
  <2>. QED
    BY <2>1, <2>2, <2>3, <2>4
<1>1. CASE /\ ~target[i] /\ UNCHANGED target
           /\ ctl' = [ctl EXCEPT ![i].pc = "result", ![i].ambiguous = FALSE]
  <2>. DEFINE r == [ctl[i] EXCEPT !.pc = "result", !.ambiguous = FALSE]
  <2>1. ctl' = [ctl EXCEPT ![i] = r]
    BY <1>1 DEF IInv, TypeOK
  <2>2. r.pc = "result" /\ r.cur = ctl[i].cur /\ r.todo = ctl[i].todo /\ r.attempted = ctl[i].attempted
    BY PhaseNow DEF RunState
  <2>3. Phase(i, r, front'[i], target'[i])
    BY <1>0, <1>1, <2>2, PhaseNow DEF Phase
  <2>. HIDE DEF r
  <2>. QED
    BY <1>0, <2>1, <2>2, <2>3, LiveStep DEF Live
<1>2. ASSUME NEW definite,
             ctl' = [ctl EXCEPT ![i].pc = "finish", ![i].failed = TRUE,
                                ![i].ambiguous = ~definite]
      PROVE  IInv'
  <2>. DEFINE r == [ctl[i] EXCEPT !.pc = "finish", !.failed = TRUE, !.ambiguous = ~definite]
  <2>1. ctl' = [ctl EXCEPT ![i] = r]
    BY <1>2 DEF IInv, TypeOK
  <2>2. r.pc = "finish" /\ r.cur = ctl[i].cur /\ r.todo = ctl[i].todo /\ r.attempted = ctl[i].attempted /\ r.failed
    BY PhaseNow DEF RunState
  <2>3. Phase(i, r, front'[i], target'[i])
    BY <1>0, <2>2, PhaseNow DEF Phase
  <2>. HIDE DEF r
  <2>. QED
    BY <1>0, <2>1, <2>2, <2>3, LiveStep DEF Live
<1>. QED
  BY <1>1, <1>2 DEF CommandReturns

\* Telling the authority the result keeps IInv.
LEMMA ResultKeeps == ASSUME IInv, NEW i \in Run, Result(i) PROVE IInv'
<1>0. /\ TypeOK' /\ ctl[i].pc = "result" /\ UNCHANGED <<front, target, held, op>>
      /\ ctl[i].attempted /\ ~front[i] /\ ~target[i]
      /\ "result" \in Holding /\ "gate" \in Holding
  BY ResultType, PhaseNow DEF Result, IInv, Phase, work, Holding
<1>1. \A k \in late' \ late : k.name # "release" /\ k.run \in Run
  BY LateAdds DEF Result
<1>. QED
  BY <1>0, <1>1, MoveKeeps, StopKeeps DEF Result

\* The gate after a host keeps IInv.
LEMMA GateKeeps == ASSUME IInv, NEW i \in Run, Gate(i) PROVE IInv'
<1>0. /\ TypeOK' /\ ctl[i].pc = "gate" /\ UNCHANGED <<front, target, held, late, op>>
      /\ ~front[i] /\ ~target[i] /\ "gate" \in Holding /\ "finish" \in Holding
  BY GateType, PhaseNow DEF Gate, IInv, Phase, work, store, Holding
<1>1. ASSUME NEW h \in ctl[i].todo,
             ctl' = [ctl EXCEPT ![i].pc = "precheck", ![i].cur = h,
                                ![i].todo = @ \ {h}, ![i].seen = {}]
      PROVE  IInv'
  <2>. DEFINE r == [ctl[i] EXCEPT !.pc = "precheck", !.cur = h, !.todo = @ \ {h}, !.seen = {}]
  <2>1. ctl' = [ctl EXCEPT ![i] = r]
    BY <1>1 DEF IInv, TypeOK
  <2>2. r.pc = "precheck" /\ r.cur = h /\ r.todo = ctl[i].todo \ {h}
    BY PhaseNow DEF RunState
  <2>3. h \in Group[i] /\ r.todo \subseteq Group[i]
    BY <1>1, <2>2, PhaseNow DEF Phase
  <2>4. Phase(i, r, front[i], target[i])
    BY <1>0, <2>2, <2>3 DEF Phase
  <2>. HIDE DEF r
  <2>. QED
    BY <1>0, <2>1, <2>2, <2>4, QuietStep DEF Live
<1>. QED
  BY <1>0, <1>1, MoveKeeps, StopKeeps DEF Gate

\* Finishing the run keeps IInv.
LEMMA FinishKeeps == ASSUME IInv, NEW i \in Run, Finish(i) PROVE IInv'
<1>0. /\ TypeOK' /\ ctl[i].pc = "finish" /\ UNCHANGED <<front, target, held, op>>
      /\ ~front[i] /\ "finish" \in Holding
      /\ target[i] => ctl[i].attempted /\ ctl[i].failed
  BY FinishType, PhaseNow DEF Finish, IInv, Phase, work, Holding
<1>1. ASSUME NEW pc \in {"releasing", "inspect"},
             pc = "releasing" => ~target[i],
             ctl' = [ctl EXCEPT ![i].pc = pc, ![i].seen = {}], UNCHANGED <<meta, late>>
      PROVE  IInv'
  <2>. DEFINE r == [ctl[i] EXCEPT !.pc = pc, !.seen = {}]
  <2>1. ctl' = [ctl EXCEPT ![i] = r]
    BY <1>1 DEF IInv, TypeOK
  <2>2. r.pc = pc /\ r.cur = ctl[i].cur /\ r.todo = ctl[i].todo /\ r.seen = {}
    BY PhaseNow DEF RunState
  <2>. HIDE DEF r
  <2>3. Phase(i, r, front[i], target[i])
    <3>1. Phase(i, ctl[i], front[i], target[i])
      BY PhaseNow
    <3>. QED
      BY <1>0, <1>1, <2>2, <3>1 DEF Phase
  <2>4. /\ r.pc \in Holding => ctl[i].pc \in Holding
        /\ ctl[i].pc \in Live
        /\ \A k \in late' \ late : k.name # "release" /\ k.run \in Run
    BY <1>0, <1>1 DEF Live
  <2>. QED
    BY <1>0, <2>1, <2>3, <2>4, QuietStep
<1>2. CASE Retain(i)
  BY <1>0, <1>2, RetainKeeps
<1>. QED
  BY <1>0, <1>1, <1>2 DEF Finish

\* Inspecting a host for surviving work keeps IInv.
LEMMA InspectKeeps == ASSUME IInv, NEW i \in Run, Inspect(i) PROVE IInv'
<1>0. /\ TypeOK' /\ ctl[i].pc = "inspect" /\ UNCHANGED <<front, target, held, op>>
      /\ ~front[i] /\ "inspect" \in Holding
      /\ target[i] => ctl[i].cur \notin ctl[i].seen
  BY InspectType, PhaseNow DEF Inspect, IInv, Phase, work, Holding
<1>1. ASSUME NEW h, ~Visible(h),
             ctl' = [ctl EXCEPT ![i].seen = @ \cup {h}], UNCHANGED <<meta, late>>
      PROVE  IInv'
  <2>. DEFINE r == [ctl[i] EXCEPT !.seen = @ \cup {h}]
  <2>1. ctl' = [ctl EXCEPT ![i] = r]
    BY <1>1 DEF IInv, TypeOK
  <2>2. /\ r.pc = "inspect" /\ r.cur = ctl[i].cur /\ r.todo = ctl[i].todo /\ r.seen = ctl[i].seen \cup {h}
        /\ r.attempted = ctl[i].attempted
    BY <1>0, PhaseNow DEF RunState
  <2>3. target[i] => h # ctl[i].cur
    BY <1>1 DEF Visible
  <2>4. Phase(i, r, front[i], target[i])
    BY <1>0, <2>2, <2>3, PhaseNow DEF Phase
  <2>. HIDE DEF r
  <2>. QED
    BY <1>0, <1>1, <2>1, <2>2, <2>4, QuietStep DEF Live
<1>2. CASE /\ Group[i] \cup {Controller[i]} \subseteq ctl[i].seen
           /\ ctl' = [ctl EXCEPT ![i].pc = "releasing", ![i].seen = {}]
           /\ UNCHANGED <<meta, late>>
  <2>. DEFINE r == [ctl[i] EXCEPT !.pc = "releasing", !.seen = {}]
  <2>1. ctl' = [ctl EXCEPT ![i] = r]
    BY <1>2 DEF IInv, TypeOK
  <2>2. r.pc = "releasing" /\ r.cur = ctl[i].cur /\ r.todo = ctl[i].todo
    BY PhaseNow DEF RunState
  <2>3. ~target[i]
    BY <1>0, <1>2, PhaseNow DEF Phase
  <2>4. Phase(i, r, front[i], target[i])
    BY <1>0, <2>2, <2>3, PhaseNow DEF Phase
  <2>. HIDE DEF r
  <2>. QED
    BY <1>0, <1>2, <2>1, <2>2, <2>4, QuietStep DEF Live, Holding
<1>3. CASE Retain(i)
  BY <1>0, <1>3, RetainKeeps
<1>. QED
  BY <1>1, <1>2, <1>3 DEF Inspect

\* Releasing the reservation keeps IInv.
LEMMA ReleasingKeeps == ASSUME IInv, NEW i \in Run, Releasing(i) PROVE IInv'
<1>0. /\ TypeOK' /\ ctl[i].pc = "releasing" /\ "releasing" \in Live
      /\ UNCHANGED <<front, target, op>> /\ ~front[i] /\ ~target[i] /\ ~Working(i)'
  BY ReleasingType, PhaseNow DEF Releasing, IInv, Phase, work, Live, Working
<1>1. ASSUME NEW h \in Group[i], Remove(i, h), UNCHANGED late,
             ctl' = [ctl EXCEPT ![i].seen = @ \cup {h}]
      PROVE  IInv'
  <2>. DEFINE r == [ctl[i] EXCEPT !.seen = @ \cup {h}]
  <2>1. ctl' = [ctl EXCEPT ![i] = r]
    BY <1>1 DEF IInv, TypeOK
  <2>2. r.pc = "releasing" /\ r.cur = ctl[i].cur /\ r.todo = ctl[i].todo
    BY <1>0, PhaseNow DEF RunState
  <2>3. Phase(i, r, front'[i], target'[i])
    BY <1>0, <2>2, PhaseNow DEF Phase
  <2>4. \A k \in Host : held[k] # Free /\ held[k] # i => held'[k] = held[k]
    BY <1>1 DEF Remove, IInv, TypeOK
  <2>. HIDE DEF r
  <2>. QED
    BY <1>0, <1>1, <2>1, <2>2, <2>3, <2>4, LiveStep DEF Holding
<1>2. ASSUME NEW h, UNCHANGED late \/ GivenUp("release", i, h),
             Exit(i, "done"), UNCHANGED <<held, meta>>
      PROVE  IInv'
  <2>1. PICK r : ctl' = [ctl EXCEPT ![i] = r] /\ r.pc = "done" /\ Phase(i, r, front'[i], target'[i])
    BY <1>0, <1>2, ExitState DEF Exits
  <2>2. \A k \in late' \ late : k.name = "release" /\ k.run = i
    BY <1>2, LateAdds
  <2>. QED
    BY <1>0, <1>2, <2>1, <2>2, LiveStep DEF Holding, Exits
<1>. QED
  BY <1>1, <1>2 DEF Releasing, store

\* An interrupt keeps IInv.
LEMMA InterruptKeeps == ASSUME IInv, NEW i \in Run, Interrupt(i) PROVE IInv'
<1>0. /\ TypeOK' /\ ctl[i].pc \in Live /\ UNCHANGED <<front, target, held, late, op>>
  BY InterruptType DEF Interrupt, IInv, work, store
<1>1. CASE ctl' = [ctl EXCEPT ![i].interrupted = TRUE]
  <2>. DEFINE r == [ctl[i] EXCEPT !.interrupted = TRUE]
  <2>1. ctl' = [ctl EXCEPT ![i] = r]
    BY <1>1 DEF IInv, TypeOK
  <2>2. /\ r.pc = ctl[i].pc /\ r.cur = ctl[i].cur /\ r.todo = ctl[i].todo /\ r.seen = ctl[i].seen
        /\ r.attempted = ctl[i].attempted /\ r.failed = ctl[i].failed
    BY PhaseNow DEF RunState
  <2>3. Phase(i, r, front[i], target[i])
    BY <2>2, PhaseNow DEF Phase
  <2>. HIDE DEF r
  <2>. QED
    BY <1>0, <2>1, <2>2, <2>3, QuietStep
<1>2. CASE ctl[i].pc = "idle" /\ Exit(i, "done")
  BY <1>0, <1>2, PhaseNow, ExitKeeps DEF Exits, Phase
<1>. QED
  BY <1>1, <1>2 DEF Interrupt

\* The death of a run keeps IInv.
LEMMA CrashKeeps == ASSUME IInv, NEW i \in Run, Crash(i) PROVE IInv'
<1>0. /\ TypeOK' /\ ctl[i].pc \in Live /\ UNCHANGED <<front, target, held, late, op>>
      /\ Exit(i, "dead") /\ "dead" \in Exits
  BY CrashType DEF Crash, IInv, work, store, Exits
<1>. QED
  BY <1>0, ExitKeeps

\* Work that goes on, or ends, by itself.  Only here does the order in which
\* an operator's inspection and an orphan's end fall matter.
LEMMA WorkKeeps ==
  ASSUME IInv, "dropMidInspection" \notin Faults, NEW i \in Run,
         FrontStarts(i) \/ TargetEnds(i) \/ FrontExits(i)
  PROVE  IInv'
<1>0. /\ TypeOK' /\ UNCHANGED <<ctl, held, late, op>>
      /\ \A j \in Run \ {i} : front'[j] = front[j] /\ target'[j] = target[j]
  BY WorkTypes DEF IInv, TypeOK, FrontStarts, TargetEnds, FrontExits, store
<1>1. /\ front'[i] => front[i]
      /\ target'[i] => target[i] \/ front[i]
      /\ front[i] /\ ~front'[i] => Exited(i)
  BY DEF IInv, TypeOK, FrontStarts, TargetEnds, FrontExits
<1>2. Owns'
  BY <1>0 DEF IInv, Owns
<1>3. Protected'
  BY <1>0, <1>1 DEF IInv, Protected, Working
<1>4. WorkPhases'
  <2>1. front[i] => ctl[i].pc \in {"running", "dead"}
    BY DEF IInv, WorkPhases
  <2>. QED
    BY <1>0, <1>1, <2>1 DEF IInv, WorkPhases
<1>5. ASSUME NEW own, Stopped(own) PROVE Stopped(own)'
  BY <1>0, <1>1, <1>5 DEF Stopped, Exited, Working
<1>6. LateStopped'
  BY <1>0, <1>5 DEF IInv, LateStopped
<1>7. OperatorKnows'
  <2>. SUFFICES ASSUME NEW o \in Operator
                PROVE
        /\ op[o].pc # "idle" /\ op[o].confirmed => Stopped(op[o].owner)'
        /\ op[o].pc = "remove" => Stopped(op[o].owner)'
        /\ op[o].pc = "probe" /\ op[o].owner \in Run =>
             /\ Exited(op[o].owner)
             /\ ctl[op[o].owner].cur \in op[o].seen => ~target'[op[o].owner] \/ front'[op[o].owner]
             /\ Controller[op[o].owner] \in op[o].seen => ~front'[op[o].owner]
    BY <1>0 DEF OperatorKnows, Exited
  <2>1. /\ op[o].pc # "idle" /\ op[o].confirmed => Stopped(op[o].owner)'
        /\ op[o].pc = "remove" => Stopped(op[o].owner)'
    BY <1>0, <1>5 DEF IInv, OperatorKnows
  <2>2. ASSUME op[o].pc = "probe", op[o].owner \in Run
        PROVE
             /\ Exited(op[o].owner)
             /\ ctl[op[o].owner].cur \in op[o].seen => ~target'[op[o].owner] \/ front'[op[o].owner]
             /\ Controller[op[o].owner] \in op[o].seen => ~front'[op[o].owner]
    <3>1. /\ Exited(op[o].owner)
          /\ ctl[op[o].owner].cur \in op[o].seen => ~target[op[o].owner] \/ front[op[o].owner]
          /\ Controller[op[o].owner] \in op[o].seen => ~front[op[o].owner]
      BY <2>2 DEF IInv, OperatorKnows
    <3>2. CASE op[o].owner # i
      BY <1>0, <2>2, <3>1, <3>2
    <3>3. CASE op[o].owner = i
      <4>1. CASE FrontStarts(i)
        BY <3>1, <3>3, <4>1 DEF FrontStarts, IInv, TypeOK
      <4>2. CASE TargetEnds(i)
        BY <3>1, <3>3, <4>2 DEF TargetEnds, IInv, TypeOK
      <4>3. CASE FrontExits(i)
        BY <2>2, <3>1, <3>3, <4>3 DEF FrontExits, IInv, TypeOK
      <4>. QED
        BY <4>1, <4>2, <4>3
    <3>. QED
      BY <3>2, <3>3
  <2>. QED
    BY <2>1, <2>2
<1>. QED
  BY <1>0, <1>2, <1>3, <1>4, <1>6, <1>7 DEF IInv

\* A step that leaves runs, work and operator commands alone, and takes
\* nothing from an owner that has not stopped.
LEMMA StoreStep ==
  ASSUME IInv, TypeOK', UNCHANGED <<ctl, front, target, op>>, late' \subseteq late,
         \A h \in Host : held[h] \in Run /\ ~Stopped(held[h]) => held'[h] = held[h]
  PROVE  IInv'
<1>1. Owns'
  <2>. SUFFICES ASSUME NEW i \in Run, ctl[i].pc \in Holding, NEW h \in Group[i]
                PROVE  held'[h] = i
    BY DEF Owns
  <2>1. held[h] = i /\ h \in Host
    BY ReservationsAssumption DEF IInv, Owns
  <2>2. ~Stopped(i)
    BY DEF Stopped, Exited, Holding, Exits
  <2>. QED
    BY <2>1, <2>2
<1>2. Protected'
  <2>. SUFFICES ASSUME NEW i \in Run, Working(i), NEW h \in Group[i]
                PROVE  held'[h] = i
    BY DEF Protected, Working
  <2>1. held[h] = i /\ h \in Host
    BY ReservationsAssumption DEF IInv, Protected
  <2>. QED
    BY <2>1 DEF Stopped
<1>3. WorkPhases' /\ LateStopped' /\ OperatorKnows'
  BY DEF IInv, WorkPhases, LateStopped, OperatorKnows, Stopped, Exited, Working
<1>. QED
  BY <1>1, <1>2, <1>3 DEF IInv

\* A call that lands late keeps IInv.
LEMMA LateCallKeeps == ASSUME IInv, LateCall PROVE IInv'
<1>0. TypeOK' /\ UNCHANGED <<ctl, front, target, op>>
  BY LateCallType DEF IInv, LateCall, work
<1>1. PICK k \in late :
        /\ LateAcquire(k) \/ LateUpdate(k) \/ LateRelease(k)
        /\ late' = late \ {k}
  BY DEF LateCall
<1>2. CASE LateAcquire(k)
  <2>1. \A h \in Host : held[h] \in Run => held'[h] = held[h]
    BY <1>2, ReservationsAssumption DEF LateAcquire, Acquire
  <2>. QED
    BY <1>0, <1>1, <2>1, StoreStep
<1>3. CASE LateUpdate(k)
  BY <1>0, <1>1, <1>3, StoreStep DEF LateUpdate
<1>4. CASE LateRelease(k)
  <2>1. Stopped(k.run)
    BY <1>1, <1>4 DEF IInv, LateStopped, LateRelease
  <2>2. \A h \in Host : held[h] \in Run /\ ~Stopped(held[h]) => held'[h] = held[h]
    BY <1>4, <2>1 DEF LateRelease, Remove, IInv, TypeOK
  <2>. QED
    BY <1>0, <1>1, <2>2, StoreStep
<1>. QED
  BY <1>1, <1>2, <1>3, <1>4

\* What an operator command may know after a step of its own.
KnowsOf(s) ==
    /\ s.pc # "idle" /\ s.confirmed => Stopped(s.owner)
    /\ s.pc = "remove" => Stopped(s.owner)
    /\ s.pc = "probe" /\ s.owner \in Run =>
         /\ Exited(s.owner)
         /\ ctl[s.owner].cur \in s.seen => ~target[s.owner] \/ front[s.owner]
         /\ Controller[s.owner] \in s.seen => ~front[s.owner]

\* OperatorKnows, command by command: KnowsOf of each state of op.
LEMMA KnowsIsOperatorKnows == OperatorKnows <=> \A o \in Operator : KnowsOf(op[o])
BY DEF OperatorKnows, KnowsOf

\* A step of one command that touches nothing else keeps IInv when what the
\* command then relies on (KnowsOf) is true.
LEMMA OpStep ==
  ASSUME IInv, TypeOK', NEW o \in Operator, NEW s, op' = [op EXCEPT ![o] = s],
         UNCHANGED <<ctl, front, target, held, late>>, KnowsOf(s)
  PROVE  IInv'
<1>1. \A p \in Operator : op'[p] = IF p = o THEN s ELSE op[p]
  BY DEF IInv, TypeOK
<1>2. \A p \in Operator : KnowsOf(op'[p])
  BY <1>1, KnowsIsOperatorKnows DEF IInv
<1>3. OperatorKnows'
  BY <1>2 DEF OperatorKnows, KnowsOf, Stopped, Exited, Working
<1>4. Owns' /\ Protected' /\ WorkPhases' /\ LateStopped'
  BY DEF IInv, Owns, Protected, WorkPhases, LateStopped, Stopped, Exited, Working
<1>. QED
  BY <1>3, <1>4 DEF IInv

\* A command that goes on keeps IInv: a confirmed owner is a stopped one, and
\* only a stopped owner is taken to the removal.
LEMMA OpMoveKeeps ==
  ASSUME IInv, TypeOK', NEW o \in Operator, NEW pc \in {"probe", "remove"}, OpMove(o, pc),
         op[o].confirmed => Stopped(op[o].owner),
         pc = "remove" => Stopped(op[o].owner),
         op[o].owner \in Run => Exited(op[o].owner),
         UNCHANGED <<ctl, front, target, held, late>>
  PROVE  IInv'
<1>. DEFINE s == [op[o] EXCEPT !.pc = pc, !.seen = {}]
<1>1. op' = [op EXCEPT ![o] = s]
  BY DEF OpMove, IInv, TypeOK
<1>2. op[o] \in OperatorState
  BY DEF IInv, TypeOK
<1>3. /\ s.pc = pc /\ s.seen = {} /\ s.owner = op[o].owner
      /\ s.confirmed = op[o].confirmed
  BY <1>2 DEF OperatorState
<1>4. KnowsOf(s)
  BY <1>3 DEF KnowsOf
<1>. HIDE DEF s
<1>. QED
  BY <1>1, <1>4, OpStep

\* A refused command relies on nothing and keeps IInv.
LEMMA RefusedKeeps ==
  ASSUME IInv, TypeOK', NEW o \in Operator, Refused(o),
         UNCHANGED <<ctl, front, target, held, late>>
  PROVE  IInv'
<1>1. NewOperator.pc = "idle"
  BY DEF NewOperator
<1>2. KnowsOf(NewOperator)
  BY <1>1 DEF KnowsOf
<1>. QED
  BY <1>2, OpStep DEF Refused

\* Listing the reservations keeps IInv.
LEMMA OpListKeeps == ASSUME IInv, NEW o \in Operator, OpList(o) PROVE IInv'
<1>0. TypeOK' /\ UNCHANGED <<ctl, front, target, held, late>>
  BY OperatorStepType DEF IInv, OperatorStep, OpList, work, store
<1>1. PICK h \in Host, confirmed \in BOOLEAN :
        /\ confirmed => Stopped(held[h])
        /\ op' = [op EXCEPT ![o] =
                   [pc |-> "controller", key |-> h, owner |-> held[h],
                    keys |-> OwnedBy(held[h], h), confirmed |-> confirmed, seen |-> {}]]
  BY DEF OpList
<1>. DEFINE s == [pc |-> "controller", key |-> h, owner |-> held[h],
                  keys |-> OwnedBy(held[h], h), confirmed |-> confirmed, seen |-> {}]
<1>2. KnowsOf(s)
  BY <1>1 DEF KnowsOf
<1>3. op' = [op EXCEPT ![o] = s]
  BY <1>1
<1>. HIDE DEF s
<1>. QED
  BY <1>0, <1>2, <1>3, OpStep

\* Probing the owner's controller keeps IInv.
LEMMA OpControllerKeeps == ASSUME IInv, NEW o \in Operator, OpController(o) PROVE IInv'
<1>0. TypeOK' /\ UNCHANGED <<ctl, front, target, held, late>>
  BY OperatorStepType DEF IInv, OperatorStep, OpController, work, store
<1>1. op[o].pc = "controller" /\ (op[o].confirmed => Stopped(op[o].owner))
  BY DEF OpController, IInv, OperatorKnows
<1>2. CASE op[o].owner \in Run /\ Exited(op[o].owner) /\ OpMove(o, "probe")
  BY <1>0, <1>1, <1>2, OpMoveKeeps
<1>3. CASE Refused(o)
  BY <1>0, <1>3, RefusedKeeps
<1>4. CASE op[o].confirmed /\ OpMove(o, "probe")
  <2>1. op[o].owner \in Run => Exited(op[o].owner)
    BY <1>1, <1>4 DEF Stopped
  <2>. QED
    BY <1>0, <1>1, <1>4, <2>1, OpMoveKeeps
<1>. QED
  BY <1>2, <1>3, <1>4 DEF OpController

\* Probing a host of the group keeps IInv.
LEMMA OpProbeKeeps == ASSUME IInv, NEW o \in Operator, OpProbe(o) PROVE IInv'
<1>0. TypeOK' /\ UNCHANGED <<ctl, front, target, held, late>> /\ op[o].pc = "probe"
  BY OperatorStepType DEF IInv, OperatorStep, OpProbe, work, store
<1>1. /\ op[o].confirmed => Stopped(op[o].owner)
      /\ op[o].owner \in Run =>
           /\ Exited(op[o].owner)
           /\ ctl[op[o].owner].cur \in op[o].seen => ~target[op[o].owner] \/ front[op[o].owner]
           /\ Controller[op[o].owner] \in op[o].seen => ~front[op[o].owner]
  BY <1>0 DEF IInv, OperatorKnows
<1>2. op[o] \in OperatorState
  BY DEF IInv, TypeOK
<1>3. ASSUME NEW h, ~Visible(h) \/ op[o].confirmed,
             op' = [op EXCEPT ![o].seen = @ \cup {h}]
      PROVE  IInv'
  <2>. DEFINE s == [op[o] EXCEPT !.seen = @ \cup {h}]
  <2>1. op' = [op EXCEPT ![o] = s]
    BY <1>3 DEF IInv, TypeOK
  <2>2. /\ s.pc = "probe" /\ s.seen = op[o].seen \cup {h} /\ s.owner = op[o].owner
        /\ s.confirmed = op[o].confirmed
    BY <1>0, <1>2 DEF OperatorState
  <2>3. ASSUME op[o].owner \in Run
        PROVE  /\ ctl[op[o].owner].cur = h => ~target[op[o].owner] \/ front[op[o].owner]
               /\ Controller[op[o].owner] = h => ~front[op[o].owner]
    <3>1. CASE op[o].confirmed
      BY <1>1, <2>3, <3>1 DEF Stopped, Working
    <3>2. CASE ~Visible(h)
      BY <2>3, <3>2 DEF Visible
    <3>. QED
      BY <1>3, <3>1, <3>2
  <2>4. KnowsOf(s)
    BY <1>1, <2>2, <2>3 DEF KnowsOf
  <2>. HIDE DEF s
  <2>. QED
    BY <1>0, <2>1, <2>4, OpStep
<1>4. CASE OpMembers(o) \cup OpControllers(o) \subseteq op[o].seen /\ OpMove(o, "remove")
  <2>1. op[o].owner \in Run => Stopped(op[o].owner)
    <3>. SUFFICES ASSUME op[o].owner \in Run PROVE Stopped(op[o].owner)
      OBVIOUS
    <3>1. ctl[op[o].owner].cur \in Group[op[o].owner]
      BY DEF IInv, WorkPhases
    <3>2. ctl[op[o].owner].cur \in op[o].seen /\ Controller[op[o].owner] \in op[o].seen
      BY <1>4, <3>1 DEF OpMembers, OpControllers
    <3>. QED
      BY <1>1, <3>2 DEF Stopped, Working
  <2>2. Stopped(op[o].owner)
    BY <2>1 DEF Stopped
  <2>. QED
    BY <1>0, <1>1, <1>4, <2>2, OpMoveKeeps
<1>5. CASE Refused(o)
  BY <1>0, <1>5, RefusedKeeps
<1>. QED
  BY <1>3, <1>4, <1>5 DEF OpProbe

\* Removing a reservation keeps IInv.
LEMMA OpRemoveKeeps == ASSUME IInv, NEW o \in Operator, OpRemove(o) PROVE IInv'
<1>0. TypeOK' /\ UNCHANGED <<ctl, front, target>> /\ Stopped(op[o].owner) /\ op[o].pc = "remove"
  BY OperatorStepType DEF IInv, OperatorStep, OpRemove, OperatorKnows, work
<1>1. op[o] \in OperatorState
  BY DEF IInv, TypeOK
<1>2. ASSUME NEW h \in op[o].keys, Remove(op[o].owner, h), UNCHANGED late,
             op' = [op EXCEPT ![o].keys = @ \ {h}]
      PROVE  IInv'
  <2>1. Owns' /\ Protected'
    <3>1. \A k \in Host : held[k] \in Run /\ ~Stopped(held[k]) => held'[k] = held[k]
      BY <1>0, <1>2 DEF Remove, IInv, TypeOK
    <3>2. ASSUME NEW i \in Run, ctl[i].pc \in Holding \/ Working(i), NEW k \in Group[i]
          PROVE  held'[k] = i
      <4>1. held[k] = i /\ k \in Host
        BY <3>2, ReservationsAssumption DEF IInv, Owns, Protected
      <4>2. ~Stopped(i)
        BY <3>2 DEF Stopped, Exited, Holding, Exits
      <4>. QED
        BY <3>1, <4>1, <4>2
    <3>. QED
      BY <1>0, <3>2 DEF Owns, Protected, Working
  <2>2. WorkPhases' /\ LateStopped'
    BY <1>0, <1>2 DEF IInv, WorkPhases, LateStopped, Stopped, Exited, Working
  <2>3. OperatorKnows'
    <3>. DEFINE s == [op[o] EXCEPT !.keys = @ \ {h}]
    <3>1. op' = [op EXCEPT ![o] = s]
      BY <1>2 DEF IInv, TypeOK
    <3>2. s.pc = "remove" /\ s.owner = op[o].owner
      BY <1>0, <1>1 DEF OperatorState
    <3>3. KnowsOf(s)
      BY <1>0, <3>2 DEF KnowsOf
    <3>. HIDE DEF s
    <3>4. \A p \in Operator : op'[p] = IF p = o THEN s ELSE op[p]
      BY <3>1 DEF IInv, TypeOK
    <3>5. \A p \in Operator : KnowsOf(op'[p])
      BY <3>3, <3>4, KnowsIsOperatorKnows DEF IInv
    <3>. QED
      BY <1>0, <3>5 DEF OperatorKnows, KnowsOf, Stopped, Exited, Working
  <2>. QED
    BY <1>0, <2>1, <2>2, <2>3 DEF IInv
<1>3. ASSUME NEW h, UNCHANGED late \/ GivenUp("release", op[o].owner, h),
             Refused(o), UNCHANGED <<held, meta>>
      PROVE  IInv'
  <2>1. Owns' /\ Protected' /\ WorkPhases'
    BY <1>0, <1>3 DEF IInv, Owns, Protected, WorkPhases, Working
  <2>2. \A k \in late' \ late : k.name = "release" /\ k.run = op[o].owner
    BY <1>3, LateAdds
  <2>3. LateStopped'
    BY <1>0, <2>2 DEF IInv, LateStopped, Stopped, Exited, Working
  <2>4. OperatorKnows'
    <3>1. NewOperator.pc = "idle"
      BY DEF NewOperator
    <3>2. KnowsOf(NewOperator)
      BY <3>1 DEF KnowsOf
    <3>3. \A p \in Operator : op'[p] = IF p = o THEN NewOperator ELSE op[p]
      BY <1>3 DEF Refused, IInv, TypeOK
    <3>4. \A p \in Operator : KnowsOf(op'[p])
      BY <3>2, <3>3, KnowsIsOperatorKnows DEF IInv
    <3>. QED
      BY <1>0, <3>4 DEF OperatorKnows, KnowsOf, Stopped, Exited, Working
  <2>. QED
    BY <1>0, <2>1, <2>3, <2>4 DEF IInv
<1>. QED
  BY <1>2, <1>3 DEF OpRemove, store

\* IInv holds at the start: nobody works, nobody holds, no call is late.
LEMMA IInvInit == Init => IInv
<1>. SUFFICES ASSUME Init PROVE IInv
  OBVIOUS
<1>1. TypeOK
  BY TypeInit
<1>2. \A i \in Run : /\ ctl[i].pc = "idle" /\ ctl[i].cur \in Group[i]
                     /\ ctl[i].todo \subseteq Group[i] /\ ~front[i] /\ ~target[i]
  <2>. SUFFICES ASSUME NEW i \in Run
                PROVE  /\ NewRun(i).pc = "idle" /\ NewRun(i).cur \in Group[i]
                       /\ NewRun(i).todo \subseteq Group[i]
    BY DEF Init
  <2>1. PICK h \in Changed[i] : TRUE
    BY ReservationsAssumption
  <2>2. (CHOOSE x \in Changed[i] : TRUE) \in Changed[i]
    BY <2>1
  <2>. QED
    BY <2>2, ReservationsAssumption DEF NewRun
<1>3. \A o \in Operator : op[o].pc = "idle"
  BY DEF Init, NewOperator
<1>. QED
  BY <1>1, <1>2, <1>3 DEF IInv, Owns, Protected, WorkPhases, LateStopped, OperatorKnows,
     Holding, Working, Init

\* IInv is inductive as long as an inspection cannot be cut off half way.
LEMMA IInvStep ==
  ASSUME "dropMidInspection" \notin Faults
  PROVE  IInv /\ [Next]_vars => IInv'
<1>. SUFFICES ASSUME IInv, [Next]_vars PROVE IInv'
  OBVIOUS
<1>1. ASSUME NEW i \in Run, RunStep(i) PROVE IInv'
  BY <1>1, ReserveKeeps, PrecheckKeeps, BeginKeeps, StartActivationKeeps, LaunchKeeps,
     CommandReturnsKeeps, ResultKeeps, GateKeeps, FinishKeeps, InspectKeeps, ReleasingKeeps
     DEF RunStep
<1>2. ASSUME NEW i \in Run, Interrupt(i) \/ Crash(i) PROVE IInv'
  BY <1>2, InterruptKeeps, CrashKeeps
<1>3. ASSUME NEW o \in Operator, OperatorStep(o) PROVE IInv'
  BY <1>3, OpListKeeps, OpControllerKeeps, OpProbeKeeps, OpRemoveKeeps DEF OperatorStep
<1>4. CASE Environment
  <2>1. ASSUME ctl' = ctl, front' = front, target' = target, op' = op, held' = held,
               late' = late
        PROVE  IInv'
    <3>1. TypeOK'
      BY TypeStep DEF IInv
    <3>. QED
      BY <2>1, <3>1, StoreStep
  <2>2. ASSUME NEW i \in Run, Disrupt(i) PROVE IInv'
    BY <2>1, <2>2 DEF Disrupt, work, store
  <2>3. ASSUME NEW h \in Host, Rejoin(h) PROVE IInv'
    BY <2>1, <2>3 DEF Rejoin, work, store
  <2>. QED
    BY <1>4, <2>2, <2>3, WorkKeeps, LateCallKeeps DEF Environment
<1>5. CASE UNCHANGED vars
  <2>1. TypeOK'
    BY TypeStep DEF IInv
  <2>. QED
    BY <1>5, <2>1, StoreStep DEF vars
<1>. QED
  BY <1>1, <1>2, <1>3, <1>4, <1>5 DEF Next

(* The inductive invariant holds as long as no orphan loses its link in the   *)
(* middle of an operator's inspection.                                        *)
THEOREM Inductive ==
  ASSUME "dropMidInspection" \notin Faults
  PROVE  Spec => []IInv
<1>1. IInv /\ [Next]_vars => IInv'
  BY IInvStep
<1>. QED
  BY IInvInit, <1>1, PTL DEF Spec

(* Activation work is always covered by its run's complete reservation, for   *)
(* any hosts, groups, runs and operators, and whatever crashes, interrupts    *)
(* and lost authority calls there are.                                        *)
THEOREM AlwaysProtected ==
  ASSUME "dropMidInspection" \notin Faults
  PROVE  Spec => []Protected
<1>1. IInv => Protected
  BY DEF IInv
<1>. QED
  BY Inductive, <1>1, PTL

(* Hence runs that share a member never work at the same time.                *)
THEOREM NeverOverlap ==
  ASSUME "dropMidInspection" \notin Faults
  PROVE  Spec => []NoOverlap
<1>1. Protected => NoOverlap
  BY DEF Protected, NoOverlap
<1>. QED
  BY AlwaysProtected, <1>1, PTL

-----------------------------------------------------------------------------
(* The reservations implement ActivationLock *)

Workers == {i \in Run : Working(i)}
LockVars == <<held, Workers>>

\* Acquiring the whole group is a Take of the abstract lock.
LEMMA TakeAll ==
  ASSUME NEW i \in Run, Acquire(i), Workers' = Workers
  PROVE  Lock!Take(i)
<1>1. \A h \in Group[i] : held[h] = Free
  BY DEF Acquire
<1>2. held' = [h \in Host |-> IF h \in Group[i] THEN [k \in Group[i] |-> i][h] ELSE held[h]]
  BY DEF Acquire
<1>3. [k \in Group[i] |-> i] \in [Group[i] -> {i, Ownerless}]
  OBVIOUS
<1>. QED
  BY <1>1, <1>2, <1>3 DEF Lock!Take, Workers

\* So is an acquisition that fails part way: it takes some of the group, one
\* host possibly without an owner recorded.
LEMMA TakeTorn ==
  ASSUME NEW i \in Run, TornAcquire(i), Workers' = Workers
  PROVE  Lock!Take(i)
<1>0. PICK S \in SUBSET Group[i] : \E x \in S, stage \in {"mkdir", "owner", "metadata"} :
        /\ \A h \in S : held[h] = Free
        /\ held' = [h \in Host |->
                      IF h = x /\ stage = "mkdir" THEN Ownerless
                      ELSE IF h \in S THEN i ELSE held[h]]
  BY DEF TornAcquire
<1>1. PICK x \in S, stage \in {"mkdir", "owner", "metadata"} :
        /\ \A h \in S : held[h] = Free
        /\ held' = [h \in Host |->
                      IF h = x /\ stage = "mkdir" THEN Ownerless
                      ELSE IF h \in S THEN i ELSE held[h]]
  BY <1>0
<1>. DEFINE own == [k \in S |-> IF k = x /\ stage = "mkdir" THEN Ownerless ELSE i]
<1>2. own \in [S -> {i, Ownerless}]
  OBVIOUS
<1>3. held' = [h \in Host |-> IF h \in S THEN own[h] ELSE held[h]]
  BY <1>1
<1>. HIDE DEF own
<1>. QED
  BY <1>1, <1>2, <1>3 DEF Lock!Take, Workers

\* Only an owner that is not working is taken off a host.
LEMMA DropOne ==
  ASSUME IInv, NEW owner, NEW h \in Host, Remove(owner, h), Workers' = Workers,
         owner \in Run => ~Working(owner)
  PROVE  [Lock!Next]_LockVars
<1>1. CASE owner = Free
  <2>1. held' = held
    BY <1>1 DEF Remove, IInv, TypeOK
  <2>. QED
    BY <2>1 DEF LockVars
<1>2. CASE owner # Free
  <2>1. Lock!Drop(h)
    BY <1>2 DEF Remove, Lock!Drop, Workers
  <2>. QED
    BY <2>1 DEF Lock!Next
<1>. QED
  BY <1>1, <1>2

\* The work of a run that owns its group may begin, and any work may end.
LEMMA WorkChange ==
  ASSUME IInv, NEW i \in Run, held' = held,
         \A j \in Run \ {i} : Working(j)' = Working(j),
         Working(i)' /\ ~Working(i) => \A h \in Group[i] : held[h] = i
  PROVE  [Lock!Next]_LockVars
<1>1. CASE Working(i) /\ Working(i)'
  <2>1. Workers' = Workers
    BY <1>1 DEF Workers
  <2>. QED
    BY <2>1 DEF LockVars
<1>2. CASE ~Working(i) /\ ~Working(i)'
  <2>1. Workers' = Workers
    BY <1>2 DEF Workers
  <2>. QED
    BY <2>1 DEF LockVars
<1>3. CASE ~Working(i) /\ Working(i)'
  <2>1. i \notin Workers /\ Workers' = Workers \cup {i}
    BY <1>3 DEF Workers
  <2>2. Lock!Begin(i)
    BY <1>3, <2>1 DEF Lock!Begin, Workers
  <2>. QED
    BY <2>2 DEF Lock!Next
<1>4. CASE Working(i) /\ ~Working(i)'
  <2>1. i \in Workers /\ Workers' = Workers \ {i}
    BY <1>4 DEF Workers
  <2>2. Lock!End(i)
    BY <2>1 DEF Lock!End, Workers
  <2>. QED
    BY <2>2 DEF Lock!Next
<1>. QED
  BY <1>1, <1>2, <1>3, <1>4

\* The workers of the abstract lock change only with the two kinds of work.
LEMMA SameWorkers ==
  ASSUME UNCHANGED <<front, target>>
  PROVE  Workers' = Workers
BY DEF Workers, Working

\* Every step of a run is a step of the abstract lock or a stutter.
LEMMA RunImplements ==
  ASSUME IInv, NEW i \in Run, RunStep(i)
  PROVE  [Lock!Next]_LockVars
<1>1. CASE UNCHANGED <<front, target, held>>
  BY <1>1, SameWorkers DEF LockVars
<1>2. CASE Reserve(i)
  <2>1. UNCHANGED <<front, target>>
    BY <1>2 DEF Reserve, work
  <2>2. CASE Acquire(i) \/ TornAcquire(i)
    BY <2>1, <2>2, SameWorkers, TakeAll, TakeTorn DEF Lock!Next
  <2>3. CASE UNCHANGED held
    BY <1>1, <2>1, <2>3
  <2>. QED
    BY <1>2, <2>2, <2>3 DEF Reserve, store
<1>3. CASE Releasing(i)
  <2>1. UNCHANGED <<front, target>> /\ ~Working(i)
    BY <1>3, PhaseNow DEF Releasing, Phase, work, Working
  <2>2. ASSUME NEW h \in Group[i], Remove(i, h) PROVE [Lock!Next]_LockVars
    BY <2>1, <2>2, SameWorkers, DropOne, ReservationsAssumption
  <2>3. CASE UNCHANGED held
    BY <1>1, <2>1, <2>3
  <2>. QED
    BY <1>3, <2>2, <2>3 DEF Releasing, store
<1>4. CASE Launch(i)
  <2>1. /\ held' = held /\ \A h \in Group[i] : held[h] = i
        /\ \A j \in Run \ {i} : Working(j)' = Working(j)
    BY <1>4 DEF Launch, store, IInv, Owns, Holding, TypeOK, Working
  <2>. QED
    BY <2>1, WorkChange
<1>5. CASE CommandReturns(i)
  <2>1. /\ held' = held /\ \A h \in Group[i] : held[h] = i
        /\ \A j \in Run \ {i} : Working(j)' = Working(j)
    BY <1>5 DEF CommandReturns, store, IInv, Owns, Holding, TypeOK, Working
  <2>. QED
    BY <2>1, WorkChange
<1>. QED
  BY <1>1, <1>2, <1>3, <1>4, <1>5 DEF RunStep, Precheck, Begin, StartActivation, Result, Gate,
     Finish, Inspect, work, store

\* Every call that lands late is a step of the abstract lock or a stutter.
LEMMA LateImplements ==
  ASSUME IInv, LateCall
  PROVE  [Lock!Next]_LockVars
<1>1. PICK k \in late : LateAcquire(k) \/ LateUpdate(k) \/ LateRelease(k)
  BY DEF LateCall
<1>2. UNCHANGED <<front, target>> /\ k \in Call
  BY <1>1 DEF LateCall, work, IInv, TypeOK
<1>3. Workers' = Workers
  BY <1>2, SameWorkers
<1>4. CASE LateAcquire(k)
  <2>1. k.run \in Run /\ Acquire(k.run)
    BY <1>4 DEF LateAcquire, IInv, LateStopped
  <2>. QED
    BY <1>3, <2>1, TakeAll DEF Lock!Next
<1>5. CASE LateUpdate(k)
  BY <1>3, <1>5 DEF LateUpdate, LockVars
<1>6. CASE LateRelease(k)
  <2>1. k.key \in Host /\ Remove(k.run, k.key) /\ (k.run \in Run => ~Working(k.run))
    BY <1>2, <1>6 DEF LateRelease, IInv, LateStopped, Stopped, Call
  <2>. QED
    BY <1>3, <2>1, DropOne
<1>. QED
  BY <1>1, <1>4, <1>5, <1>6

\* Every step of an operator command is a step of the abstract lock or a stutter.
LEMMA OperatorImplements ==
  ASSUME IInv, NEW o \in Operator, OperatorStep(o)
  PROVE  [Lock!Next]_LockVars
<1>1. Workers' = Workers
  BY SameWorkers DEF OperatorStep, OpList, OpController, OpProbe, OpRemove, work
<1>2. CASE held' = held
  BY <1>1, <1>2 DEF LockVars
<1>3. ASSUME NEW h \in op[o].keys, op[o].pc = "remove", Remove(op[o].owner, h)
      PROVE  [Lock!Next]_LockVars
  <2>1. h \in Host /\ (op[o].owner \in Run => ~Working(op[o].owner))
    BY <1>3 DEF IInv, TypeOK, OperatorState, OperatorKnows, Stopped
  <2>. QED
    BY <1>1, <1>3, <2>1, DropOne
<1>. QED
  BY <1>2, <1>3 DEF OperatorStep, OpList, OpController, OpProbe, OpRemove, store

\* Every step of Reservations is a step of the abstract lock or a stutter.
LEMMA StepImplements == IInv /\ [Next]_vars => [Lock!Next]_LockVars
<1>. SUFFICES ASSUME IInv, [Next]_vars PROVE [Lock!Next]_LockVars
  OBVIOUS
<1>1. ASSUME UNCHANGED <<front, target, held>> PROVE [Lock!Next]_LockVars
  BY <1>1, SameWorkers DEF LockVars
<1>2. ASSUME NEW i \in Run, Interrupt(i) \/ Crash(i) \/ Disrupt(i) PROVE [Lock!Next]_LockVars
  BY <1>1, <1>2 DEF Interrupt, Crash, Disrupt, work, store
<1>3. ASSUME NEW h \in Host, Rejoin(h) PROVE [Lock!Next]_LockVars
  BY <1>1, <1>3 DEF Rejoin, work, store
<1>4. ASSUME NEW i \in Run, FrontStarts(i) \/ TargetEnds(i) \/ FrontExits(i)
      PROVE  [Lock!Next]_LockVars
  <2>1. /\ held' = held /\ (Working(i)' => Working(i))
        /\ \A j \in Run \ {i} : Working(j)' = Working(j)
    BY <1>4 DEF FrontStarts, TargetEnds, FrontExits, store, IInv, TypeOK, Working
  <2>. QED
    BY <2>1, WorkChange
<1>5. CASE UNCHANGED vars
  BY <1>1, <1>5 DEF vars
<1>. QED
  BY <1>2, <1>3, <1>4, <1>5, RunImplements, LateImplements, OperatorImplements
     DEF Next, Environment

\* The initial states are initial states of the abstract lock.
LEMMA InitImplements == Init => Lock!Init
BY DEF Init, Lock!Init, Working

(* Every behaviour of the reservations is one of ActivationLock: hosts change *)
(* hands, and work begins and ends, only as the abstract lock allows.         *)
THEOREM Implements ==
  ASSUME "dropMidInspection" \notin Faults
  PROVE  Spec => LockSpec
<1>1. IInv /\ [Next]_vars => [Lock!Next]_LockVars
  BY StepImplements
<1>. QED
  BY Inductive, InitImplements, <1>1, PTL
     DEF Spec, LockSpec, Lock!Spec, Lock!vars, LockVars, Workers

-----------------------------------------------------------------------------
(* Metadata and quorum: two more invariants on top of IInv *)

\* Between the authority's acknowledgement of a start and the gate's end.
Switching == {"activate", "running", "result", "gate"}

\* Past the precheck of the current member.
Past == Switching \cup {"begin", "start"}

\* From the acknowledged start on the metadata says so, until the work is over.
Recorded(i) ==
    ctl[i].pc \in Switching \/ Working(i) => \A h \in Group[i] : meta[h] = "started"

\* Nobody but the current member is out of the quorum past its precheck.
Covered(i) ==
    ctl[i].pc \in Past \/ Working(i) => \A h \in Group[i] : ready[h] \/ h = ctl[i].cur

\* The members a precheck has seen are still ready.
Seen(i) ==
    /\ ctl[i].pc = "precheck" => \A h \in ctl[i].seen : h \in Group[i] /\ ready[h]
    /\ ctl[i].pc = "idle" => ctl[i].seen = {}

\* At most one member of a group is out of the quorum.
OneOut(i) == \E x \in Group[i] : \A h \in Group[i] : ready[h] \/ h = x

RecordedInv == IInv /\ \A i \in Run : Recorded(i)
QuorumInv == IInv /\ (Gated => \A i \in Run : Covered(i) /\ Seen(i) /\ OneOut(i))

-----------------------------------------------------------------------------
(* What a step may do to a run *)

\* It gets past a precheck only with the other members ready, into a switch
\* only with its start recorded, and its checks are of this attempt.
Moves(i) ==
    /\ ctl'[i].pc \in Switching \/ Working(i)' =>
          \/ ctl[i].pc \in Switching \/ Working(i)
          \/ \A h \in Group[i] : meta'[h] = "started"
    /\ ctl'[i].pc \in Past \/ Working(i)' =>
          \/ (ctl[i].pc \in Past \/ Working(i)) /\ ctl'[i].cur = ctl[i].cur
          \/ /\ ctl[i].pc = "precheck" /\ ctl'[i].cur = ctl[i].cur
             /\ Gated => \A h \in Group[i] : h \in ctl[i].seen \/ h = ctl[i].cur
    /\ ctl'[i].pc = "precheck" =>
          \A h \in ctl'[i].seen : \/ h \in Group[i] /\ (Gated => ready[h])
                                  \/ ctl[i].pc \in {"idle", "precheck"} /\ h \in ctl[i].seen
    /\ ctl'[i].pc = "idle" => ctl[i].pc = "idle" /\ ctl'[i].seen = ctl[i].seen

\* The metadata of a run that works or is about to is not taken back.
Keeps(i) ==
    ctl[i].pc \in Switching \/ Working(i) =>
        \A h \in Group[i] : meta'[h] \in {meta[h], "started"}

\* A step by run i alone.
Only(i) ==
    \A j \in Run \ {i} : ctl'[j] = ctl[j] /\ front'[j] = front[j] /\ target'[j] = target[j]

(* A run that a step leaves alone. *)
LEMMA SameMoves ==
    ASSUME NEW i \in Run, ctl'[i] = ctl[i], Working(i)' => Working(i)
    PROVE  Moves(i)
BY DEF Moves, Past

(* A run that exits keeps the host its work is on. *)
LEMMA ExitMoves ==
    ASSUME TypeOK, NEW i \in Run, NEW pc \in Exits, Exit(i, pc), UNCHANGED <<front, target>>
    PROVE  Moves(i) /\ Only(i)
<1>1. ctl'[i].pc = pc /\ ctl'[i].cur = ctl[i].cur
  BY NewRunType DEF Exit, TypeOK, RunState
<1>2. Only(i)
  BY DEF Exit, TypeOK, Only
<1> QED BY <1>1, <1>2 DEF Moves, Exits, Past, Switching, Working

(* A run that changes its place, and nothing else. *)
LEMMA MoveMoves ==
    ASSUME TypeOK, NEW i \in Run, NEW pc, Move(i, pc)
    PROVE  /\ ctl'[i].pc = pc /\ ctl'[i].cur = ctl[i].cur /\ ctl'[i].seen = ctl[i].seen
           /\ \A j \in Run \ {i} : ctl'[j] = ctl[j]
<1> DEFINE r == [ctl[i] EXCEPT !.pc = pc]
<1>1. ctl[i] \in RunState
  BY DEF TypeOK
<1>2. r.pc = pc /\ r.cur = ctl[i].cur /\ r.seen = ctl[i].seen
  BY <1>1 DEF RunState
<1>3. ctl' = [ctl EXCEPT ![i] = r]
  BY DEF Move
<1> HIDE DEF r
<1> QED BY <1>2, <1>3 DEF TypeOK

(* A rollout that stops has no work under way unless its command returned. *)
LEMMA StopMoves ==
    ASSUME TypeOK, NEW i \in Run, Stop(i), UNCHANGED <<front, target>>, ~Working(i)
    PROVE  Moves(i) /\ Only(i)
<1> DEFINE r == [ctl[i] EXCEPT !.pc = "finish", !.failed = TRUE]
<1>1. ctl[i] \in RunState
  BY DEF TypeOK
<1>2. r.pc = "finish"
  BY <1>1 DEF RunState
<1>3. ctl' = [ctl EXCEPT ![i] = r]
  BY DEF Stop
<1> HIDE DEF r
<1>4. ctl'[i].pc = "finish" /\ Only(i)
  BY <1>2, <1>3 DEF TypeOK, Only
<1> QED BY <1>4 DEF Moves, Past, Switching, Working

-----------------------------------------------------------------------------
(* The steps of a run *)

(* In these phases the run has no work under way (WorkPhases). *)
LEMMA NoWorkYet ==
    ASSUME IInv, NEW i \in Run,
           ctl[i].pc \in {"idle", "precheck", "begin", "start", "activate", "result", "gate", "releasing"}
    PROVE  ~Working(i)
BY DEF IInv, WorkPhases, Working

(* reserveGroup leads to a precheck that has seen nothing. *)
LEMMA ReserveMoves ==
    ASSUME IInv, NEW i \in Run, Reserve(i)
    PROVE  Moves(i) /\ Only(i)
<1>0. TypeOK /\ ctl[i] \in RunState /\ ctl[i].pc = "idle" /\ ~Working(i) /\ UNCHANGED <<front, target>>
  BY NoWorkYet DEF IInv, TypeOK, Reserve, work
<1>1. ASSUME NEW h \in Changed[i],
             ctl' = [ctl EXCEPT ![i].pc = "precheck", ![i].cur = h, ![i].todo = Changed[i] \ {h}]
      PROVE  Moves(i) /\ Only(i)
  <2> DEFINE r == [ctl[i] EXCEPT !.pc = "precheck", !.cur = h, !.todo = Changed[i] \ {h}]
  <2>1. r.pc = "precheck" /\ r.seen = ctl[i].seen
    BY <1>0 DEF RunState
  <2>2. ctl' = [ctl EXCEPT ![i] = r]
    BY <1>1
  <2> HIDE DEF r
  <2>3. ctl'[i].pc = "precheck" /\ ctl'[i].seen = ctl[i].seen /\ Only(i)
    BY <1>0, <2>1, <2>2 DEF TypeOK, Only
  <2> QED BY <1>0, <2>3 DEF Moves, Past, Switching, Working
<1>2. CASE Exit(i, "done")
  BY <1>0, <1>2, ExitMoves DEF Exits
<1> QED BY <1>1, <1>2 DEF Reserve

(* precheck adds ready members to what it has seen, and ends with all it has  *)
(* to check seen.                                                             *)
LEMMA PrecheckMoves ==
    ASSUME IInv, NEW i \in Run, Precheck(i)
    PROVE  Moves(i) /\ Only(i)
<1>0. /\ TypeOK /\ ctl[i] \in RunState /\ ctl[i].pc = "precheck" /\ ~Working(i)
      /\ UNCHANGED <<front, target>>
  BY NoWorkYet DEF IInv, TypeOK, Precheck, work
<1>1. ASSUME NEW h \in Group[i], ready[h], ctl' = [ctl EXCEPT ![i].seen = @ \cup {h}]
      PROVE  Moves(i) /\ Only(i)
  <2> DEFINE r == [ctl[i] EXCEPT !.seen = @ \cup {h}]
  <2>1. r.pc = "precheck" /\ r.seen = ctl[i].seen \cup {h}
    BY <1>0 DEF RunState
  <2>2. ctl' = [ctl EXCEPT ![i] = r]
    BY <1>1
  <2> HIDE DEF r
  <2>3. ctl'[i].pc = "precheck" /\ ctl'[i].seen = ctl[i].seen \cup {h} /\ Only(i)
    BY <1>0, <2>1, <2>2 DEF TypeOK, Only
  <2> QED BY <1>0, <1>1, <2>3 DEF Moves, Past, Switching, Working
<1>2. CASE CheckSet(i) \subseteq ctl[i].seen /\ Move(i, "begin")
  <2>1. Gated => \A h \in Group[i] : h \in ctl[i].seen \/ h = ctl[i].cur
    BY <1>2 DEF CheckSet
  <2>2. ctl'[i].pc = "begin" /\ ctl'[i].cur = ctl[i].cur /\ Only(i)
    BY <1>0, <1>2, MoveMoves DEF Only
  <2> QED BY <1>0, <2>1, <2>2 DEF Moves, Past, Switching, Working
<1>3. CASE Stop(i)
  BY <1>0, <1>3, StopMoves
<1>4. CheckSet(i) \subseteq Group[i]
  BY DEF CheckSet
<1> QED BY <1>1, <1>2, <1>3, <1>4 DEF Precheck

(* begin goes on to the start, or stops. *)
LEMMA BeginMoves ==
    ASSUME IInv, NEW i \in Run, Begin(i)
    PROVE  Moves(i) /\ Only(i)
<1>0. TypeOK /\ ctl[i].pc = "begin" /\ ~Working(i) /\ UNCHANGED <<front, target>>
  BY NoWorkYet DEF IInv, Begin, work
<1>1. CASE Move(i, "start")
  BY <1>0, <1>1, MoveMoves DEF Moves, Only, Past, Switching, Working
<1>2. CASE Stop(i)
  BY <1>0, <1>2, StopMoves
<1> QED BY <1>1, <1>2 DEF Begin

(* A switch begins with the authority's acknowledgement of its start. *)
LEMMA StartMoves ==
    ASSUME IInv, NEW i \in Run, StartActivation(i)
    PROVE  Moves(i) /\ Only(i)
<1>0. /\ TypeOK /\ ctl[i] \in RunState /\ ctl[i].pc = "start" /\ ~Working(i)
      /\ UNCHANGED <<front, target>>
  BY NoWorkYet DEF IInv, TypeOK, StartActivation, work
<1>1. CASE Update(i) /\ ctl' = [ctl EXCEPT ![i].pc = "activate", ![i].attempted = TRUE,
                                           ![i].ambiguous = TRUE]
  <2> DEFINE r == [ctl[i] EXCEPT !.pc = "activate", !.attempted = TRUE, !.ambiguous = TRUE]
  <2>1. r.pc = "activate" /\ r.cur = ctl[i].cur
    BY <1>0 DEF RunState
  <2>2. ctl' = [ctl EXCEPT ![i] = r]
    BY <1>1
  <2> HIDE DEF r
  <2>3. ctl'[i].pc = "activate" /\ ctl'[i].cur = ctl[i].cur /\ Only(i)
    BY <1>0, <2>1, <2>2 DEF TypeOK, Only
  <2>4. \A h \in Group[i] : meta'[h] = "started"
    BY <1>1, ReservationsAssumption DEF Update
  <2> QED BY <1>0, <2>3, <2>4 DEF Moves, Past, Switching, Working
<1>2. CASE Stop(i)
  BY <1>0, <1>2, StopMoves
<1> QED BY <1>1, <1>2 DEF StartActivation

(* The command is launched from a switch under way. *)
LEMMA LaunchMoves ==
    ASSUME IInv, NEW i \in Run, Launch(i)
    PROVE  Moves(i) /\ Only(i)
<1>0. TypeOK /\ ctl[i].pc = "activate" /\ ~Working(i) /\ UNCHANGED target
  BY NoWorkYet DEF IInv, Launch
<1>1. CASE Move(i, "running") /\ front' = [front EXCEPT ![i] = TRUE]
  <2>1. /\ ctl'[i].pc = "running" /\ ctl'[i].cur = ctl[i].cur
        /\ \A j \in Run \ {i} : ctl'[j] = ctl[j] /\ front'[j] = front[j]
    BY <1>0, <1>1, MoveMoves DEF TypeOK
  <2> QED BY <1>0, <2>1 DEF Moves, Only, Past, Switching
<1>2. CASE Stop(i) /\ UNCHANGED front
  BY <1>0, <1>2, StopMoves
<1> QED BY <1>1, <1>2 DEF Launch

(* The command returns from a switch under way, on the same host. *)
LEMMA ReturnMoves ==
    ASSUME IInv, NEW i \in Run, CommandReturns(i)
    PROVE  Moves(i) /\ Only(i)
<1>0. TypeOK /\ ctl[i] \in RunState /\ ctl[i].pc = "running" /\ front' = [front EXCEPT ![i] = FALSE]
  BY DEF IInv, TypeOK, CommandReturns
<1>1. \E r \in RunState : /\ ctl' = [ctl EXCEPT ![i] = r]
                          /\ r.cur = ctl[i].cur /\ r.pc \in {"result", "finish"}
  <2>1. CASE ctl' = [ctl EXCEPT ![i].pc = "result", ![i].ambiguous = FALSE]
    <3> DEFINE r == [ctl[i] EXCEPT !.pc = "result", !.ambiguous = FALSE]
    <3>1. r \in RunState /\ r.cur = ctl[i].cur /\ r.pc = "result"
      BY <1>0 DEF RunState, Live, Holding
    <3>2. ctl' = [ctl EXCEPT ![i] = r]
      BY <2>1
    <3> QED BY <3>1, <3>2
  <2>2. ASSUME NEW definite \in BOOLEAN,
               ctl' = [ctl EXCEPT ![i].pc = "finish", ![i].failed = TRUE, ![i].ambiguous = ~definite]
        PROVE  \E r \in RunState : /\ ctl' = [ctl EXCEPT ![i] = r]
                                   /\ r.cur = ctl[i].cur /\ r.pc \in {"result", "finish"}
    <3> DEFINE r == [ctl[i] EXCEPT !.pc = "finish", !.failed = TRUE, !.ambiguous = ~definite]
    <3>1. r \in RunState /\ r.cur = ctl[i].cur /\ r.pc = "finish"
      BY <1>0 DEF RunState, Live, Holding
    <3>2. ctl' = [ctl EXCEPT ![i] = r]
      BY <2>2
    <3> QED BY <3>1, <3>2
  <2> QED BY <2>1, <2>2 DEF CommandReturns
<1>2. \A j \in Run \ {i} : front'[j] = front[j] /\ target'[j] = target[j]
  BY <1>0 DEF CommandReturns, TypeOK
<1>3. /\ ctl'[i].cur = ctl[i].cur /\ ctl'[i].pc \in {"result", "finish"}
      /\ \A j \in Run \ {i} : ctl'[j] = ctl[j]
  BY <1>0, <1>1 DEF TypeOK
<1> QED BY <1>0, <1>2, <1>3 DEF Moves, Only, Past, Switching

(* The result is recorded, or the rollout stops. *)
LEMMA ResultMoves ==
    ASSUME IInv, NEW i \in Run, Result(i)
    PROVE  Moves(i) /\ Only(i)
<1>0. TypeOK /\ ctl[i].pc = "result" /\ ~Working(i) /\ UNCHANGED <<front, target>>
  BY NoWorkYet DEF IInv, Result, work
<1>1. CASE Move(i, "gate")
  BY <1>0, <1>1, MoveMoves DEF Moves, Only, Past, Switching, Working
<1>2. CASE Stop(i)
  BY <1>0, <1>2, StopMoves
<1> QED BY <1>1, <1>2 DEF Result

(* The next member's precheck begins with nothing seen. *)
LEMMA GateMoves ==
    ASSUME IInv, NEW i \in Run, Gate(i)
    PROVE  Moves(i) /\ Only(i)
<1>0. /\ TypeOK /\ ctl[i] \in RunState /\ ctl[i].pc = "gate" /\ ~Working(i)
      /\ UNCHANGED <<front, target>>
  BY NoWorkYet DEF IInv, TypeOK, Gate, work
<1>1. ASSUME NEW h \in ctl[i].todo,
             ctl' = [ctl EXCEPT ![i].pc = "precheck", ![i].cur = h,
                                ![i].todo = @ \ {h}, ![i].seen = {}]
      PROVE  Moves(i) /\ Only(i)
  <2> DEFINE r == [ctl[i] EXCEPT !.pc = "precheck", !.cur = h, !.todo = @ \ {h}, !.seen = {}]
  <2>1. r.pc = "precheck" /\ r.seen = {}
    BY <1>0 DEF RunState
  <2>2. ctl' = [ctl EXCEPT ![i] = r]
    BY <1>1
  <2> HIDE DEF r
  <2>3. ctl'[i].pc = "precheck" /\ ctl'[i].seen = {} /\ Only(i)
    BY <1>0, <2>1, <2>2 DEF TypeOK, Only
  <2> QED BY <1>0, <2>3 DEF Moves, Past, Switching, Working
<1>2. CASE Move(i, "finish")
  BY <1>0, <1>2, MoveMoves DEF Moves, Only, Past, Switching, Working
<1>3. CASE Stop(i)
  BY <1>0, <1>3, StopMoves
<1> QED BY <1>1, <1>2, <1>3 DEF Gate

(* A pass through the end of a rollout that only changes the place and what   *)
(* was seen.                                                                  *)
LEMMA EndMoves ==
    ASSUME TypeOK, NEW i \in Run, NEW pc \in {"inspect", "releasing"}, NEW s,
           UNCHANGED <<front, target>>,
           ctl' = [ctl EXCEPT ![i] = [ctl[i] EXCEPT !.pc = pc, !.seen = s]]
    PROVE  Moves(i) /\ Only(i)
<1>1. ctl[i] \in RunState
  BY DEF TypeOK
<1> DEFINE r == [ctl[i] EXCEPT !.pc = pc, !.seen = s]
<1>2. r.pc = pc /\ r.cur = ctl[i].cur
  BY <1>1 DEF RunState
<1> HIDE DEF r
<1>3. ctl'[i].pc = pc /\ ctl'[i].cur = ctl[i].cur /\ Only(i)
  BY <1>2 DEF TypeOK, Only, r
<1> QED BY <1>3 DEF Moves, Past, Switching, Working

(* What is left of a rollout's end: release, inspect first, or retain.        *)
LEMMA FinishMoves ==
    ASSUME IInv, NEW i \in Run, Finish(i) \/ Inspect(i)
    PROVE  Moves(i) /\ Only(i)
<1>0. TypeOK /\ ctl[i] \in RunState /\ UNCHANGED <<front, target>>
  BY DEF IInv, TypeOK, Finish, Inspect, work
<1>1. CASE Retain(i)
  BY <1>0, <1>1, ExitMoves DEF Retain, Exits
<1>2. ASSUME NEW pc \in {"inspect", "releasing"}, ctl' = [ctl EXCEPT ![i].pc = pc, ![i].seen = {}]
      PROVE  Moves(i) /\ Only(i)
  BY <1>0, <1>2, EndMoves
<1>3. ASSUME NEW h, ctl[i].pc = "inspect", ctl' = [ctl EXCEPT ![i].seen = @ \cup {h}]
      PROVE  Moves(i) /\ Only(i)
  <2>1. ctl' = [ctl EXCEPT ![i] = [ctl[i] EXCEPT !.pc = "inspect", !.seen = ctl[i].seen \cup {h}]]
    BY <1>0, <1>3 DEF RunState
  <2> QED BY <1>0, <2>1, EndMoves
<1> QED BY <1>1, <1>2, <1>3 DEF Finish, Inspect

(* The release of the directories, one by one. *)
LEMMA ReleasingMoves ==
    ASSUME IInv, NEW i \in Run, Releasing(i)
    PROVE  Moves(i) /\ Only(i)
<1>0. /\ TypeOK /\ ctl[i] \in RunState /\ ctl[i].pc = "releasing" /\ ~Working(i)
      /\ UNCHANGED <<front, target>>
  BY NoWorkYet DEF IInv, TypeOK, Releasing, work
<1>1. ASSUME NEW h, ctl' = [ctl EXCEPT ![i].seen = @ \cup {h}]
      PROVE  Moves(i) /\ Only(i)
  <2>1. ctl' = [ctl EXCEPT ![i] = [ctl[i] EXCEPT !.pc = "releasing", !.seen = ctl[i].seen \cup {h}]]
    BY <1>0, <1>1 DEF RunState
  <2> QED BY <1>0, <2>1, EndMoves
<1>2. CASE Exit(i, "done")
  BY <1>0, <1>2, ExitMoves DEF Exits
<1> QED BY <1>1, <1>2 DEF Releasing

(* A signal moves nothing but a run that has not begun; a kill ends it.       *)
LEMMA FaultMoves ==
    ASSUME IInv, NEW i \in Run, Interrupt(i) \/ Crash(i)
    PROVE  Moves(i) /\ Only(i)
<1>0. TypeOK /\ ctl[i] \in RunState /\ UNCHANGED <<front, target>>
  BY DEF IInv, TypeOK, Interrupt, Crash, work
<1>1. ASSUME NEW pc \in Exits, Exit(i, pc) PROVE Moves(i) /\ Only(i)
  BY <1>0, <1>1, ExitMoves
<1>2. ASSUME ctl[i].pc # "idle", ctl' = [ctl EXCEPT ![i].interrupted = TRUE]
      PROVE  Moves(i) /\ Only(i)
  <2> DEFINE r == [ctl[i] EXCEPT !.interrupted = TRUE]
  <2>1. r.pc = ctl[i].pc /\ r.cur = ctl[i].cur /\ r.seen = ctl[i].seen
    BY <1>0 DEF RunState
  <2>2. ctl' = [ctl EXCEPT ![i] = r]
    BY <1>2
  <2> HIDE DEF r
  <2>3. /\ ctl'[i].pc = ctl[i].pc /\ ctl'[i].cur = ctl[i].cur /\ ctl'[i].seen = ctl[i].seen
        /\ Only(i)
    BY <1>0, <2>1, <2>2 DEF TypeOK, Only
  <2> QED BY <1>0, <1>2, <2>3 DEF Moves, Past, Switching, Working
<1> QED BY <1>1, <1>2 DEF Interrupt, Crash, Exits

(* Every step moves every run as Moves says.                                  *)
LEMMA EveryMoves ==
    ASSUME IInv, [Next]_vars, NEW i \in Run
    PROVE  Moves(i)
<1>1. ASSUME NEW j \in Run, RunStep(j) \/ Interrupt(j) \/ Crash(j) PROVE Moves(i)
  <2>1. Moves(j) /\ Only(j)
    BY <1>1, ReserveMoves, PrecheckMoves, BeginMoves, StartMoves, LaunchMoves, ReturnMoves,
       ResultMoves, GateMoves, FinishMoves, ReleasingMoves, FaultMoves DEF RunStep
  <2>2. CASE j # i
    BY <2>1, <2>2, SameMoves DEF Only, Working
  <2> QED BY <2>1, <2>2
<1>2. ASSUME NEW o \in Operator, OperatorStep(o) PROVE Moves(i)
  BY <1>2, SameMoves DEF OperatorStep, OpList, OpController, OpProbe, OpRemove, work, Working
<1>3. CASE Environment
  <2>1. UNCHANGED ctl
    BY <1>3 DEF Environment, FrontStarts, TargetEnds, FrontExits, Disrupt, Rejoin, LateCall
  <2>2. ASSUME NEW j \in Run, FrontStarts(j) \/ TargetEnds(j) \/ FrontExits(j)
        PROVE  Working(i)' => Working(i)
    BY <2>2 DEF FrontStarts, TargetEnds, FrontExits, Working, IInv, TypeOK
  <2>3. ASSUME UNCHANGED work PROVE Working(i)' => Working(i)
    BY <2>3 DEF work, Working
  <2> QED BY <1>3, <2>1, <2>2, <2>3, SameMoves DEF Environment, Disrupt, Rejoin, LateCall
<1>4. CASE UNCHANGED vars
  BY <1>4, SameMoves DEF vars, work, Working
<1> QED BY <1>1, <1>2, <1>3, <1>4 DEF Next

-----------------------------------------------------------------------------
(* Metadata *)

(* Only the owner's directories lose their metadata, and only once it is over *)
(* or about to release.                                                       *)
LEMMA EveryKeeps ==
    ASSUME IInv, [Next]_vars, NEW i \in Run
    PROVE  Keeps(i)
<1> SUFFICES ASSUME ctl[i].pc \in Switching \/ Working(i), NEW h \in Group[i]
             PROVE  meta'[h] \in {meta[h], "started"}
  BY DEF Keeps
<1>0. /\ held[h] = i /\ h \in Host /\ i # Free /\ i # Ownerless /\ meta \in [Host -> {"none", "reserved", "started"}]
      /\ \A j \in Run : ctl[j] \in RunState
  BY ReservationsAssumption DEF IInv, Owns, Protected, Holding, Switching, TypeOK
<1>1. ASSUME NEW j \in Run, Acquire(j) PROVE meta'[h] = meta[h]
  BY <1>0, <1>1 DEF Acquire
<1>2. ASSUME NEW j \in Run, TornAcquire(j) PROVE meta'[h] = meta[h]
  BY <1>0, <1>2, ReservationsAssumption DEF TornAcquire
<1>3. ASSUME NEW j \in Run, Update(j) PROVE meta'[h] \in {meta[h], "started"}
  BY <1>0, <1>3 DEF Update
<1>4. ASSUME NEW own, NEW k \in Host, Remove(own, k), own # i PROVE meta'[h] = meta[h]
  BY <1>0, <1>4 DEF Remove
<1>5. ASSUME UNCHANGED meta PROVE meta'[h] = meta[h]
  BY <1>5
<1>6. ASSUME Stopped(i) PROVE FALSE
  BY <1>6 DEF Stopped, Exited, Exits, Switching
<1>7. ASSUME NEW j \in Run, RunStep(j) PROVE meta'[h] \in {meta[h], "started"}
  <2>1. ASSUME Releasing(j) PROVE meta'[h] = meta[h]
    <3>1. j # i
      BY <2>1, NoWorkYet DEF Releasing, Switching
    <3>2. \A k \in Group[j] : k \in Host
      BY ReservationsAssumption
    <3> QED BY <2>1, <3>1, <3>2, <1>4, <1>5 DEF Releasing, store
  <2>2. ASSUME Retain(j) PROVE meta'[h] \in {meta[h], "started"}
    BY <2>2, <1>3 DEF Retain
  <2>3. ASSUME Reserve(j) PROVE meta'[h] = meta[h]
    BY <2>3, <1>1, <1>2 DEF Reserve, store
  <2>4. ASSUME StartActivation(j) \/ Result(j) PROVE meta'[h] \in {meta[h], "started"}
    BY <2>4, <1>3 DEF StartActivation, Result
  <2>5. ASSUME Finish(j) \/ Inspect(j) PROVE meta'[h] \in {meta[h], "started"}
    BY <2>5, <2>2 DEF Finish, Inspect
  <2>6. ASSUME Precheck(j) \/ Begin(j) \/ Launch(j) \/ CommandReturns(j) \/ Gate(j)
        PROVE  meta'[h] = meta[h]
    BY <2>6 DEF Precheck, Begin, Launch, CommandReturns, Gate, store
  <2> QED BY <1>7, <2>1, <2>3, <2>4, <2>5, <2>6 DEF RunStep
<1>8. ASSUME NEW j \in Run, Interrupt(j) \/ Crash(j) PROVE meta'[h] = meta[h]
  BY <1>8 DEF Interrupt, Crash, store
<1>9. ASSUME NEW o \in Operator, OperatorStep(o) PROVE meta'[h] = meta[h]
  <2>1. CASE op[o].pc = "remove" /\ \E k \in op[o].keys : Remove(op[o].owner, k)
    <3>1. op[o].keys \subseteq Host
      BY DEF IInv, TypeOK, OperatorState
    <3>2. Stopped(op[o].owner)
      BY <2>1 DEF IInv, OperatorKnows
    <3> QED BY <2>1, <3>1, <3>2, <1>4, <1>6
  <2>2. CASE UNCHANGED meta
    BY <2>2
  <2> QED BY <1>9, <2>1, <2>2 DEF OperatorStep, OpList, OpController, OpProbe, OpRemove, store
<1>10. CASE Environment
  <2>1. ASSUME NEW c \in late, LateAcquire(c) \/ LateUpdate(c) \/ LateRelease(c)
        PROVE  meta'[h] \in {meta[h], "started"}
    <3>0. c \in Call /\ (c.name # "release" => c.run \in Run) /\ (c.name = "release" => Stopped(c.run))
      BY DEF IInv, TypeOK, LateStopped
    <3>1. CASE LateAcquire(c)
      BY <3>0, <3>1, <1>1 DEF LateAcquire
    <3>2. CASE LateUpdate(c)
      BY <3>2, <1>0 DEF LateUpdate
    <3>3. CASE LateRelease(c)
      <4>1. c.key \in Host /\ c.run # i
        BY <3>0, <3>3, <1>6 DEF LateRelease, Call
      <4> QED BY <3>3, <4>1, <1>4 DEF LateRelease
    <3> QED BY <2>1, <3>1, <3>2, <3>3
  <2>2. CASE UNCHANGED meta
    BY <2>2
  <2> QED BY <1>10, <2>1, <2>2 DEF Environment, FrontStarts, TargetEnds, FrontExits, Disrupt,
       Rejoin, LateCall, store
<1>11. CASE UNCHANGED vars
  BY <1>11 DEF vars
<1> QED BY <1>7, <1>8, <1>9, <1>10, <1>11 DEF Next

(* Every step keeps RecordedInv.                                              *)
LEMMA StepKeepsRecorded ==
    ASSUME "dropMidInspection" \notin Faults
    PROVE  RecordedInv /\ [Next]_vars => RecordedInv'
<1> SUFFICES ASSUME RecordedInv, [Next]_vars, NEW i \in Run PROVE Recorded(i)'
  BY IInvStep DEF RecordedInv
<1>1. Moves(i) /\ Keeps(i) /\ Recorded(i)
  BY EveryMoves, EveryKeeps DEF RecordedInv
<1> QED BY <1>1 DEF Moves, Keeps, Recorded

(* The metadata of all of a group's directories says "started" from the       *)
(* authority's acknowledgement until the run's work is over, so that an       *)
(* operator's release finds what to inspect (reservation.start, releaseHeld). *)
THEOREM WorkIsRecorded ==
    ASSUME "dropMidInspection" \notin Faults
    PROVE  Spec => []StartedIsRecorded
<1>1. Init => RecordedInv
  <2> SUFFICES ASSUME Init PROVE \A i \in Run : Recorded(i)
    BY IInvInit DEF RecordedInv
  <2> QED BY DEF Init, NewRun, Recorded, Switching, Working
<1>2. RecordedInv /\ [Next]_vars => RecordedInv'
  BY StepKeepsRecorded
<1>3. RecordedInv => StartedIsRecorded
  BY DEF RecordedInv, Recorded, StartedIsRecorded
<1> QED BY <1>1, <1>2, <1>3, PTL DEF Spec

-----------------------------------------------------------------------------
(* Quorum *)

(* Readiness is only lost by a host that some run's work is on.               *)
LEMMA ReadyStep ==
    ASSUME IInv, [Next]_vars
    PROVE  \/ \A h \in Host : ready[h] => ready'[h]
           \/ \E i \in Run : Disrupt(i)
<1>1. ASSUME NEW h \in Host, Rejoin(h) PROVE \A k \in Host : ready[k] => ready'[k]
  BY <1>1 DEF Rejoin, IInv, TypeOK
<1>2. ASSUME UNCHANGED ready PROVE \A k \in Host : ready[k] => ready'[k]
  BY <1>2
<1>3. ASSUME NEW i \in Run, RunStep(i) \/ Interrupt(i) \/ Crash(i) PROVE UNCHANGED ready
  BY <1>3 DEF RunStep, Reserve, Precheck, Begin, StartActivation, Launch, CommandReturns, Result,
     Gate, Finish, Inspect, Releasing, Interrupt, Crash
<1>4. ASSUME NEW o \in Operator, OperatorStep(o) PROVE UNCHANGED ready
  BY <1>4 DEF OperatorStep, OpList, OpController, OpProbe, OpRemove
<1>5. CASE Environment
  BY <1>1, <1>2, <1>5 DEF Environment, FrontStarts, TargetEnds, FrontExits, LateCall
<1>6. CASE UNCHANGED vars
  BY <1>6 DEF vars
<1> QED BY <1>2, <1>3, <1>4, <1>5, <1>6 DEF Next

\* A host belongs to at most one serial group, as the inventory's parser checks.
OneGroup == \A i, j \in Run : Group[i] = Group[j] \/ Group[i] \cap Group[j] = {}

(* A rollout gets on only as far as its members' readiness allows.            *)
LEMMA StepKeepsQuorum ==
    ASSUME "dropMidInspection" \notin Faults, OneGroup
    PROVE  QuorumInv /\ [Next]_vars => QuorumInv'
<1> SUFFICES ASSUME QuorumInv, [Next]_vars, Gated, NEW i \in Run
             PROVE  Covered(i)' /\ Seen(i)' /\ OneOut(i)'
  BY IInvStep DEF QuorumInv
<1>0. /\ IInv /\ Covered(i) /\ Seen(i) /\ OneOut(i) /\ Moves(i)
      /\ Group[i] \subseteq Host /\ ctl[i] \in RunState /\ ctl[i].seen \subseteq Host
  BY EveryMoves, ReservationsAssumption DEF QuorumInv, IInv, TypeOK, RunState
<1>1. CASE \A h \in Host : ready[h] => ready'[h]
  <2>1. Covered(i)'
    <3> SUFFICES ASSUME ctl'[i].pc \in Past \/ Working(i)', NEW h \in Group[i]
                 PROVE  ready'[h] \/ h = ctl'[i].cur
      BY DEF Covered
    <3>1. CASE (ctl[i].pc \in Past \/ Working(i)) /\ ctl'[i].cur = ctl[i].cur
      BY <1>0, <1>1, <3>1 DEF Covered
    <3>2. CASE ctl[i].pc = "precheck" /\ ctl'[i].cur = ctl[i].cur /\ (h \in ctl[i].seen \/ h = ctl[i].cur)
      BY <1>0, <1>1, <3>2 DEF Seen
    <3> QED BY <1>0, <3>1, <3>2 DEF Moves
  <2>2. Seen(i)'
    <3>1. ctl'[i].pc = "idle" => ctl'[i].seen = {}
      BY <1>0 DEF Moves, Seen
    <3>2. ASSUME ctl'[i].pc = "precheck", NEW h \in ctl'[i].seen PROVE h \in Group[i] /\ ready'[h]
      <4>1. h \in Group[i] /\ ready[h]
        BY <1>0, <3>2 DEF Moves, Seen
      <4> QED BY <1>0, <1>1, <4>1
    <3> QED BY <3>1, <3>2 DEF Seen
  <2>3. OneOut(i)'
    BY <1>0, <1>1 DEF OneOut
  <2> QED BY <2>1, <2>2, <2>3
<1>2. ASSUME NEW j \in Run, Disrupt(j) PROVE Covered(i)' /\ Seen(i)' /\ OneOut(i)'
  <2>0. /\ UNCHANGED <<ctl, front, target, held>> /\ target[j] /\ Working(j) /\ ctl[j].cur \in Group[j]
        /\ \A h \in Host \ {ctl[j].cur} : ready'[h] = ready[h]
        /\ \A h \in Group[j] : held[h] = j /\ (ready[h] \/ h = ctl[j].cur)
    <3>1. /\ UNCHANGED <<ctl, front, target, held>> /\ target[j] /\ Working(j)
          /\ ready' = [ready EXCEPT ![ctl[j].cur] = FALSE]
      BY <1>2 DEF Disrupt, work, store, Working
    <3>2. TypeOK /\ WorkPhases /\ Protected /\ Covered(j)
      BY DEF QuorumInv, IInv
    <3>3. ctl[j].cur \in Group[j] /\ \A h \in Host \ {ctl[j].cur} : ready'[h] = ready[h]
      BY <3>1, <3>2 DEF WorkPhases, TypeOK
    <3>4. \A h \in Group[j] : held[h] = j
      BY <3>1, <3>2 DEF Protected
    <3>5. \A h \in Group[j] : ready[h] \/ h = ctl[j].cur
      BY <3>1, <3>2 DEF Covered
    <3> QED BY <3>1, <3>3, <3>4, <3>5
  <2>1. CASE i = j
    <3>1. Covered(i)' /\ OneOut(i)'
      BY <1>0, <2>0, <2>1 DEF Covered, OneOut, Working
    <3>2. ctl[i].pc \notin {"precheck", "idle"}
      BY <2>0, <2>1, NoWorkYet DEF QuorumInv
    <3> QED BY <2>0, <3>1, <3>2 DEF Seen
  <2>2. CASE i # j
    <3>1. ASSUME ctl[i].pc \in Past \cup {"precheck"} \/ Working(i)
          PROVE  ctl[j].cur \notin Group[i]
      BY <1>0, <2>0, <2>2, <3>1 DEF IInv, Owns, Protected, Past, Switching, Holding
    <3>2. Covered(i)'
      BY <1>0, <2>0, <3>1 DEF Covered, Working
    <3>3. Seen(i)'
      BY <1>0, <2>0, <3>1 DEF Seen
    <3>4. OneOut(i)'
      <4>1. CASE Group[i] = Group[j]
        BY <1>0, <2>0, <4>1 DEF OneOut
      <4>2. CASE Group[i] \cap Group[j] = {}
        BY <1>0, <2>0, <4>2 DEF OneOut
      <4> QED BY <4>1, <4>2 DEF OneGroup
    <3> QED BY <3>2, <3>3, <3>4
  <2> QED BY <2>1, <2>2
<1> QED BY <1>0, <1>1, <1>2, ReadyStep

(* At most one member of a serial group is ever out of its quorum, whoever    *)
(* deploys, crashes or is interrupted (switchGroup, switchHost).              *)
THEOREM QuorumAlwaysKept ==
    ASSUME "dropMidInspection" \notin Faults, OneGroup
    PROVE  Spec => []QuorumKept
<1>1. Init => QuorumInv
  <2> SUFFICES ASSUME Init, NEW i \in Run PROVE Covered(i) /\ Seen(i) /\ OneOut(i)
    BY IInvInit DEF QuorumInv
  <2>1. \A h \in Group[i] : ready[h]
    BY ReservationsAssumption DEF Init
  <2>2. Group[i] # {}
    BY ReservationsAssumption
  <2> QED BY <2>1, <2>2 DEF Init, NewRun, Covered, Seen, OneOut
<1>2. QuorumInv /\ [Next]_vars => QuorumInv'
  BY StepKeepsQuorum
<1>3. QuorumInv => QuorumKept
  <2> SUFFICES ASSUME QuorumInv, Gated, NEW i \in Run
               PROVE  Cardinality({h \in Group[i] : ~ready[h]}) <= 1
    BY DEF QuorumKept
  <2>1. PICK x \in Group[i] : \A h \in Group[i] : ready[h] \/ h = x
    BY DEF QuorumInv, OneOut
  <2>2. CASE {h \in Group[i] : ~ready[h]} = {}
    BY <2>2, FS_EmptySet
  <2>3. CASE {h \in Group[i] : ~ready[h]} = {x}
    BY <2>3, FS_Singleton
  <2> QED BY <2>1, <2>2, <2>3
<1> QED BY <1>1, <1>2, <1>3, PTL DEF Spec
=============================================================================
