---------------------------- MODULE RunRecordProofs ----------------------------
(***************************************************************************)
(* Proofs about RunRecord for any number of runs, versions of the lock and *)
(* failed writes, and any positive Keep.  Lives is about the runs' flocks, *)
(* Kept about what a prune has listed, Locks about which lock a record     *)
(* holds, Based about the baseline that triage has chosen.                 *)
(***************************************************************************)
EXTENDS RunRecord, FiniteSetTheorems, TLAPS

-----------------------------------------------------------------------------
(* The invariants *)

Process == [at : {"none", "made", "opened", "started", "evaluated", "renamed", "noted", "reported",
                  "prune", "removing", "over", "unrecorded"},
            lock : 0 .. MaxLock, used : 0 .. MaxLock, todo : SUBSET Run, blind : BOOLEAN]
Directory == [there : BOOLEAN, lockFile : BOOLEAN, lock : -1 .. MaxLock,
              json : {"none", "started", "ended"}, report : {"none", "deployed", "not"}]

\* The type invariant, of the whole state.
Typed ==
    /\ flake \in [lock : 1 .. MaxLock, behind : BOOLEAN]
    /\ flake.behind => flake.lock < MaxLock
    /\ proc \in [Run -> Process] /\ dir \in [Run -> Directory]
    /\ held \in [Run -> SUBSET (Run \cup {Reader})]
    /\ \A r \in Run : held[r] = {} \/ \E x \in Run \cup {Reader} : held[r] = {x}
    /\ triage \in [at : {"idle", "selected", "testing", "tested", "read", "based", "compared"},
                   run : Run, base : Run \cup {0}, old : 0 .. MaxLock]
    /\ faults \in 0 .. MaxFaults

\* A run that has its record has its lock, in its directory unless that was
\* removed; a prune that found a lock free has it until the directory is gone.
LivesOf(r) ==
    /\ r \notin proc[r].todo
    /\ Recorded(r) => r \in held[r]
    /\ (Recorded(r) \/ At(r, "opened")) /\ dir[r].there => dir[r].lockFile
    /\ At(r, "removing") /\ ~ proc[r].blind => \A q \in Oldest(r) : r \in held[q]
Lives == \A r \in Run : LivesOf(r)

Newer(q) == {k \in There : k > q}

\* Every directory on a prune's list has enough newer ones, whatever other
\* prunes removed since it was listed.
Kept == \A r \in Run : \A q \in proc[r].todo : Cardinality(Newer(q)) >= Keep

\* Where a run is that has reported.
Reported == {"reported", "prune", "removing", "over"}

\* A record holds the lock the run started with up to its evaluation, and the
\* one that was evaluated from the note of it on, or half a file.
LocksOf(r) ==
    /\ proc[r].at \in {"started", "evaluated"} /\ dir[r].there => dir[r].lock \in {proc[r].lock, Torn}
    /\ proc[r].at = "evaluated" => ~ flake.behind /\ flake.lock = proc[r].used
    /\ proc[r].at = "renamed" => proc[r].lock = proc[r].used
    /\ proc[r].at \in {"noted", "reported"} /\ dir[r].there => dir[r].lock \in {proc[r].used, Torn}
    /\ dir[r].report = "deployed" => /\ proc[r].at \in Reported
                                     /\ dir[r].lock \in {proc[r].used, Torn}
Locks == \A r \in Run : LocksOf(r)

\* The baseline is of an earlier run that was reported, or pruned since.
Base == /\ triage.base \in Run /\ triage.base < triage.run
        /\ proc[triage.base].at \in Reported
        /\ dir[triage.base].there => dir[triage.base].report = "deployed"
Based ==
    /\ triage.at = "based" /\ triage.base # 0 => Base
    /\ triage.at = "compared" /\ triage.old # None => Base /\ triage.old = proc[triage.base].used

Inv == Typed /\ Lives /\ Kept /\ Locks /\ Based

-----------------------------------------------------------------------------
(* The directories newer than one *)

(* The directories are finitely many, and more of them count no less. *)
LEMMA NewerFacts ==
    ASSUME Settings, NEW S, NEW T, S \subseteq T, T \subseteq Run
    PROVE  /\ Cardinality(S) \in Nat /\ Cardinality(T) \in Nat
           /\ Cardinality(S) <= Cardinality(T)
<1>1. IsFiniteSet(Run)
  BY FS_Interval DEF Settings, Run
<1>2. IsFiniteSet(T)
  BY <1>1, FS_Subset
<1>3. IsFiniteSet(S) /\ Cardinality(S) <= Cardinality(T)
  BY <1>2, FS_Subset
<1> QED
  BY <1>2, <1>3, FS_CardinalityType

-----------------------------------------------------------------------------
(* What each step of a run does *)

HeldTyped ==
    /\ held \in [Run -> SUBSET (Run \cup {Reader})]
    /\ \A r \in Run : held[r] = {} \/ \E x \in Run \cup {Reader} : held[r] = {x}

Others(r) == Run \ {r}

\* A step of run r leaves the other processes and triage alone.
RunsAlone(r) ==
    /\ proc' \in [Run -> Process] /\ \A q \in Others(r) : proc'[q] = proc[q]
    /\ triage' = triage /\ faults' \in 0 .. MaxFaults

\* ... and the other directories, and the locks that other runs hold.
WritesOwn(r) ==
    /\ dir' \in [Run -> Directory] /\ \A q \in Others(r) : dir'[q] = dir[q]
LocksOwn(r) ==
    HeldTyped' /\ \A q \in Run : \A x \in Others(r) : x \in held[q] => x \in held'[q]

\* The run's directory is there as before, with its lock file.
Same(r) == dir'[r].there = dir[r].there /\ dir'[r].lockFile = dir[r].lockFile

(* A write may add to the failed ones. *)
LEMMA WriteTyped ==
    ASSUME Settings, Typed, NEW may, Write(may)
    PROVE  faults' \in 0 .. MaxFaults
BY DEF Settings, Typed, Write

(* Goto changes where the process is and nothing else. *)
LEMMA GotoFacts ==
    ASSUME Typed, NEW r \in Run,
           Goto(r, "opened") \/ Goto(r, "started") \/ Goto(r, "noted") \/ Goto(r, "reported")
    PROVE  /\ proc' \in [Run -> Process] /\ \A q \in Others(r) : proc'[q] = proc[q]
           /\ proc'[r].lock = proc[r].lock /\ proc'[r].used = proc[r].used
           /\ proc'[r].todo = proc[r].todo /\ proc'[r].blind = proc[r].blind
           /\ Goto(r, "opened") => proc'[r].at = "opened"
           /\ Goto(r, "started") => proc'[r].at = "started"
           /\ Goto(r, "noted") => proc'[r].at = "noted"
           /\ Goto(r, "reported") => proc'[r].at = "reported"
<1>1. PICK at \in {"opened", "started", "noted", "reported"} : proc' = [proc EXCEPT ![r].at = at]
  BY DEF Goto
<1>2. proc[r] \in Process
  BY DEF Typed
<1>3. proc'[r] = [proc[r] EXCEPT !.at = at] /\ \A q \in Others(r) : proc'[q] = proc[q]
  BY <1>1 DEF Typed, Others
<1>4. proc'[r] \in Process
  BY <1>2, <1>3 DEF Process
<1>5. proc' \in [Run -> Process]
  BY <1>1, <1>3, <1>4 DEF Typed, Others
<1>6. /\ proc'[r].lock = proc[r].lock /\ proc'[r].used = proc[r].used
      /\ proc'[r].todo = proc[r].todo /\ proc'[r].blind = proc[r].blind
  BY <1>2, <1>3 DEF Process
<1>7. proc'[r].at = at
  BY <1>2, <1>3 DEF Process
<1>8. /\ Goto(r, "opened") => proc'[r].at = "opened"
      /\ Goto(r, "started") => proc'[r].at = "started"
      /\ Goto(r, "noted") => proc'[r].at = "noted"
      /\ Goto(r, "reported") => proc'[r].at = "reported"
  BY <1>2 DEF Goto, Typed, Process
<1> QED
  BY <1>3, <1>5, <1>6, <1>8

(* A process that ends keeps the lock it evaluated from and no list. *)
LEMMA EndFacts ==
    ASSUME Settings, Typed, NEW r \in Run, NEW where \in {"over", "unrecorded"}, End(r, where)
    PROVE  /\ proc' \in [Run -> Process] /\ \A q \in Others(r) : proc'[q] = proc[q]
           /\ proc'[r].at = where /\ proc'[r].used = proc[r].used
           /\ proc'[r].todo = {} /\ ~ proc'[r].blind
<1>1. proc[r] \in Process
  BY DEF Typed
<1>2. /\ proc'[r] = [proc[r] EXCEPT !.at = where, !.lock = None, !.todo = {}, !.blind = FALSE]
      /\ \A q \in Others(r) : proc'[q] = proc[q]
  BY DEF End, Typed, Others
<1>3. proc'[r] \in Process
  <2>1. None \in 0 .. MaxLock
    BY DEF None, Settings
  <2> QED
    BY <1>1, <1>2, <2>1 DEF Process
<1>4. proc' \in [Run -> Process]
  BY <1>2, <1>3 DEF End, Typed, Others
<1>5. /\ proc'[r].at = where /\ proc'[r].used = proc[r].used
      /\ proc'[r].todo = {} /\ ~ proc'[r].blind
  BY <1>1, <1>2 DEF Process
<1> QED
  BY <1>2, <1>4, <1>5

(* A directory is made, or the run goes without a record. *)
LEMMA StartFacts ==
    ASSUME Settings, Typed, NEW r \in Run, Start(r)
    PROVE  /\ RunsAlone(r) /\ WritesOwn(r) /\ held' = held /\ flake' = flake
           /\ proc[r].at = "none" /\ proc'[r].at \in {"made", "unrecorded"}
           /\ proc'[r].used = proc[r].used /\ proc'[r].todo \subseteq proc[r].todo
           /\ proc'[r].blind => proc[r].blind
           /\ dir[r].there => dir'[r].there
           /\ dir'[r].report = dir[r].report /\ dir'[r].lock = dir[r].lock
<1>1. proc[r] \in Process /\ dir[r] \in Directory /\ flake.lock \in 0 .. MaxLock /\ faults' \in 0 .. MaxFaults
  BY DEF Start, Typed, Settings
<1>2. CASE /\ dir' = [dir EXCEPT ![r].there = TRUE]
           /\ proc' = [proc EXCEPT ![r].at = "made", ![r].lock = flake.lock]
  <2>1. /\ proc'[r] = [proc[r] EXCEPT !.at = "made", !.lock = flake.lock]
        /\ \A q \in Others(r) : proc'[q] = proc[q]
    BY <1>2 DEF Typed, Others
  <2>2. proc'[r] \in Process
    BY <1>1, <2>1 DEF Process
  <2>3. proc' \in [Run -> Process]
    BY <1>2, <2>1, <2>2 DEF Typed, Others
  <2>4. /\ dir'[r] = [dir[r] EXCEPT !.there = TRUE]
        /\ \A q \in Others(r) : dir'[q] = dir[q]
    BY <1>2 DEF Typed, Others
  <2>5. dir'[r] \in Directory
    BY <1>1, <2>4 DEF Directory
  <2>6. dir' \in [Run -> Directory]
    BY <1>2, <2>4, <2>5 DEF Typed, Others
  <2>7. dir'[r].there /\ dir'[r].report = dir[r].report /\ dir'[r].lock = dir[r].lock
    BY <1>1, <2>4 DEF Directory
  <2>8. /\ proc'[r].at = "made" /\ proc'[r].used = proc[r].used
        /\ proc'[r].todo = proc[r].todo /\ proc'[r].blind = proc[r].blind
    BY <1>1, <2>1 DEF Process
  <2> QED
    BY <1>1, <2>1, <2>3, <2>4, <2>6, <2>7, <2>8 DEF RunsAlone, WritesOwn, Start, At
<1>3. CASE End(r, "unrecorded") /\ UNCHANGED dir
  <2>1. /\ proc' \in [Run -> Process] /\ \A q \in Others(r) : proc'[q] = proc[q]
        /\ proc'[r].at = "unrecorded" /\ proc'[r].used = proc[r].used
        /\ proc'[r].todo = {} /\ ~ proc'[r].blind
    BY <1>3, EndFacts
  <2> QED
    BY <1>1, <1>3, <2>1 DEF RunsAlone, WritesOwn, Start, At, Typed
<1> QED
  BY <1>2, <1>3 DEF Start

(* A record is written where its directory is there. *)
LEMMA RecordFacts ==
    ASSUME Typed, NEW r \in Run, NEW new \in Directory, Record(r, new), new.there = dir[r].there
    PROVE  /\ WritesOwn(r) /\ dir'[r].there = dir[r].there
           /\ dir[r].there => dir'[r] = new
           /\ ~ dir[r].there => dir' = dir
<1>1. CASE dir[r].there
  <2>1. dir' = [dir EXCEPT ![r] = new]
    BY <1>1 DEF Record
  <2>2. dir'[r] = new /\ WritesOwn(r)
    BY <2>1 DEF Typed, WritesOwn, Others
  <2> QED
    BY <1>1, <2>2
<1>2. CASE ~ dir[r].there
  <2>1. dir' = dir
    BY <1>2 DEF Record
  <2> QED
    BY <1>2, <2>1 DEF Typed, WritesOwn, Others
<1> QED
  BY <1>1, <1>2

(* A run opens its lock in its directory, or the directory is gone. *)
LEMMA OpenLockFacts ==
    ASSUME Settings, Typed, NEW r \in Run, OpenLock(r)
    PROVE  /\ RunsAlone(r) /\ WritesOwn(r) /\ held' = held /\ flake' = flake
           /\ proc[r].at = "made" /\ proc'[r].at \in {"opened", "unrecorded"}
           /\ proc'[r].used = proc[r].used /\ proc'[r].todo \subseteq proc[r].todo
           /\ proc'[r].blind => proc[r].blind
           /\ dir'[r].there = dir[r].there /\ (dir[r].there => dir'[r].lockFile)
           /\ dir'[r].report = dir[r].report /\ dir'[r].lock = dir[r].lock
<1>1. /\ proc[r] \in Process /\ dir[r] \in Directory /\ flake' = flake /\ triage' = triage
      /\ held' = held /\ proc[r].at = "made" /\ faults' \in 0 .. MaxFaults
  BY DEF OpenLock, Typed, At
<1> DEFINE new == [dir[r] EXCEPT !.lockFile = TRUE]
<1>2. /\ new \in Directory /\ new.there = dir[r].there /\ new.lockFile
      /\ new.report = dir[r].report /\ new.lock = dir[r].lock
  BY <1>1 DEF Directory
<1>3. Record(r, new)
  BY DEF OpenLock
<1> HIDE DEF new
<1>4. /\ WritesOwn(r) /\ dir'[r].there = dir[r].there
      /\ dir[r].there => dir'[r] = new
      /\ ~ dir[r].there => dir' = dir
  BY <1>2, <1>3, RecordFacts
<1>5. /\ dir[r].there => dir'[r].lockFile
      /\ dir'[r].report = dir[r].report /\ dir'[r].lock = dir[r].lock
  BY <1>2, <1>4
<1>6. /\ proc' \in [Run -> Process] /\ \A q \in Others(r) : proc'[q] = proc[q]
      /\ proc'[r].at \in {"opened", "unrecorded"}
      /\ proc'[r].used = proc[r].used /\ proc'[r].todo \subseteq proc[r].todo
      /\ proc'[r].blind => proc[r].blind
  <2>1. CASE Goto(r, "opened")
    BY <2>1, GotoFacts
  <2>2. CASE End(r, "unrecorded")
    BY <2>2, EndFacts
  <2> QED
    BY <2>1, <2>2 DEF OpenLock
<1> QED
  BY <1>1, <1>4, <1>5, <1>6 DEF RunsAlone

(* The flock is taken, with the first entries of the record, or it is not. *)
LEMMA TakeLockFacts ==
    ASSUME Settings, Typed, NEW r \in Run, TakeLock(r)
    PROVE  /\ RunsAlone(r) /\ WritesOwn(r) /\ LocksOwn(r) /\ Same(r) /\ flake' = flake
           /\ proc[r].at = "opened"
           /\ proc'[r].used = proc[r].used /\ proc'[r].todo \subseteq proc[r].todo
           /\ proc'[r].blind => proc[r].blind
           /\ dir'[r].report = dir[r].report
           /\ \/ /\ held'[r] = {r} /\ proc'[r].at = "started"
                 /\ dir'[r].lock \in {proc'[r].lock, Torn}
              \/ proc'[r].at = "unrecorded" /\ dir'[r].lock = dir[r].lock
<1>1. proc[r] \in Process /\ dir[r] \in Directory /\ flake' = flake /\ triage' = triage
      /\ proc[r].at = "opened"
  BY DEF TakeLock, Typed, At
<1>2. CASE Unlocked(r) /\ dir[r].there
  <2>1. PICK may \in {"done", "failed"} :
          /\ Write(may)
          /\ held' = [held EXCEPT ![r] = {r}]
          /\ Record(r, [dir[r] EXCEPT !.json = "started",
                                       !.lock = IF may = "done" THEN proc[r].lock ELSE Torn])
          /\ Goto(r, "started")
    BY <1>2 DEF TakeLock
  <2>2. faults' \in 0 .. MaxFaults
    BY <2>1, WriteTyped
  <2>3. /\ proc' \in [Run -> Process] /\ \A q \in Others(r) : proc'[q] = proc[q]
        /\ proc'[r].lock = proc[r].lock /\ proc'[r].used = proc[r].used
        /\ proc'[r].todo = proc[r].todo /\ proc'[r].blind = proc[r].blind
        /\ proc'[r].at = "started"
    BY <2>1, GotoFacts
  <2> DEFINE lock == IF may = "done" THEN proc[r].lock ELSE Torn
             new == [dir[r] EXCEPT !.json = "started", !.lock = lock]
  <2>4. lock \in -1 .. MaxLock /\ lock \in {proc[r].lock, Torn}
    BY <1>1 DEF Process, Torn, Settings
  <2>5. Record(r, new)
    BY <2>1
  <2> HIDE DEF lock
  <2>6. /\ new \in Directory /\ new.there = dir[r].there /\ new.lockFile = dir[r].lockFile
        /\ new.report = dir[r].report /\ new.lock = lock
    BY <1>1, <2>4 DEF Directory
  <2> HIDE DEF new
  <2>7. WritesOwn(r) /\ dir'[r] = new
    BY <1>2, <2>5, <2>6, RecordFacts
  <2>8. LocksOwn(r) /\ held'[r] = {r}
    BY <1>2, <2>1 DEF Typed, Others, LocksOwn, HeldTyped, Unlocked
  <2> QED
    BY <1>1, <2>2, <2>3, <2>4, <2>6, <2>7, <2>8 DEF RunsAlone, Same
<1>3. CASE ~ (Unlocked(r) /\ dir[r].there)
  <2>1. End(r, "unrecorded") /\ UNCHANGED <<dir, held, faults>>
    BY <1>3 DEF TakeLock
  <2>2. /\ proc' \in [Run -> Process] /\ \A q \in Others(r) : proc'[q] = proc[q]
        /\ proc'[r].at = "unrecorded" /\ proc'[r].used = proc[r].used
        /\ proc'[r].todo = {} /\ ~ proc'[r].blind
    BY <2>1, EndFacts
  <2>3. WritesOwn(r) /\ LocksOwn(r) /\ Same(r) /\ faults' \in 0 .. MaxFaults
    BY <2>1 DEF Typed, WritesOwn, LocksOwn, HeldTyped, Same
  <2> QED
    BY <1>1, <2>1, <2>2, <2>3 DEF RunsAlone
<1> QED
  BY <1>2, <1>3

(* The evaluation writes a lock that is behind, and no other. *)
LEMMA EvaluateFacts ==
    ASSUME Settings, Typed, NEW r \in Run, Evaluate(r)
    PROVE  /\ RunsAlone(r) /\ dir' = dir /\ held' = held
           /\ flake' \in [lock : 1 .. MaxLock, behind : BOOLEAN] /\ ~ flake'.behind
           /\ ~ flake.behind => flake'.lock = flake.lock
           /\ proc[r].at = "started" /\ proc'[r].at = "evaluated"
           /\ proc'[r].lock = proc[r].lock /\ proc'[r].used = flake'.lock
           /\ proc'[r].todo = proc[r].todo /\ proc'[r].blind = proc[r].blind
<1>1. proc[r] \in Process /\ dir' = dir /\ held' = held /\ triage' = triage /\ faults' = faults
      /\ proc[r].at = "started"
  BY DEF Evaluate, Typed, At
<1> DEFINE lock == IF flake.behind THEN flake.lock + 1 ELSE flake.lock
<1>2. lock \in 1 .. MaxLock /\ lock \in 0 .. MaxLock /\ (~ flake.behind => lock = flake.lock)
  BY DEF Typed, Settings
<1> HIDE DEF lock
<1>3. flake' = [lock |-> lock, behind |-> FALSE]
  BY DEF Evaluate, lock
<1>4. flake'.lock = lock /\ flake'.behind = FALSE
  BY <1>3
<1>5. flake' \in [lock : 1 .. MaxLock, behind : BOOLEAN]
  BY <1>2, <1>3
<1>6. proc' = [proc EXCEPT ![r].at = "evaluated", ![r].used = lock]
  BY <1>4 DEF Evaluate
<1>7. /\ proc'[r] = [proc[r] EXCEPT !.at = "evaluated", !.used = lock]
      /\ \A q \in Others(r) : proc'[q] = proc[q]
  BY <1>6 DEF Typed, Others
<1>8. proc'[r] \in Process
  BY <1>1, <1>2, <1>7 DEF Process
<1>9. proc' \in [Run -> Process]
  BY <1>6, <1>7, <1>8 DEF Typed, Others
<1>10. /\ proc'[r].at = "evaluated" /\ proc'[r].lock = proc[r].lock /\ proc'[r].used = lock
       /\ proc'[r].todo = proc[r].todo /\ proc'[r].blind = proc[r].blind
  BY <1>1, <1>7 DEF Process
<1> QED
  BY <1>1, <1>2, <1>4, <1>5, <1>7, <1>9, <1>10 DEF RunsAlone, Typed

(* The copy of a lock that did not change stays; one that did is put aside. *)
LEMMA NoteFacts ==
    ASSUME Settings, Typed, NEW r \in Run, NoteEvaluatedLock(r)
    PROVE  /\ RunsAlone(r) /\ WritesOwn(r) /\ Same(r) /\ held' = held /\ flake' = flake
           /\ proc[r].at = "evaluated"
           /\ proc'[r].used = proc[r].used /\ proc'[r].todo = proc[r].todo
           /\ proc'[r].blind = proc[r].blind
           /\ dir'[r].report = dir[r].report
           /\ \/ /\ proc'[r].at = "noted" /\ flake.lock = proc[r].lock
                 /\ dir'[r].lock = dir[r].lock
              \/ proc'[r].at = "renamed" /\ proc'[r].lock = flake.lock
<1>1. proc[r] \in Process /\ dir[r] \in Directory /\ flake' = flake /\ triage' = triage
      /\ held' = held /\ proc[r].at = "evaluated"
  BY DEF NoteEvaluatedLock, Typed, At
<1>2. CASE flake.lock = proc[r].lock
  <2>1. Goto(r, "noted") /\ dir' = dir /\ faults' = faults
    BY <1>2 DEF NoteEvaluatedLock
  <2>2. /\ proc' \in [Run -> Process] /\ \A q \in Others(r) : proc'[q] = proc[q]
        /\ proc'[r].used = proc[r].used /\ proc'[r].todo = proc[r].todo
        /\ proc'[r].blind = proc[r].blind /\ proc'[r].at = "noted"
    BY <2>1, GotoFacts
  <2> QED
    BY <1>1, <1>2, <2>1, <2>2 DEF RunsAlone, WritesOwn, Typed, Same
<1>3. CASE flake.lock # proc[r].lock
  <2>1. PICK may \in {"done", "failed"} :
          /\ Write(may)
          /\ Record(r, [dir[r] EXCEPT !.lock = IF may = "failed" THEN dir[r].lock ELSE None])
          /\ proc' = [proc EXCEPT ![r].at = "renamed", ![r].lock = flake.lock]
    BY <1>1, <1>3 DEF NoteEvaluatedLock, Directory
  <2>2. faults' \in 0 .. MaxFaults
    BY <2>1, WriteTyped
  <2>3. /\ proc'[r] = [proc[r] EXCEPT !.at = "renamed", !.lock = flake.lock]
        /\ \A q \in Others(r) : proc'[q] = proc[q]
    BY <2>1 DEF Typed, Others
  <2>4. flake.lock \in 0 .. MaxLock
    BY DEF Typed, Settings
  <2>5. proc'[r] \in Process
    BY <1>1, <2>3, <2>4 DEF Process
  <2>6. proc' \in [Run -> Process]
    BY <2>1, <2>3, <2>5 DEF Typed, Others
  <2>7. /\ proc'[r].at = "renamed" /\ proc'[r].lock = flake.lock
        /\ proc'[r].used = proc[r].used /\ proc'[r].todo = proc[r].todo
        /\ proc'[r].blind = proc[r].blind
    BY <1>1, <2>3 DEF Process
  <2> DEFINE lock == IF may = "failed" THEN dir[r].lock ELSE None
             new == [dir[r] EXCEPT !.lock = lock]
  <2>8. lock \in -1 .. MaxLock
    BY <1>1 DEF Directory, None, Settings
  <2>9. Record(r, new)
    BY <2>1
  <2> HIDE DEF lock
  <2>10. /\ new \in Directory /\ new.there = dir[r].there /\ new.lockFile = dir[r].lockFile
         /\ new.report = dir[r].report
    BY <1>1, <2>8 DEF Directory
  <2> HIDE DEF new
  <2>11. /\ WritesOwn(r) /\ dir'[r].there = dir[r].there
         /\ dir[r].there => dir'[r] = new
         /\ ~ dir[r].there => dir' = dir
    BY <2>9, <2>10, RecordFacts
  <2>12. Same(r) /\ dir'[r].report = dir[r].report
    BY <2>10, <2>11 DEF Same
  <2> QED
    BY <1>1, <2>2, <2>3, <2>6, <2>7, <2>11, <2>12 DEF RunsAlone
<1> QED
  BY <1>2, <1>3

(* The lock that was evaluated is written, or half of it. *)
LEMMA WriteLockFacts ==
    ASSUME Settings, Typed, NEW r \in Run, WriteEvaluatedLock(r)
    PROVE  /\ RunsAlone(r) /\ WritesOwn(r) /\ Same(r) /\ held' = held /\ flake' = flake
           /\ proc[r].at = "renamed" /\ proc'[r].at = "noted"
           /\ proc'[r].used = proc[r].used /\ proc'[r].todo = proc[r].todo
           /\ proc'[r].blind = proc[r].blind /\ dir'[r].report = dir[r].report
           /\ dir[r].there => dir'[r].lock \in {proc[r].lock, Torn}
           /\ ~ dir[r].there => dir'[r].lock = dir[r].lock
<1>1. proc[r] \in Process /\ dir[r] \in Directory /\ flake' = flake /\ triage' = triage
      /\ held' = held /\ proc[r].at = "renamed"
  BY DEF WriteEvaluatedLock, Typed, At
<1>2. PICK may \in {"done", "failed"} :
        /\ Write(may)
        /\ Record(r, [dir[r] EXCEPT !.lock = IF may = "done" THEN proc[r].lock ELSE Torn])
  BY DEF WriteEvaluatedLock
<1>3. faults' \in 0 .. MaxFaults
  BY <1>2, WriteTyped
<1>4. /\ proc' \in [Run -> Process] /\ \A q \in Others(r) : proc'[q] = proc[q]
      /\ proc'[r].used = proc[r].used /\ proc'[r].todo = proc[r].todo
      /\ proc'[r].blind = proc[r].blind /\ proc'[r].at = "noted"
  BY GotoFacts DEF WriteEvaluatedLock
<1> DEFINE lock == IF may = "done" THEN proc[r].lock ELSE Torn
           new == [dir[r] EXCEPT !.lock = lock]
<1>5. lock \in -1 .. MaxLock /\ lock \in {proc[r].lock, Torn}
  BY <1>1 DEF Process, Torn, Settings
<1>6. Record(r, new)
  BY <1>2
<1> HIDE DEF lock
<1>7. /\ new \in Directory /\ new.there = dir[r].there /\ new.lockFile = dir[r].lockFile
      /\ new.report = dir[r].report /\ new.lock = lock
  BY <1>1, <1>5 DEF Directory
<1> HIDE DEF new
<1>8. /\ WritesOwn(r) /\ dir'[r].there = dir[r].there
      /\ dir[r].there => dir'[r] = new
      /\ ~ dir[r].there => dir' = dir
  BY <1>6, <1>7, RecordFacts
<1>9. /\ Same(r) /\ dir'[r].report = dir[r].report
      /\ dir[r].there => dir'[r].lock \in {proc[r].lock, Torn}
      /\ ~ dir[r].there => dir'[r].lock = dir[r].lock
  BY <1>5, <1>7, <1>8 DEF Same
<1> QED
  BY <1>1, <1>3, <1>4, <1>8, <1>9 DEF RunsAlone

(* The report is written, or there is none. *)
LEMMA ReportFacts ==
    ASSUME Settings, Typed, NEW r \in Run, Report(r)
    PROVE  /\ RunsAlone(r) /\ WritesOwn(r) /\ Same(r) /\ held' = held /\ flake' = flake
           /\ proc[r].at = "noted" /\ proc'[r].at = "reported"
           /\ proc'[r].used = proc[r].used /\ proc'[r].todo = proc[r].todo
           /\ proc'[r].blind = proc[r].blind /\ dir'[r].lock = dir[r].lock
           /\ ~ dir[r].there => dir' = dir
<1>1. proc[r] \in Process /\ dir[r] \in Directory /\ flake' = flake /\ triage' = triage
      /\ held' = held /\ proc[r].at = "noted"
  BY DEF Report, Typed, At
<1>2. PICK status \in {"deployed", "not"}, may \in {"done", "failed"} :
        /\ Write(may)
        /\ Record(r, [dir[r] EXCEPT !.report = IF may = "done" THEN status ELSE "none"])
  BY DEF Report
<1>3. faults' \in 0 .. MaxFaults
  BY <1>2, WriteTyped
<1>4. /\ proc' \in [Run -> Process] /\ \A q \in Others(r) : proc'[q] = proc[q]
      /\ proc'[r].used = proc[r].used /\ proc'[r].todo = proc[r].todo
      /\ proc'[r].blind = proc[r].blind /\ proc'[r].at = "reported"
  BY GotoFacts DEF Report
<1> DEFINE report == IF may = "done" THEN status ELSE "none"
           new == [dir[r] EXCEPT !.report = report]
<1>5. report \in {"none", "deployed", "not"}
  OBVIOUS
<1>6. Record(r, new)
  BY <1>2
<1> HIDE DEF report
<1>7. /\ new \in Directory /\ new.there = dir[r].there /\ new.lockFile = dir[r].lockFile
      /\ new.lock = dir[r].lock
  BY <1>1, <1>5 DEF Directory
<1> HIDE DEF new
<1>8. /\ WritesOwn(r) /\ dir'[r].there = dir[r].there
      /\ dir[r].there => dir'[r] = new
      /\ ~ dir[r].there => dir' = dir
  BY <1>6, <1>7, RecordFacts
<1>9. Same(r) /\ dir'[r].lock = dir[r].lock
  BY <1>7, <1>8 DEF Same
<1> QED
  BY <1>1, <1>3, <1>4, <1>8, <1>9 DEF RunsAlone

(* An interrupted run writes that it deployed nothing, unless it reported, and *)
(* drops its lock, which nobody else has.                                      *)
LEMMA InterruptedFacts ==
    ASSUME Settings, Typed, Lives, NEW r \in Run, Interrupted(r)
    PROVE  /\ RunsAlone(r) /\ WritesOwn(r) /\ LocksOwn(r) /\ Same(r) /\ flake' = flake
           /\ proc[r].at \in {"started", "evaluated", "noted", "reported"} /\ proc'[r].at = "over"
           /\ proc'[r].used = proc[r].used /\ proc'[r].todo = {} /\ ~ proc'[r].blind
           /\ dir'[r].lock = dir[r].lock
           /\ dir'[r].report = "deployed" => dir[r].report = "deployed"
           /\ proc[r].at = "reported" => dir'[r].report = dir[r].report
<1>1. /\ proc[r] \in Process /\ dir[r] \in Directory /\ flake' = flake /\ triage' = triage
      /\ faults' \in 0 .. MaxFaults
      /\ proc[r].at \in {"started", "evaluated", "noted", "reported"}
  BY DEF Interrupted, Typed
<1>2. /\ proc' \in [Run -> Process] /\ \A q \in Others(r) : proc'[q] = proc[q]
      /\ proc'[r].at = "over" /\ proc'[r].used = proc[r].used /\ proc'[r].todo = {} /\ ~ proc'[r].blind
  BY EndFacts DEF Interrupted
<1> DEFINE report == IF proc[r].at = "reported" THEN dir[r].report ELSE "not"
           new == [dir[r] EXCEPT !.report = report]
<1>3. report \in {"none", "deployed", "not"} /\ (proc[r].at # "reported" => report = "not")
      /\ (proc[r].at = "reported" => report = dir[r].report)
  BY <1>1 DEF Directory
<1>4. Record(r, new)
  BY <1>1 DEF Interrupted, At, Directory
<1> HIDE DEF report
<1>5. /\ new \in Directory /\ new.there = dir[r].there /\ new.lockFile = dir[r].lockFile
      /\ new.lock = dir[r].lock /\ new.report = report
  BY <1>1, <1>3 DEF Directory
<1> HIDE DEF new
<1>6. /\ WritesOwn(r) /\ dir'[r].there = dir[r].there
      /\ dir[r].there => dir'[r] = new
      /\ ~ dir[r].there => dir' = dir
  BY <1>4, <1>5, RecordFacts
<1>7. Same(r) /\ dir'[r].lock = dir[r].lock
  BY <1>5, <1>6 DEF Same
<1>8. /\ dir'[r].report = "deployed" => dir[r].report = "deployed"
      /\ proc[r].at = "reported" => dir'[r].report = dir[r].report
  BY <1>3, <1>5, <1>6
<1>9. LocksOwn(r)
  <2>1. held[r] = {r}
    BY <1>1 DEF Lives, LivesOf, Recorded, Typed
  <2>2. held' = [held EXCEPT ![r] = {}]
    BY DEF Interrupted
  <2> QED
    BY <2>1, <2>2 DEF Typed, Others, LocksOwn, HeldTyped
<1> QED
  BY <1>1, <1>2, <1>6, <1>7, <1>8, <1>9 DEF RunsAlone

(* The record is completed and the directories are listed. *)
LEMMA FinishFacts ==
    ASSUME Settings, Typed, NEW r \in Run, Finish(r)
    PROVE  /\ RunsAlone(r) /\ WritesOwn(r) /\ Same(r) /\ held' = held /\ flake' = flake
           /\ proc[r].at = "reported" /\ proc'[r].at = "prune"
           /\ proc'[r].used = proc[r].used /\ proc'[r].todo = ToPrune(r)
           /\ proc'[r].blind = proc[r].blind
           /\ dir'[r].lock = dir[r].lock /\ dir'[r].report = dir[r].report
<1>1. /\ proc[r] \in Process /\ dir[r] \in Directory /\ flake' = flake /\ triage' = triage
      /\ held' = held /\ proc[r].at = "reported"
      /\ proc' = [proc EXCEPT ![r].at = "prune", ![r].todo = ToPrune(r)]
  BY DEF Finish, Typed, At
<1>2. PICK may \in {"done", "failed"} :
        /\ Write(may)
        /\ Record(r, [dir[r] EXCEPT !.json = IF may = "done" THEN "ended" ELSE dir[r].json])
  BY <1>1 DEF Finish, Directory
<1>3. faults' \in 0 .. MaxFaults
  BY <1>2, WriteTyped
<1>4. /\ proc'[r] = [proc[r] EXCEPT !.at = "prune", !.todo = ToPrune(r)]
      /\ \A q \in Others(r) : proc'[q] = proc[q]
  BY <1>1 DEF Typed, Others
<1>5. PICK list \in SUBSET Run : list = ToPrune(r)
  BY DEF ToPrune, There
<1>6. proc'[r] \in Process
  <2>1. proc'[r] = [proc[r] EXCEPT !.at = "prune", !.todo = list]
    BY <1>4, <1>5
  <2>2. proc[r] \in Process
    BY <1>1
  <2>3. list \in SUBSET Run
    BY <1>5
  <2> HIDE <1>5
  <2> QED
    BY <2>1, <2>2, <2>3 DEF Process
<1>7. proc' \in [Run -> Process]
  <2>1. /\ proc' = [proc EXCEPT ![r] = proc'[r]]
        /\ proc \in [Run -> Process]
    BY <1>1 DEF Typed
  <2> QED
    BY <1>6, <2>1
<1>8. /\ proc'[r].at = "prune" /\ proc'[r].used = proc[r].used
      /\ proc'[r].todo = ToPrune(r) /\ proc'[r].blind = proc[r].blind
  <2>1. /\ proc'[r] = [proc[r] EXCEPT !.at = "prune", !.todo = list]
        /\ proc[r] \in Process
    BY <1>1, <1>4, <1>5
  <2>2. /\ proc'[r].at = "prune" /\ proc'[r].used = proc[r].used
        /\ proc'[r].todo = list /\ proc'[r].blind = proc[r].blind
    BY <2>1 DEF Process
  <2> QED
    BY <1>5, <2>2
<1> DEFINE json == IF may = "done" THEN "ended" ELSE dir[r].json
           new == [dir[r] EXCEPT !.json = json]
<1>9. json \in {"none", "started", "ended"}
  BY <1>1 DEF Directory
<1>10. Record(r, new)
  BY <1>2
<1> HIDE DEF json
<1>11. /\ new \in Directory /\ new.there = dir[r].there /\ new.lockFile = dir[r].lockFile
       /\ new.lock = dir[r].lock /\ new.report = dir[r].report
  BY <1>1, <1>9 DEF Directory
<1> HIDE DEF new
<1>12. /\ WritesOwn(r) /\ dir'[r].there = dir[r].there
       /\ dir[r].there => dir'[r] = new
       /\ ~ dir[r].there => dir' = dir
  BY <1>10, <1>11, RecordFacts
<1>13. Same(r) /\ dir'[r].lock = dir[r].lock /\ dir'[r].report = dir[r].report
  BY <1>11, <1>12 DEF Same
<1> QED
  BY <1>1, <1>3, <1>4, <1>7, <1>8, <1>12, <1>13 DEF RunsAlone

(* A prune's next directory is one, if any. *)
LEMMA OldestFacts ==
    ASSUME Settings, Typed, NEW r \in Run, NEW q \in Oldest(r)
    PROVE  q \in Run /\ q \in proc[r].todo /\ \A p \in Oldest(r) : p = q
<1>1. q \in proc[r].todo /\ \A p \in proc[r].todo : q <= p
  BY DEF Oldest
<1>2. proc[r].todo \subseteq Run
  BY DEF Typed, Process
<1>3. ASSUME NEW p \in Oldest(r) PROVE p = q
  <2>1. p \in proc[r].todo /\ p <= q /\ q <= p
    BY <1>1 DEF Oldest
  <2> QED
    BY <1>1, <1>2, <2>1 DEF Run
<1> QED
  BY <1>1, <1>2, <1>3

(* A prune looks at a directory: it passes it over, finds no lock file there, *)
(* or takes the lock, which was free.                                         *)
LEMMA PruneFacts ==
    ASSUME Settings, Typed, NEW r \in Run, Prune(r)
    PROVE  /\ RunsAlone(r) /\ LocksOwn(r) /\ dir' = dir /\ flake' = flake
           /\ proc[r].at = "prune" /\ proc'[r].at \in {"prune", "removing"}
           /\ proc'[r].used = proc[r].used /\ proc'[r].todo \subseteq proc[r].todo
           /\ proc'[r].at = "prune" => proc'[r].blind = proc[r].blind
           /\ \A p \in Run : r \in held[p] => r \in held'[p]
           /\ proc'[r].at = "removing" =>
                 /\ proc'[r].todo = proc[r].todo
                 /\ \E q \in Oldest(r) : /\ proc'[r].blind = ~ dir[q].lockFile
                                         /\ dir[q].lockFile => held[q] = {} /\ held'[q] = {r}
<1>1. /\ proc[r] \in Process /\ dir' = dir /\ flake' = flake /\ triage' = triage
      /\ faults' \in 0 .. MaxFaults /\ proc[r].at = "prune" /\ HeldTyped
  BY DEF Prune, Typed, At, HeldTyped
<1>2. PICK q \in Oldest(r) :
        IF dir[q].lockFile /\ ~ Unlocked(q)
        THEN proc' = [proc EXCEPT ![r].todo = proc[r].todo \ {q}] /\ held' = held
        ELSE /\ proc' = [proc EXCEPT ![r].at = "removing", ![r].blind = ~ dir[q].lockFile]
             /\ held' = IF dir[q].lockFile THEN [held EXCEPT ![q] = {r}] ELSE held
  BY DEF Prune, Typed
<1>3. q \in Run
  BY OldestFacts
<1>4. CASE dir[q].lockFile /\ ~ Unlocked(q)
  <2>1. proc' = [proc EXCEPT ![r].todo = proc[r].todo \ {q}] /\ held' = held
    BY <1>2, <1>4
  <2>2. /\ proc'[r] = [proc[r] EXCEPT !.todo = proc[r].todo \ {q}]
        /\ \A p \in Others(r) : proc'[p] = proc[p]
    BY <2>1 DEF Typed, Others
  <2>3. proc'[r] \in Process
    BY <1>1, <2>2 DEF Process
  <2>4. proc' \in [Run -> Process]
    BY <2>1, <2>2, <2>3 DEF Typed, Others
  <2>5. /\ proc'[r].at = "prune" /\ proc'[r].used = proc[r].used
        /\ proc'[r].todo = proc[r].todo \ {q} /\ proc'[r].blind = proc[r].blind
    BY <1>1, <2>2 DEF Process
  <2>6. LocksOwn(r) /\ \A p \in Run : r \in held[p] => r \in held'[p]
    BY <1>1, <2>1 DEF LocksOwn, HeldTyped
  <2> QED
    BY <1>1, <2>2, <2>4, <2>5, <2>6 DEF RunsAlone
<1>5. CASE ~ (dir[q].lockFile /\ ~ Unlocked(q))
  <2>1. /\ proc' = [proc EXCEPT ![r].at = "removing", ![r].blind = ~ dir[q].lockFile]
        /\ held' = IF dir[q].lockFile THEN [held EXCEPT ![q] = {r}] ELSE held
    BY <1>2, <1>5
  <2>2. PICK blind \in BOOLEAN : blind = ~ dir[q].lockFile
    BY <1>3 DEF Typed, Directory
  <2>3. /\ proc'[r] = [proc[r] EXCEPT !.at = "removing", !.blind = blind]
        /\ \A p \in Others(r) : proc'[p] = proc[p]
    BY <2>1, <2>2 DEF Typed, Others
  <2>4. proc'[r] \in Process
    BY <1>1, <2>3 DEF Process
  <2>5. proc' \in [Run -> Process]
    BY <2>1, <2>3, <2>4 DEF Typed, Others
  <2>6. /\ proc'[r].at = "removing" /\ proc'[r].used = proc[r].used
        /\ proc'[r].todo = proc[r].todo /\ proc'[r].blind = blind
    BY <1>1, <2>3 DEF Process
  <2>7. /\ LocksOwn(r) /\ (dir[q].lockFile => held[q] = {} /\ held'[q] = {r})
        /\ \A p \in Run : r \in held[p] => r \in held'[p]
    <3>1. CASE dir[q].lockFile
      <4>1. held[q] = {} /\ held' = [held EXCEPT ![q] = {r}]
        BY <1>5, <2>1, <3>1 DEF Unlocked
      <4> QED
        BY <1>1, <1>3, <4>1 DEF LocksOwn, HeldTyped
    <3>2. CASE ~ dir[q].lockFile
      BY <1>1, <2>1, <3>2 DEF LocksOwn, HeldTyped
    <3> QED
      BY <3>1, <3>2
  <2> QED
    BY <1>1, <2>2, <2>3, <2>5, <2>6, <2>7 DEF RunsAlone
<1> QED
  BY <1>4, <1>5

(* ... and removes the directory it looked at. *)
LEMMA RemoveFacts ==
    ASSUME Settings, Typed, NEW r \in Run, Remove(r)
    PROVE  /\ RunsAlone(r) /\ LocksOwn(r) /\ flake' = flake /\ dir' \in [Run -> Directory]
           /\ proc[r].at = "removing" /\ proc'[r].at = "prune"
           /\ proc'[r].used = proc[r].used /\ proc'[r].todo \subseteq proc[r].todo
           /\ ~ proc'[r].blind
           /\ \E q \in Oldest(r) :
                 /\ q \in Run /\ dir'[q] = NoDir
                 /\ \A p \in Others(q) : dir'[p] = dir[p] /\ held'[p] = held[p]
<1>1. /\ proc[r] \in Process /\ flake' = flake /\ triage' = triage
      /\ faults' \in 0 .. MaxFaults /\ proc[r].at = "removing" /\ HeldTyped
  BY DEF Remove, Typed, At, HeldTyped
<1>2. PICK q \in Oldest(r) :
        /\ dir' = [dir EXCEPT ![q] = NoDir]
        /\ held' = [held EXCEPT ![q] = held[q] \ {r}]
        /\ proc' = [proc EXCEPT ![r].at = "prune", ![r].todo = proc[r].todo \ {q}, ![r].blind = FALSE]
  <2>1. \A q \in Oldest(r) : q \in Run
    BY OldestFacts
  <2> QED
    BY <2>1 DEF Remove, Typed
<1>3. q \in Run
  BY OldestFacts
<1>4. /\ proc'[r] = [proc[r] EXCEPT !.at = "prune", !.todo = proc[r].todo \ {q}, !.blind = FALSE]
      /\ \A p \in Others(r) : proc'[p] = proc[p]
  BY <1>2 DEF Typed, Others
<1>5. proc'[r] \in Process
  BY <1>1, <1>4 DEF Process
<1>6. proc' \in [Run -> Process]
  BY <1>2, <1>4, <1>5 DEF Typed, Others
<1>7. /\ proc'[r].at = "prune" /\ proc'[r].used = proc[r].used
      /\ proc'[r].todo = proc[r].todo \ {q} /\ ~ proc'[r].blind
  BY <1>1, <1>4 DEF Process
<1>8. NoDir \in Directory
  BY DEF NoDir, Directory, None, Settings
<1>9. /\ dir' \in [Run -> Directory] /\ dir'[q] = NoDir
      /\ \A p \in Others(q) : dir'[p] = dir[p] /\ held'[p] = held[p]
  BY <1>2, <1>3, <1>8 DEF Typed, Others
<1>10. LocksOwn(r)
  <2>1. \A p \in Run : held'[p] = held[p] \/ held'[p] = held[p] \ {r}
    BY <1>1, <1>2, <1>3 DEF HeldTyped
  <2>2. held' \in [Run -> SUBSET (Run \cup {Reader})]
    BY <1>1, <1>2, <1>3 DEF HeldTyped
  <2>3. \A p \in Run : held'[p] = {} \/ \E x \in Run \cup {Reader} : held'[p] = {x}
    BY <1>1, <2>1 DEF HeldTyped
  <2> QED
    BY <2>1, <2>2, <2>3 DEF LocksOwn, HeldTyped, Others
<1> QED
  BY <1>1, <1>3, <1>4, <1>6, <1>7, <1>9, <1>10 DEF RunsAlone

(* A process that ends drops its locks and leaves the record as it is. *)
LEMMA OverFacts ==
    ASSUME Settings, Typed, NEW r \in Run, Release(r) \/ Die(r)
    PROVE  /\ RunsAlone(r) /\ LocksOwn(r) /\ dir' = dir /\ flake' = flake
           /\ proc[r].at \notin {"none", "over", "unrecorded"} /\ proc'[r].at = "over"
           /\ proc'[r].used = proc[r].used /\ proc'[r].todo = {} /\ ~ proc'[r].blind
<1>1. /\ End(r, "over") /\ dir' = dir /\ flake' = flake /\ triage' = triage /\ faults' = faults
      /\ proc[r].at \notin {"none", "over", "unrecorded"}
  BY DEF Release, Die, At, Typed
<1>2. /\ proc' \in [Run -> Process] /\ \A q \in Others(r) : proc'[q] = proc[q]
      /\ proc'[r].at = "over" /\ proc'[r].used = proc[r].used /\ proc'[r].todo = {} /\ ~ proc'[r].blind
  BY <1>1, EndFacts
<1>3. /\ \A q \in Run : held'[q] = held[q] \/ held'[q] = held[q] \ {r}
      /\ held' \in [Run -> SUBSET (Run \cup {Reader})]
  BY DEF Release, Die, Typed
<1>4. \A q \in Run : held'[q] = {} \/ \E x \in Run \cup {Reader} : held'[q] = {x}
  BY <1>3 DEF Typed
<1>5. LocksOwn(r)
  BY <1>3, <1>4 DEF Others, LocksOwn, HeldTyped
<1> QED
  BY <1>1, <1>2, <1>5 DEF RunsAlone, Typed

-----------------------------------------------------------------------------
(* What each step of triage does *)

TriageTyped ==
    triage \in [at : {"idle", "selected", "testing", "tested", "read", "based", "compared"},
                run : Run, base : Run \cup {0}, old : 0 .. MaxLock]

\* A step of triage leaves the runs and their records alone, and the locks
\* that the runs hold.
ReadsOnly ==
    /\ flake' = flake /\ proc' = proc /\ dir' = dir /\ faults' = faults
    /\ TriageTyped' /\ HeldTyped'
    /\ \A q, x \in Run : x \in held[q] => x \in held'[q]

TriageStep == \/ Select \/ TestHeld \/ EndTest \/ ReadFinished \/ FindBaseline \/ ReadBaseline
              \/ WriteContext

(* Triage may be between runs at any time. *)
LEMMA IdleTyped ==
    ASSUME Settings
    PROVE  Idle \in [at : {"idle", "selected", "testing", "tested", "read", "based", "compared"},
                     run : Run, base : Run \cup {0}, old : 0 .. MaxLock]
BY DEF Settings, Idle, Run, None

(* The steps of triage only read, and take a lock that nobody holds. *)
LEMMA TriageFacts ==
    ASSUME Settings, Typed, TriageStep
    PROVE  ReadsOnly
<1> USE DEF ReadsOnly, TriageTyped
<1>1. /\ triage \in [at : {"idle", "selected", "testing", "tested", "read", "based", "compared"},
                      run : Run, base : Run \cup {0}, old : 0 .. MaxLock]
      /\ HeldTyped
  BY DEF Typed, HeldTyped
<1>2. flake' = flake /\ proc' = proc /\ dir' = dir /\ faults' = faults
  BY DEF TriageStep, Select, TestHeld, EndTest, ReadFinished, FindBaseline, ReadBaseline, WriteContext
<1>3. CASE Select
  <2>1. held' = held /\ \E r \in Run : triage' = [at |-> "selected", run |-> r, base |-> 0, old |-> None]
    BY <1>3 DEF Select, There
  <2>2. TriageTyped'
    BY <2>1 DEF None, Settings
  <2> QED
    BY <1>1, <1>2, <2>1, <2>2 DEF HeldTyped
<1>4. CASE TestHeld
  <2> DEFINE r == triage.run
  <2>1. r \in Run
    BY <1>1
  <2>2. CASE triage' = Idle /\ held' = held
    BY <1>1, <1>2, <2>2, IdleTyped DEF HeldTyped
  <2>3. CASE /\ ~ (dir[r].lockFile /\ ~ Unlocked(r))
             /\ held' = IF dir[r].lockFile THEN [held EXCEPT ![r] = {Reader}] ELSE held
             /\ triage' = [triage EXCEPT !.at = "testing"]
    <3>1. TriageTyped'
      BY <1>1, <2>3
    <3>2. held' = held \/ (held[r] = {} /\ held' = [held EXCEPT ![r] = {Reader}])
      BY <2>3 DEF Unlocked
    <3>3. held' \in [Run -> SUBSET (Run \cup {Reader})]
      BY <1>1, <2>1, <3>2 DEF HeldTyped
    <3>4. \A q \in Run : held'[q] = {} \/ \E x \in Run \cup {Reader} : held'[q] = {x}
      BY <1>1, <2>1, <3>2 DEF HeldTyped
    <3>5. \A q, x \in Run : x \in held[q] => x \in held'[q]
      BY <1>1, <2>1, <3>2 DEF HeldTyped
    <3> QED
      BY <1>2, <3>1, <3>3, <3>4, <3>5 DEF HeldTyped
  <2> QED
    BY <1>4, <2>2, <2>3 DEF TestHeld
<1>5. CASE EndTest
  <2>1. /\ held' = [held EXCEPT ![triage.run] = held[triage.run] \ {Reader}]
        /\ triage' = [triage EXCEPT !.at = "tested"] /\ triage.run \in Run
    BY <1>1, <1>5 DEF EndTest, HeldTyped
  <2>2. TriageTyped'
    BY <1>1, <2>1
  <2>3. \A q \in Run : held'[q] = held[q] \/ held'[q] = held[q] \ {Reader}
    BY <1>1, <2>1 DEF HeldTyped
  <2>4. held' \in [Run -> SUBSET (Run \cup {Reader})]
    BY <1>1, <2>1, <2>3 DEF HeldTyped
  <2>5. \A q \in Run : held'[q] = {} \/ \E x \in Run \cup {Reader} : held'[q] = {x}
    BY <1>1, <2>3 DEF HeldTyped
  <2>6. \A q \in Run : q # Reader
    BY DEF Run, Reader, Settings
  <2>7. \A q, x \in Run : x \in held[q] => x \in held'[q]
    BY <2>3, <2>6
  <2> QED
    BY <1>2, <2>2, <2>4, <2>5, <2>7 DEF HeldTyped
<1>6. CASE ReadFinished
  <2>1. held' = held /\ (triage' = Idle \/ triage' = [triage EXCEPT !.at = "read"])
    BY <1>6 DEF ReadFinished
  <2>2. TriageTyped'
    BY <1>1, <2>1, IdleTyped
  <2> QED
    BY <1>1, <1>2, <2>1, <2>2 DEF HeldTyped
<1>7. CASE FindBaseline
  <2> DEFINE good == GoodRun(triage.run)
  <2> DEFINE base == IF good = {} THEN 0 ELSE CHOOSE q \in good : TRUE
  <2>1. held' = held /\ triage' = [triage EXCEPT !.at = "based", !.base = base]
    BY <1>7 DEF FindBaseline
  <2>2. good \subseteq Run
    BY DEF GoodRun, KeptRuns, Newest, There
  <2>3. base \in Run \cup {0}
    BY <2>2
  <2> HIDE DEF base
  <2>4. TriageTyped'
    BY <1>1, <2>1, <2>3
  <2> QED
    BY <1>1, <1>2, <2>1, <2>4 DEF HeldTyped
<1>8. CASE ReadBaseline
  <2> DEFINE b == triage.base
             old == IF b \in There /\ dir[b].lock # Torn THEN dir[b].lock ELSE None
  <2>1. held' = held /\ triage' = [triage EXCEPT !.at = "compared", !.old = old]
    BY <1>8 DEF ReadBaseline
  <2>2. old \in 0 .. MaxLock
    <3>1. b \in There => dir[b].lock \in -1 .. MaxLock
      BY DEF Typed, There, Directory
    <3> QED
      BY <3>1 DEF None, Torn, Settings
  <2> HIDE DEF old
  <2>3. TriageTyped'
    BY <1>1, <2>1, <2>2
  <2> QED
    BY <1>1, <1>2, <2>1, <2>3 DEF HeldTyped
<1>9. CASE WriteContext
  BY <1>1, <1>2, <1>9, IdleTyped DEF WriteContext, HeldTyped
<1> QED
  BY <1>3, <1>4, <1>5, <1>6, <1>7, <1>8, <1>9 DEF TriageStep

-----------------------------------------------------------------------------
(* The type invariant *)

(* The type invariant is inductive. *)
LEMMA TypedNext ==
    ASSUME Settings, Typed, Lives, [Next]_vars
    PROVE  Typed'
<1> SUFFICES /\ flake' \in [lock : 1 .. MaxLock, behind : BOOLEAN]
             /\ flake'.behind => flake'.lock < MaxLock
             /\ proc' \in [Run -> Process] /\ dir' \in [Run -> Directory]
             /\ HeldTyped' /\ TriageTyped' /\ faults' \in 0 .. MaxFaults
  BY DEF Typed, HeldTyped, TriageTyped
<1>1. /\ flake \in [lock : 1 .. MaxLock, behind : BOOLEAN]
      /\ flake.behind => flake.lock < MaxLock
      /\ proc \in [Run -> Process] /\ dir \in [Run -> Directory]
      /\ HeldTyped /\ TriageTyped /\ faults \in 0 .. MaxFaults
  BY DEF Typed, HeldTyped, TriageTyped
<1>2. CASE UNCHANGED vars
  BY <1>1, <1>2 DEF vars, HeldTyped, TriageTyped
<1>3. CASE EditFlake
  <2>1. flake.lock \in 1 .. MaxLock /\ flake.lock < MaxLock
    BY <1>1, <1>3 DEF EditFlake
  <2>2. \/ flake' = [lock |-> flake.lock + 1, behind |-> FALSE]
        \/ flake' = [flake EXCEPT !.behind = TRUE]
    BY <1>3 DEF EditFlake
  <2>3. flake' \in [lock : 1 .. MaxLock, behind : BOOLEAN] /\ (flake'.behind => flake'.lock < MaxLock)
    <3>1. CASE flake' = [lock |-> flake.lock + 1, behind |-> FALSE]
      <4>1. PICK lock \in 1 .. MaxLock : lock = flake.lock + 1
        BY <2>1 DEF Settings
      <4>2. flake' = [lock |-> lock, behind |-> FALSE]
        BY <3>1, <4>1
      <4> QED
        BY <4>2
    <3>2. CASE flake' = [flake EXCEPT !.behind = TRUE]
      <4>1. flake'.lock = flake.lock
        BY <1>1, <3>2
      <4> QED
        BY <1>1, <2>1, <3>2, <4>1
    <3> QED
      BY <2>2, <3>1, <3>2
  <2> QED
    BY <1>1, <1>3, <2>3 DEF EditFlake, HeldTyped, TriageTyped
<1>4. ASSUME NEW r \in Run, Start(r) PROVE Typed'
  <2>1. RunsAlone(r) /\ WritesOwn(r) /\ held' = held /\ flake' = flake
    BY <1>1, <1>4, StartFacts
  <2> QED
    BY <1>1, <2>1 DEF RunsAlone, WritesOwn, Typed
<1>5. ASSUME NEW r \in Run, OpenLock(r) PROVE Typed'
  <2>1. RunsAlone(r) /\ WritesOwn(r) /\ held' = held /\ flake' = flake
    BY <1>1, <1>5, OpenLockFacts
  <2> QED
    BY <1>1, <2>1 DEF RunsAlone, WritesOwn, Typed
<1>6. ASSUME NEW r \in Run, TakeLock(r) PROVE Typed'
  BY <1>1, <1>6, TakeLockFacts DEF RunsAlone, WritesOwn, LocksOwn, HeldTyped, Typed
<1>7. ASSUME NEW r \in Run, Evaluate(r) PROVE Typed'
  <2>1. /\ RunsAlone(r) /\ dir' = dir /\ held' = held
        /\ flake' \in [lock : 1 .. MaxLock, behind : BOOLEAN] /\ ~ flake'.behind
    BY <1>7, EvaluateFacts
  <2> QED
    BY <1>1, <2>1 DEF RunsAlone, Typed
<1>8. ASSUME NEW r \in Run, NoteEvaluatedLock(r) PROVE Typed'
  BY <1>1, <1>8, NoteFacts DEF RunsAlone, WritesOwn, Typed
<1>9. ASSUME NEW r \in Run, WriteEvaluatedLock(r) PROVE Typed'
  BY <1>1, <1>9, WriteLockFacts DEF RunsAlone, WritesOwn, Typed
<1>10. ASSUME NEW r \in Run, Report(r) PROVE Typed'
  BY <1>1, <1>10, ReportFacts DEF RunsAlone, WritesOwn, Typed
<1>11. ASSUME NEW r \in Run, Interrupted(r) PROVE Typed'
  BY <1>1, <1>11, InterruptedFacts DEF RunsAlone, WritesOwn, LocksOwn, HeldTyped, Typed
<1>12. ASSUME NEW r \in Run, Finish(r) PROVE Typed'
  BY <1>1, <1>12, FinishFacts DEF RunsAlone, WritesOwn, Typed
<1>13. ASSUME NEW r \in Run, Prune(r) PROVE Typed'
  BY <1>1, <1>13, PruneFacts DEF RunsAlone, LocksOwn, HeldTyped, Typed
<1>14. ASSUME NEW r \in Run, Remove(r) PROVE Typed'
  <2>1. RunsAlone(r) /\ LocksOwn(r) /\ flake' = flake /\ dir' \in [Run -> Directory]
    BY <1>14, RemoveFacts
  <2> QED
    BY <1>1, <2>1 DEF RunsAlone, LocksOwn, HeldTyped, Typed
<1>15. ASSUME NEW r \in Run, Release(r) \/ Die(r) PROVE Typed'
  BY <1>1, <1>15, OverFacts DEF RunsAlone, LocksOwn, HeldTyped, Typed
<1>16. CASE TriageStep
  BY <1>1, <1>16, TriageFacts DEF ReadsOnly
<1> QED
  BY <1>2, <1>3, <1>4, <1>6, <1>7, <1>8, <1>9, <1>10, <1>11, <1>12, <1>13, <1>15, <1>16,
     <1>5, <1>14
     DEF Next, TriageStep, Typed, HeldTyped, TriageTyped

-----------------------------------------------------------------------------
(* The processes and their locks *)

\* The other directories stay as they are, or are removed.
Removes(r) == \A q \in Others(r) : dir'[q] = dir[q] \/ dir'[q] = NoDir

(* A step of one run, which keeps its own locks in order, drops none of the *)
(* others' and creates none of their directories.                           *)
LEMMA LivesRun ==
    ASSUME Settings, Typed, Lives, NEW r \in Run, RunsAlone(r), LocksOwn(r), Removes(r), LivesOf(r)'
    PROVE  Lives'
<1> SUFFICES ASSUME NEW p \in Others(r)
             PROVE  LivesOf(p)'
  BY DEF Lives, Others
<1>1. proc'[p] = proc[p] /\ LivesOf(p) /\ p \in Run
  BY DEF RunsAlone, Lives, Others
<1>2. Recorded(p)' = Recorded(p) /\ Oldest(p)' = Oldest(p)
  BY <1>1 DEF Recorded, Oldest
<1>3. \A q \in Run : p \in held[q] => p \in held'[q]
  BY DEF LocksOwn
<1>4. p \notin proc'[p].todo /\ (Recorded(p)' => p \in held'[p])
  BY <1>1, <1>2, <1>3 DEF LivesOf
<1>5. (Recorded(p)' \/ At(p, "opened")') /\ dir'[p].there => dir'[p].lockFile
  <2>1. dir'[p] = dir[p] \/ ~ dir'[p].there
    BY DEF Removes, NoDir
  <2> QED
    BY <1>1, <1>2, <2>1 DEF LivesOf, At
<1>6. At(p, "removing")' /\ ~ proc'[p].blind => \A q \in Oldest(p)' : p \in held'[q]
  <2>1. \A q \in Oldest(p) : q \in Run
    BY <1>1, OldestFacts
  <2> QED
    BY <1>1, <1>2, <1>3, <2>1 DEF LivesOf, At
<1> QED
  BY <1>4, <1>5, <1>6 DEF LivesOf

(* A run goes on with its record, its directory and its lock as they were. *)
LEMMA LivesGoesOn ==
    ASSUME Settings, Typed, Lives, NEW r \in Run, RunsAlone(r), held' = held, Recorded(r),
           proc'[r].at \in {"started", "evaluated", "renamed", "noted", "reported", "prune"},
           r \notin proc'[r].todo, dir' = dir \/ (WritesOwn(r) /\ Same(r))
    PROVE  Lives'
<1>1. LocksOwn(r)
  BY DEF Typed, LocksOwn, HeldTyped
<1>2. Removes(r)
  BY DEF Removes, WritesOwn
<1>3. LivesOf(r)'
  BY DEF Lives, LivesOf, Recorded, At, Same
<1> QED
  BY <1>1, <1>2, <1>3, LivesRun

(* A run without its record holds no lock that counts. *)
LEMMA LivesOutside ==
    ASSUME Settings, Typed, Lives, NEW r \in Run, RunsAlone(r), LocksOwn(r), Removes(r),
           proc'[r].at \in {"made", "over", "unrecorded"}, proc'[r].todo \subseteq proc[r].todo
    PROVE  Lives'
<1>1. LivesOf(r)'
  BY DEF Lives, LivesOf, Recorded, At
<1> QED
  BY <1>1, LivesRun

(* A run holds its lock from the first entry of its record to its end. *)
LEMMA LivesNext ==
    ASSUME Settings, Inv, [Next]_vars
    PROVE  Lives'
<1>0. Typed /\ Lives
  BY DEF Inv
<1>1. CASE UNCHANGED <<proc, dir, held>>
  BY <1>0, <1>1 DEF Lives, LivesOf, Recorded, At, Oldest
<1>2. ASSUME NEW r \in Run, Start(r) PROVE Lives'
  <2>1. /\ RunsAlone(r) /\ WritesOwn(r) /\ held' = held
        /\ proc'[r].at \in {"made", "unrecorded"} /\ proc'[r].todo \subseteq proc[r].todo
    BY <1>0, <1>2, StartFacts
  <2>2. LocksOwn(r) /\ Removes(r)
    BY <1>0, <2>1 DEF Typed, LocksOwn, HeldTyped, WritesOwn, Removes
  <2> QED
    BY <1>0, <2>1, <2>2, LivesOutside
<1>3. ASSUME NEW r \in Run, OpenLock(r) PROVE Lives'
  <2>1. /\ RunsAlone(r) /\ WritesOwn(r) /\ held' = held
        /\ proc'[r].at \in {"opened", "unrecorded"} /\ proc'[r].todo \subseteq proc[r].todo
        /\ dir'[r].there = dir[r].there /\ (dir[r].there => dir'[r].lockFile)
    BY <1>0, <1>3, OpenLockFacts
  <2>2. LocksOwn(r) /\ Removes(r)
    BY <1>0, <2>1 DEF Typed, LocksOwn, HeldTyped, WritesOwn, Removes
  <2>3. LivesOf(r)'
    BY <1>0, <2>1 DEF Lives, LivesOf, Recorded, At
  <2> QED
    BY <1>0, <2>1, <2>2, <2>3, LivesRun
<1>4. ASSUME NEW r \in Run, TakeLock(r) PROVE Lives'
  <2>1. /\ RunsAlone(r) /\ WritesOwn(r) /\ LocksOwn(r) /\ Same(r) /\ proc[r].at = "opened"
        /\ proc'[r].todo \subseteq proc[r].todo
        /\ \/ held'[r] = {r} /\ proc'[r].at = "started"
           \/ proc'[r].at = "unrecorded"
    BY <1>0, <1>4, TakeLockFacts
  <2>2. Removes(r)
    BY <2>1 DEF WritesOwn, Removes
  <2>3. LivesOf(r)'
    BY <1>0, <2>1 DEF Lives, LivesOf, Recorded, At, Same
  <2> QED
    BY <1>0, <2>1, <2>2, <2>3, LivesRun
<1>5. ASSUME NEW r \in Run, Evaluate(r) PROVE Lives'
  <2>1. /\ RunsAlone(r) /\ held' = held /\ dir' = dir /\ proc'[r].todo = proc[r].todo
        /\ proc[r].at = "started" /\ proc'[r].at = "evaluated"
    BY <1>0, <1>5, EvaluateFacts
  <2>2. Recorded(r) /\ r \notin proc'[r].todo
    BY <1>0, <2>1 DEF Recorded, Lives, LivesOf
  <2> QED
    BY <1>0, <2>1, <2>2, LivesGoesOn
<1>6. ASSUME NEW r \in Run, NoteEvaluatedLock(r) \/ WriteEvaluatedLock(r) \/ Report(r) PROVE Lives'
  <2>1. /\ RunsAlone(r) /\ held' = held /\ WritesOwn(r) /\ Same(r) /\ proc'[r].todo = proc[r].todo
        /\ proc[r].at \in {"evaluated", "renamed", "noted"}
        /\ proc'[r].at \in {"noted", "renamed", "reported"}
    BY <1>0, <1>6, NoteFacts, WriteLockFacts, ReportFacts
  <2>2. Recorded(r) /\ r \notin proc'[r].todo
    BY <1>0, <2>1 DEF Recorded, Lives, LivesOf
  <2> QED
    BY <1>0, <2>1, <2>2, LivesGoesOn
<1>7. ASSUME NEW r \in Run, Finish(r) PROVE Lives'
  <2>1. /\ RunsAlone(r) /\ held' = held /\ WritesOwn(r) /\ Same(r) /\ proc'[r].todo = ToPrune(r)
        /\ proc[r].at = "reported" /\ proc'[r].at = "prune"
    BY <1>0, <1>7, FinishFacts
  <2>2. Recorded(r) /\ r \notin proc'[r].todo
    BY <2>1 DEF Recorded, ToPrune
  <2> QED
    BY <1>0, <2>1, <2>2, LivesGoesOn
<1>8. ASSUME NEW r \in Run, Interrupted(r) \/ Release(r) \/ Die(r) PROVE Lives'
  <2>1. /\ RunsAlone(r) /\ (dir' = dir \/ WritesOwn(r)) /\ LocksOwn(r)
        /\ proc'[r].at = "over" /\ proc'[r].todo = {}
    BY <1>0, <1>8, InterruptedFacts, OverFacts
  <2>2. Removes(r)
    BY <2>1 DEF WritesOwn, Removes
  <2> QED
    BY <1>0, <2>1, <2>2, LivesOutside
<1>9. ASSUME NEW r \in Run, Prune(r) PROVE Lives'
  <2>1. /\ RunsAlone(r) /\ LocksOwn(r) /\ dir' = dir /\ proc[r].at = "prune"
        /\ proc'[r].at \in {"prune", "removing"} /\ proc'[r].todo \subseteq proc[r].todo
    BY <1>0, <1>9, PruneFacts
  <2>2. Removes(r)
    BY <2>1 DEF Removes
  <2>3. /\ r \notin proc'[r].todo
        /\ Recorded(r)' => r \in held'[r]
        /\ (Recorded(r)' \/ At(r, "opened")') /\ dir'[r].there => dir'[r].lockFile
    <3>1. r \in held[r] /\ (dir[r].there => dir[r].lockFile) /\ r \notin proc[r].todo
      BY <1>0, <2>1 DEF Lives, LivesOf, Recorded
    <3>2. r \in held'[r]
      BY <1>0, <1>9, <3>1, PruneFacts
    <3> QED
      BY <2>1, <3>1, <3>2 DEF Recorded, At
  <2>4. At(r, "removing")' /\ ~ proc'[r].blind => \A q \in Oldest(r)' : r \in held'[q]
    <3> SUFFICES ASSUME proc'[r].at = "removing", ~ proc'[r].blind, NEW q \in Oldest(r)'
                 PROVE  r \in held'[q]
      BY DEF At
    <3>1. PICK p \in Oldest(r) : /\ proc'[r].blind = ~ dir[p].lockFile
                                 /\ dir[p].lockFile => held'[p] = {r}
      BY <1>0, <1>9, PruneFacts
    <3>2. proc'[r].todo = proc[r].todo
      BY <1>0, <1>9, PruneFacts
    <3>3. q \in Oldest(r)
      BY <3>2 DEF Oldest
    <3>4. q = p
      BY <1>0, <3>3, OldestFacts
    <3>5. p \in Run
      BY <1>0, OldestFacts
    <3> QED
      BY <1>0, <3>1, <3>4, <3>5 DEF Typed, Directory
  <2> QED
    BY <1>0, <2>1, <2>2, <2>3, <2>4, LivesRun DEF LivesOf
<1>10. ASSUME NEW r \in Run, Remove(r) PROVE Lives'
  <2>1. /\ RunsAlone(r) /\ LocksOwn(r) /\ proc[r].at = "removing" /\ proc'[r].at = "prune"
        /\ proc'[r].todo \subseteq proc[r].todo
    BY <1>0, <1>10, RemoveFacts
  <2>2. PICK q \in Oldest(r) : /\ q \in Run /\ dir'[q] = NoDir
                               /\ \A p \in Others(q) : dir'[p] = dir[p] /\ held'[p] = held[p]
    BY <1>0, <1>10, RemoveFacts
  <2>3. r # q /\ r \in held[r] /\ (dir[r].there => dir[r].lockFile) /\ r \notin proc[r].todo
    BY <1>0, <2>1, OldestFacts DEF Lives, LivesOf, Recorded
  <2>4. Removes(r) /\ dir'[r] = dir[r]
    BY <2>2, <2>3 DEF Removes, Others
  <2>5. r \in held'[r]
    BY <2>2, <2>3 DEF Others
  <2>6. LivesOf(r)'
    BY <2>1, <2>3, <2>4, <2>5 DEF LivesOf, Recorded, At
  <2> QED
    BY <1>0, <2>1, <2>4, <2>6, LivesRun
<1>11. CASE TriageStep
  <2>1. proc' = proc /\ dir' = dir /\ \A q, x \in Run : x \in held[q] => x \in held'[q]
    BY <1>0, <1>11, TriageFacts DEF ReadsOnly
  <2> SUFFICES ASSUME NEW p \in Run PROVE LivesOf(p)'
    BY DEF Lives
  <2>2. LivesOf(p) /\ Recorded(p)' = Recorded(p) /\ Oldest(p)' = Oldest(p)
    BY <1>0, <2>1 DEF Lives, Recorded, Oldest
  <2>3. \A q \in Oldest(p) : q \in Run
    BY <1>0, OldestFacts
  <2> QED
    BY <2>1, <2>2, <2>3 DEF LivesOf, At
<1> QED
  BY <1>1, <1>2, <1>3, <1>4, <1>5, <1>6, <1>7, <1>8, <1>9, <1>10, <1>11
     DEF Next, TriageStep, EditFlake, vars

-----------------------------------------------------------------------------
(* What a prune has listed *)

(* While no directory goes away, what was listed keeps enough newer ones. *)
LEMMA KeptStays ==
    ASSUME Settings, Typed, Kept, There \subseteq There',
           \A r \in Run : proc'[r].todo \subseteq proc[r].todo
    PROVE  Kept'
<1> SUFFICES ASSUME NEW r \in Run, NEW q \in proc'[r].todo
             PROVE  Cardinality(Newer(q)') >= Keep
  BY DEF Kept
<1>1. Cardinality(Newer(q)) >= Keep
  BY DEF Kept
<1>2. Newer(q) \subseteq Newer(q)' /\ Newer(q)' \subseteq Run
  BY DEF Newer, There
<1>3. /\ Cardinality(Newer(q)) \in Nat /\ Cardinality(Newer(q)') \in Nat
      /\ Cardinality(Newer(q)) <= Cardinality(Newer(q)')
  BY <1>2, NewerFacts
<1> QED
  BY <1>1, <1>3 DEF Settings

(* A removal leaves what is on a list enough newer directories: those newer *)
(* than the removed one are still there, and it was itself on a list.       *)
LEMMA KeptRemoval ==
    ASSUME Settings, Typed, Kept, NEW r \in Run, NEW q \in proc[r].todo, q \in Run,
           dir'[q] = NoDir, \A p \in Others(q) : dir'[p] = dir[p],
           NEW x \in Run, NEW s \in Run, x \in proc[s].todo
    PROVE  Cardinality(Newer(x)') >= Keep
<1>1. Cardinality(Newer(x)) >= Keep /\ Cardinality(Newer(q)) >= Keep
  BY DEF Kept
<1>2. There' = There \ {q}
  BY DEF There, Others, NoDir
<1>3. CASE q <= x
  <2>1. Newer(x)' = Newer(x)
    BY <1>2, <1>3 DEF Newer, Run
  <2> QED
    BY <1>1, <2>1
<1>4. CASE x < q
  <2>1. Newer(q) \subseteq Newer(x)' /\ Newer(x)' \subseteq Run
    BY <1>2, <1>4 DEF Newer, There, Run
  <2>2. /\ Cardinality(Newer(q)) \in Nat /\ Cardinality(Newer(x)') \in Nat
        /\ Cardinality(Newer(q)) <= Cardinality(Newer(x)')
    BY <2>1, NewerFacts
  <2> QED
    BY <1>1, <2>2 DEF Settings
<1> QED
  BY <1>3, <1>4 DEF Run

(* A step of one run that removes nothing and lists nothing. *)
LEMMA KeptRun ==
    ASSUME Settings, Typed, Kept, NEW r \in Run, RunsAlone(r),
           dir' = dir \/ WritesOwn(r), dir[r].there => dir'[r].there,
           proc'[r].todo \subseteq proc[r].todo
    PROVE  Kept'
<1>1. There \subseteq There'
  BY DEF There, WritesOwn, Others
<1>2. \A s \in Run : proc'[s].todo \subseteq proc[s].todo
  BY DEF RunsAlone, Others
<1> QED
  BY <1>1, <1>2, KeptStays

(* Listed directories keep Keep newer ones. *)
LEMMA KeptNext ==
    ASSUME Settings, Inv, [Next]_vars
    PROVE  Kept'
<1> USE DEF Inv
<1>1. CASE UNCHANGED <<proc, dir>>
  BY <1>1 DEF Kept, Newer, There
<1>2. ASSUME NEW r \in Run, Start(r) PROVE Kept'
  BY <1>2, StartFacts, KeptRun
<1>3. ASSUME NEW r \in Run, OpenLock(r) \/ TakeLock(r) PROVE Kept'
  BY <1>3, OpenLockFacts, TakeLockFacts, KeptRun DEF Same
<1>4. ASSUME NEW r \in Run, Evaluate(r) PROVE Kept'
  BY <1>4, EvaluateFacts, KeptRun
<1>5. ASSUME NEW r \in Run, NoteEvaluatedLock(r) PROVE Kept'
  BY <1>5, NoteFacts, KeptRun DEF Same
<1>6. ASSUME NEW r \in Run, WriteEvaluatedLock(r) PROVE Kept'
  BY <1>6, WriteLockFacts, KeptRun DEF Same
<1>7. ASSUME NEW r \in Run, Report(r) PROVE Kept'
  BY <1>7, ReportFacts, KeptRun DEF Same
<1>8. ASSUME NEW r \in Run, Interrupted(r) PROVE Kept'
  BY <1>8, InterruptedFacts, KeptRun DEF Same
<1>9. ASSUME NEW r \in Run, Release(r) \/ Die(r) PROVE Kept'
  BY <1>9, OverFacts, KeptRun
<1>10. ASSUME NEW r \in Run, Finish(r) PROVE Kept'
  <2>1. RunsAlone(r) /\ WritesOwn(r) /\ Same(r) /\ proc'[r].todo = ToPrune(r)
    BY <1>10, FinishFacts
  <2>2. There' = There
    BY <2>1 DEF There, WritesOwn, Others, Same
  <2>3. \A q : Newer(q)' = Newer(q)
    BY <2>2 DEF Newer
  <2>4. ASSUME NEW q \in proc'[r].todo PROVE Cardinality(Newer(q)) >= Keep
    BY <2>1, <2>4 DEF ToPrune, Newer
  <2>5. ASSUME NEW s \in Others(r), NEW q \in proc'[s].todo PROVE Cardinality(Newer(q)) >= Keep
    BY <2>1, <2>5 DEF RunsAlone, Others, Kept
  <2> QED
    BY <2>3, <2>4, <2>5 DEF Kept, Others
<1>11. ASSUME NEW r \in Run, Prune(r) PROVE Kept'
  BY <1>11, PruneFacts, KeptRun
<1>12. ASSUME NEW r \in Run, Remove(r) PROVE Kept'
  <2>1. RunsAlone(r) /\ proc'[r].todo \subseteq proc[r].todo
    BY <1>12, RemoveFacts
  <2>2. PICK q \in Oldest(r) :
          q \in Run /\ dir'[q] = NoDir /\ \A p \in Others(q) : dir'[p] = dir[p]
    BY <1>12, RemoveFacts
  <2>3. q \in proc[r].todo
    BY OldestFacts
  <2>4. ASSUME NEW x \in Run, NEW y \in proc'[x].todo PROVE Cardinality(Newer(y)') >= Keep
    <3>1. y \in proc[x].todo
      BY <2>1, <2>4 DEF RunsAlone, Others
    <3>2. y \in Run
      BY <3>1 DEF Typed, Process
    <3> QED
      BY <2>2, <2>3, <3>1, <3>2, KeptRemoval
  <2> QED
    BY <2>4 DEF Kept
<1>13. CASE TriageStep
  BY <1>1, <1>13, TriageFacts DEF ReadsOnly
<1> QED
  BY <1>1, <1>2, <1>3, <1>4, <1>5, <1>6, <1>7, <1>8, <1>9, <1>10, <1>11, <1>12,
     <1>13
     DEF Next, TriageStep, EditFlake, vars

-----------------------------------------------------------------------------
(* The locks of the records *)

\* The lock of the flake stays as it is, unless its flake.nix asks for another.
Follows == ~ flake.behind => ~ flake'.behind /\ flake'.lock = flake.lock

(* A step of one run, which notes its own lock as it should. *)
LEMMA LocksRun ==
    ASSUME Settings, Typed, Locks, NEW r \in Run, RunsAlone(r), Removes(r), Follows, LocksOf(r)'
    PROVE  Locks'
<1> SUFFICES ASSUME NEW q \in Others(r)
             PROVE  LocksOf(q)'
  BY DEF Locks, Others
<1>1. LocksOf(q) /\ proc'[q] = proc[q]
  BY DEF Locks, Others, RunsAlone
<1>2. CASE dir'[q] = dir[q]
  BY <1>1, <1>2 DEF LocksOf, Follows
<1>3. CASE dir'[q] = NoDir
  <2>1. dir'[q].report # "deployed" /\ ~ dir'[q].there
    BY <1>3 DEF NoDir
  <2> QED
    BY <1>1, <2>1 DEF LocksOf, Follows
<1> QED
  BY <1>2, <1>3 DEF Removes

(* A run that writes no directory but its own, and not the flake's lock. *)
LEMMA LocksOwnRun ==
    ASSUME Settings, Typed, Locks, NEW r \in Run, RunsAlone(r), dir' = dir \/ WritesOwn(r),
           flake' = flake, LocksOf(r)'
    PROVE  Locks'
<1>1. Removes(r) /\ Follows
  BY DEF Removes, WritesOwn, Others, Follows
<1> QED
  BY <1>1, LocksRun

(* A record's lock is the one the run started with, then the evaluated one. *)
LEMMA LocksNext ==
    ASSUME Settings, Inv, [Next]_vars
    PROVE  Locks'
<1> USE DEF Inv
<1>1. CASE UNCHANGED <<flake, proc, dir>>
  BY <1>1 DEF Locks, LocksOf, Reported
<1>2. CASE EditFlake
  <2>1. proc' = proc /\ dir' = dir /\ \A r \in Run : proc[r].at # "evaluated"
    BY <1>2 DEF EditFlake, At
  <2> QED
    BY <2>1 DEF Locks, LocksOf, Reported
<1>3. ASSUME NEW r \in Run, Start(r) PROVE Locks'
  <2>1. /\ RunsAlone(r) /\ WritesOwn(r) /\ flake' = flake /\ proc[r].at = "none"
        /\ proc'[r].at \in {"made", "unrecorded"} /\ dir'[r].report = dir[r].report
    BY <1>3, StartFacts
  <2>2. dir[r].report # "deployed"
    BY <2>1 DEF Locks, LocksOf, Reported
  <2>3. LocksOf(r)'
    BY <2>1, <2>2 DEF LocksOf, Reported, Same
  <2> QED
    BY <2>1, <2>3, LocksOwnRun
<1>4. ASSUME NEW r \in Run, OpenLock(r) PROVE Locks'
  <2>1. /\ RunsAlone(r) /\ WritesOwn(r) /\ flake' = flake /\ proc[r].at = "made"
        /\ proc'[r].at \in {"opened", "unrecorded"} /\ dir'[r].report = dir[r].report
    BY <1>4, OpenLockFacts
  <2>2. dir[r].report # "deployed"
    BY <2>1 DEF Locks, LocksOf, Reported
  <2>3. LocksOf(r)'
    BY <2>1, <2>2 DEF LocksOf, Reported, Same
  <2> QED
    BY <2>1, <2>3, LocksOwnRun
<1>5. ASSUME NEW r \in Run, TakeLock(r) PROVE Locks'
  <2>1. /\ RunsAlone(r) /\ WritesOwn(r) /\ flake' = flake /\ proc[r].at = "opened"
        /\ dir'[r].report = dir[r].report
        /\ \/ proc'[r].at = "started" /\ dir'[r].lock \in {proc'[r].lock, Torn}
           \/ proc'[r].at = "unrecorded"
    BY <1>5, TakeLockFacts
  <2>2. dir[r].report # "deployed"
    BY <2>1 DEF Locks, LocksOf, Reported
  <2>3. LocksOf(r)'
    BY <2>1, <2>2 DEF LocksOf, Reported, Same
  <2> QED
    BY <2>1, <2>3, LocksOwnRun
<1>6. ASSUME NEW r \in Run, Evaluate(r) PROVE Locks'
  <2>1. /\ RunsAlone(r) /\ dir' = dir /\ ~ flake'.behind /\ Follows
        /\ proc[r].at = "started" /\ proc'[r].at = "evaluated"
        /\ proc'[r].lock = proc[r].lock /\ proc'[r].used = flake'.lock
    BY <1>6, EvaluateFacts DEF Follows
  <2>2. (dir[r].there => dir[r].lock \in {proc[r].lock, Torn}) /\ dir[r].report # "deployed"
    BY <2>1 DEF Locks, LocksOf, Reported
  <2>3. LocksOf(r)'
    BY <2>1, <2>2 DEF LocksOf, Reported, Same
  <2>4. Removes(r)
    BY <2>1 DEF Removes
  <2> QED
    BY <2>1, <2>3, <2>4, LocksRun
<1>7. ASSUME NEW r \in Run, NoteEvaluatedLock(r) PROVE Locks'
  <2>1. /\ RunsAlone(r) /\ WritesOwn(r) /\ Same(r) /\ flake' = flake /\ proc[r].at = "evaluated"
        /\ proc'[r].used = proc[r].used /\ dir'[r].report = dir[r].report
        /\ \/ /\ proc'[r].at = "noted" /\ flake.lock = proc[r].lock
              /\ dir'[r].lock = dir[r].lock
           \/ proc'[r].at = "renamed" /\ proc'[r].lock = flake.lock
    BY <1>7, NoteFacts
  <2>2. /\ dir[r].there => dir[r].lock \in {proc[r].lock, Torn}
        /\ dir[r].report # "deployed"
        /\ flake.lock = proc[r].used
    BY <2>1 DEF Locks, LocksOf, Reported
  <2>3. LocksOf(r)'
    BY <2>1, <2>2 DEF LocksOf, Reported, Same
  <2> QED
    BY <2>1, <2>3, LocksOwnRun
<1>8. ASSUME NEW r \in Run, WriteEvaluatedLock(r) PROVE Locks'
  <2>1. /\ RunsAlone(r) /\ WritesOwn(r) /\ Same(r) /\ flake' = flake /\ proc[r].at = "renamed"
        /\ proc'[r].at = "noted" /\ proc'[r].used = proc[r].used
        /\ dir'[r].report = dir[r].report
        /\ dir[r].there => dir'[r].lock \in {proc[r].lock, Torn}
    BY <1>8, WriteLockFacts
  <2>2. proc[r].lock = proc[r].used /\ dir[r].report # "deployed"
    BY <2>1 DEF Locks, LocksOf, Reported
  <2>3. LocksOf(r)'
    BY <2>1, <2>2 DEF LocksOf, Reported, Same
  <2> QED
    BY <2>1, <2>3, LocksOwnRun
<1>9. ASSUME NEW r \in Run, Report(r) PROVE Locks'
  <2>1. /\ RunsAlone(r) /\ WritesOwn(r) /\ Same(r) /\ flake' = flake /\ proc[r].at = "noted"
        /\ proc'[r].at = "reported" /\ proc'[r].used = proc[r].used
        /\ dir'[r].lock = dir[r].lock /\ (~ dir[r].there => dir' = dir)
    BY <1>9, ReportFacts
  <2>2. /\ dir[r].there => dir[r].lock \in {proc[r].used, Torn}
        /\ dir[r].report # "deployed"
    BY <2>1 DEF Locks, LocksOf, Reported
  <2>3. LocksOf(r)'
    BY <2>1, <2>2 DEF LocksOf, Reported, Same
  <2> QED
    BY <2>1, <2>3, LocksOwnRun
<1>10. ASSUME NEW r \in Run, Interrupted(r) PROVE Locks'
  <2>1. /\ RunsAlone(r) /\ WritesOwn(r) /\ flake' = flake
        /\ proc'[r].at = "over" /\ proc'[r].used = proc[r].used
        /\ dir'[r].lock = dir[r].lock
        /\ dir'[r].report = "deployed" => dir[r].report = "deployed"
    BY <1>10, InterruptedFacts
  <2>2. LocksOf(r)'
    BY <2>1 DEF Locks, LocksOf, Reported
  <2> QED
    BY <2>1, <2>2, LocksOwnRun
<1>11. ASSUME NEW r \in Run, Finish(r) PROVE Locks'
  <2>1. /\ RunsAlone(r) /\ WritesOwn(r) /\ flake' = flake /\ proc[r].at = "reported"
        /\ proc'[r].at = "prune" /\ proc'[r].used = proc[r].used
        /\ dir'[r].lock = dir[r].lock /\ dir'[r].report = dir[r].report
    BY <1>11, FinishFacts
  <2>2. LocksOf(r)'
    BY <2>1 DEF Locks, LocksOf, Reported
  <2> QED
    BY <2>1, <2>2, LocksOwnRun
<1>12. ASSUME NEW r \in Run, Prune(r) PROVE Locks'
  <2>1. /\ RunsAlone(r) /\ dir' = dir /\ flake' = flake /\ proc[r].at = "prune"
        /\ proc'[r].at \in {"prune", "removing"} /\ proc'[r].used = proc[r].used
    BY <1>12, PruneFacts
  <2>2. LocksOf(r)'
    BY <2>1 DEF Locks, LocksOf, Reported
  <2> QED
    BY <2>1, <2>2, LocksOwnRun
<1>13. ASSUME NEW r \in Run, Remove(r) PROVE Locks'
  <2>1. /\ RunsAlone(r) /\ flake' = flake /\ proc[r].at = "removing"
        /\ proc'[r].at = "prune" /\ proc'[r].used = proc[r].used
    BY <1>13, RemoveFacts
  <2>2. \A p \in Run : dir'[p] = dir[p] \/ dir'[p] = NoDir
    BY <1>13, RemoveFacts DEF Others
  <2>3. Removes(r) /\ Follows
    BY <2>1, <2>2 DEF Removes, Follows, Others
  <2>4. LocksOf(r)'
    BY <2>1, <2>2 DEF Locks, LocksOf, Reported, NoDir
  <2> QED
    BY <2>1, <2>3, <2>4, LocksRun
<1>14. ASSUME NEW r \in Run, Release(r) \/ Die(r) PROVE Locks'
  <2>1. /\ RunsAlone(r) /\ dir' = dir /\ flake' = flake
        /\ proc'[r].at = "over" /\ proc'[r].used = proc[r].used
    BY <1>14, OverFacts
  <2>2. LocksOf(r)'
    BY <2>1 DEF Locks, LocksOf, Reported
  <2> QED
    BY <2>1, <2>2, LocksOwnRun
<1>15. CASE TriageStep
  BY <1>1, <1>15, TriageFacts DEF ReadsOnly
<1> QED
  BY <1>1, <1>2, <1>3, <1>5, <1>6, <1>7, <1>8, <1>9, <1>10, <1>11, <1>12, <1>14, <1>15,
     <1>4, <1>13
     DEF Next, TriageStep, vars

-----------------------------------------------------------------------------
(* The baseline *)

\* A run that was reported stays so, and its report is not written again.
KeepsReport(r) ==
    proc[r].at \in Reported =>
        /\ proc'[r].at \in Reported /\ proc'[r].used = proc[r].used
        /\ dir'[r].there => dir[r].there /\ dir'[r].report = dir[r].report

(* Steps of runs keep what triage knows of the baseline. *)
LEMMA BasedStays ==
    ASSUME Settings, Typed, Based, triage' = triage, \A q \in Run : KeepsReport(q)
    PROVE  Based'
<1>1. ASSUME Base PROVE Base' /\ proc'[triage.base].used = proc[triage.base].used
  <2>1. triage.base \in Run /\ proc[triage.base].at \in Reported
    BY <1>1 DEF Base, Reported
  <2>2. /\ proc'[triage.base].at \in Reported /\ proc'[triage.base].used = proc[triage.base].used
        /\ dir'[triage.base].there =>
              dir[triage.base].there /\ dir'[triage.base].report = dir[triage.base].report
    BY <2>1 DEF KeepsReport
  <2> QED
    BY <1>1, <2>2 DEF Base, Reported
<1>2. CASE triage.at = "based" /\ triage.base # 0
  BY <1>1, <1>2 DEF Based
<1>3. CASE triage.at = "compared" /\ triage.old # None
  BY <1>1, <1>3 DEF Based
<1> QED
  BY <1>2, <1>3 DEF Based

(* A step of one run. *)
LEMMA BasedRun ==
    ASSUME Settings, Typed, Based, NEW r \in Run, RunsAlone(r), KeepsReport(r),
           \A q \in Others(r) : dir'[q] = dir[q] \/ dir'[q] = NoDir
    PROVE  Based'
<1>1. ASSUME NEW q \in Others(r) PROVE KeepsReport(q)
  <2>1. proc'[q] = proc[q] /\ (dir'[q] = dir[q] \/ dir'[q] = NoDir)
    BY DEF RunsAlone
  <2>2. NoDir.there = FALSE
    BY DEF NoDir
  <2> QED
    BY <2>1, <2>2 DEF KeepsReport
<1>2. triage' = triage
  BY DEF RunsAlone
<1> QED
  BY <1>1, <1>2, BasedStays DEF Others

(* A step of one run that was not yet reported, and writes what is its own. *)
LEMMA BasedOwnRun ==
    ASSUME Settings, Typed, Based, NEW r \in Run, RunsAlone(r), dir' = dir \/ WritesOwn(r),
           KeepsReport(r)
    PROVE  Based'
<1>1. \A q \in Others(r) : dir'[q] = dir[q]
  BY DEF WritesOwn
<1> QED
  BY <1>1, BasedRun

(* The newest run that deployed the target becomes the baseline, by its record. *)
LEMMA FoundBaseline ==
    ASSUME Settings, Inv, FindBaseline
    PROVE  Based'
<1> DEFINE good == GoodRun(triage.run)
           base == IF good = {} THEN 0 ELSE CHOOSE q \in good : TRUE
<1>1. /\ triage' = [triage EXCEPT !.at = "based", !.base = base]
      /\ proc' = proc /\ dir' = dir
  BY DEF FindBaseline
<1>2. triage \in [at : {"idle", "selected", "testing", "tested", "read", "based", "compared"},
                   run : Run, base : Run \cup {0}, old : 0 .. MaxLock]
  BY DEF Inv, Typed
<1>3. base # 0 => base \in good
  OBVIOUS
<1>4. \A q \in good : q \in Run /\ q < triage.run /\ dir[q].report = "deployed"
  BY DEF GoodRun, KeptRuns, Newest, There
<1> HIDE DEF base
<1>5. triage'.at = "based" /\ triage'.base = base /\ triage'.run = triage.run
  BY <1>1, <1>2
<1>6. CASE base = 0
  BY <1>5, <1>6 DEF Based
<1>7. CASE base # 0
  <2>1. base \in Run /\ base < triage.run /\ dir[base].report = "deployed"
    BY <1>3, <1>4, <1>7
  <2>2. proc[base].at \in Reported
    BY <2>1 DEF Inv, Locks, LocksOf
  <2>3. Base'
    BY <1>1, <1>5, <2>1, <2>2 DEF Base
  <2> QED
    BY <1>5, <2>3 DEF Based
<1> QED
  BY <1>6, <1>7

(* What is read of the baseline's lock is the lock its run evaluated. *)
LEMMA ReadBaselineFacts ==
    ASSUME Settings, Inv, ReadBaseline
    PROVE  Based'
<1> DEFINE b == triage.base
           old == IF b \in There /\ dir[b].lock # Torn THEN dir[b].lock ELSE None
<1>1. /\ triage' = [triage EXCEPT !.at = "compared", !.old = old]
      /\ proc' = proc /\ dir' = dir /\ triage.at = "based"
  BY DEF ReadBaseline
<1>2. triage \in [at : {"idle", "selected", "testing", "tested", "read", "based", "compared"},
                   run : Run, base : Run \cup {0}, old : 0 .. MaxLock]
  BY DEF Inv, Typed
<1>3. old # None => b \in There /\ dir[b].lock # Torn /\ old = dir[b].lock
  OBVIOUS
<1> HIDE DEF old
<1>4. triage'.at = "compared" /\ triage'.base = b /\ triage'.run = triage.run /\ triage'.old = old
  BY <1>1, <1>2
<1>5. CASE old = None
  BY <1>4, <1>5 DEF Based
<1>6. CASE old # None
  <2>1. b \in Run /\ dir[b].there /\ dir[b].lock # Torn /\ old = dir[b].lock
    BY <1>3, <1>6 DEF There
  <2>2. b # 0
    BY <2>1 DEF Run, Settings
  <2>3. Base
    BY <1>1, <2>2 DEF Inv, Based
  <2>4. old = proc[b].used
    BY <2>1, <2>3 DEF Base, Inv, Locks, LocksOf
  <2>5. Base'
    BY <1>1, <1>4, <2>3 DEF Base
  <2> QED
    BY <1>1, <1>4, <2>4, <2>5 DEF Based
<1> QED
  BY <1>5, <1>6

(* The baseline stays that of an earlier run that deployed the target. *)
LEMMA BasedNext ==
    ASSUME Settings, Inv, [Next]_vars
    PROVE  Based'
<1>0. Typed /\ Lives /\ Kept /\ Locks /\ Based
  BY DEF Inv
<1>1. CASE UNCHANGED <<proc, dir, triage>>
  BY <1>0, <1>1 DEF Based, Base
<1>2. ASSUME NEW r \in Run, Start(r) PROVE Based'
  <2>1. RunsAlone(r) /\ WritesOwn(r) /\ proc[r].at = "none"
    BY <1>0, <1>2, StartFacts
  <2>2. KeepsReport(r)
    BY <2>1 DEF KeepsReport, Reported
  <2> QED
    BY <1>0, <2>1, <2>2, BasedOwnRun
<1>3. ASSUME NEW r \in Run, OpenLock(r) \/ TakeLock(r) PROVE Based'
  <2>1. RunsAlone(r) /\ WritesOwn(r) /\ proc[r].at \in {"made", "opened"}
    BY <1>0, <1>3, OpenLockFacts, TakeLockFacts
  <2>2. KeepsReport(r)
    BY <2>1 DEF KeepsReport, Reported
  <2> QED
    BY <1>0, <2>1, <2>2, BasedOwnRun
<1>4. ASSUME NEW r \in Run, Evaluate(r) PROVE Based'
  <2>1. RunsAlone(r) /\ dir' = dir /\ proc[r].at = "started"
    BY <1>0, <1>4, EvaluateFacts
  <2>2. KeepsReport(r)
    BY <2>1 DEF KeepsReport, Reported
  <2> QED
    BY <1>0, <2>1, <2>2, BasedOwnRun
<1>5. ASSUME NEW r \in Run, NoteEvaluatedLock(r) \/ WriteEvaluatedLock(r) \/ Report(r) PROVE Based'
  <2>1. RunsAlone(r) /\ WritesOwn(r) /\ proc[r].at \in {"evaluated", "renamed", "noted"}
    BY <1>0, <1>5, NoteFacts, WriteLockFacts, ReportFacts
  <2>2. KeepsReport(r)
    BY <2>1 DEF KeepsReport, Reported
  <2> QED
    BY <1>0, <2>1, <2>2, BasedOwnRun
<1>6. ASSUME NEW r \in Run, Interrupted(r) PROVE Based'
  <2>1. /\ RunsAlone(r) /\ WritesOwn(r) /\ Same(r)
        /\ proc[r].at \in {"started", "evaluated", "noted", "reported"} /\ proc'[r].at = "over"
        /\ proc'[r].used = proc[r].used
        /\ proc[r].at = "reported" => dir'[r].report = dir[r].report
    BY <1>0, <1>6, InterruptedFacts
  <2>2. KeepsReport(r)
    BY <2>1 DEF KeepsReport, Reported, Same
  <2> QED
    BY <1>0, <2>1, <2>2, BasedOwnRun
<1>7. ASSUME NEW r \in Run, Finish(r) PROVE Based'
  <2>1. /\ RunsAlone(r) /\ WritesOwn(r) /\ Same(r) /\ proc'[r].at = "prune"
        /\ proc'[r].used = proc[r].used /\ dir'[r].report = dir[r].report
    BY <1>0, <1>7, FinishFacts
  <2>2. KeepsReport(r)
    BY <2>1 DEF KeepsReport, Reported, Same
  <2> QED
    BY <1>0, <2>1, <2>2, BasedOwnRun
<1>8. ASSUME NEW r \in Run, Prune(r) PROVE Based'
  <2>1. /\ RunsAlone(r) /\ dir' = dir /\ proc'[r].at \in {"prune", "removing"}
        /\ proc'[r].used = proc[r].used
    BY <1>0, <1>8, PruneFacts
  <2>2. KeepsReport(r)
    BY <2>1 DEF KeepsReport, Reported
  <2> QED
    BY <1>0, <2>1, <2>2, BasedOwnRun
<1>9. ASSUME NEW r \in Run, Remove(r) PROVE Based'
  <2>1. /\ RunsAlone(r) /\ proc'[r].at = "prune" /\ proc'[r].used = proc[r].used
    BY <1>0, <1>9, RemoveFacts
  <2>2. \A p \in Run : dir'[p] = dir[p] \/ dir'[p] = NoDir
    BY <1>0, <1>9, RemoveFacts DEF Others
  <2>3. NoDir.there = FALSE
    BY DEF NoDir
  <2>4. KeepsReport(r)
    BY <2>1, <2>2, <2>3 DEF KeepsReport, Reported
  <2> QED
    BY <1>0, <2>1, <2>2, <2>4, BasedRun DEF Others
<1>10. ASSUME NEW r \in Run, Release(r) \/ Die(r) PROVE Based'
  <2>1. /\ RunsAlone(r) /\ dir' = dir /\ proc'[r].at = "over" /\ proc'[r].used = proc[r].used
    BY <1>0, <1>10, OverFacts
  <2>2. KeepsReport(r)
    BY <2>1 DEF KeepsReport, Reported
  <2> QED
    BY <1>0, <2>1, <2>2, BasedOwnRun
<1>11. CASE FindBaseline
  BY <1>11, FoundBaseline
<1>12. CASE ReadBaseline
  BY <1>12, ReadBaselineFacts
<1>13. CASE Select \/ TestHeld \/ EndTest \/ ReadFinished \/ WriteContext
  <2>1. triage'.at \in {"idle", "selected", "testing", "tested", "read"}
    <3>1. triage \in [at : {"idle", "selected", "testing", "tested", "read", "based", "compared"},
                       run : Run, base : Run \cup {0}, old : 0 .. MaxLock]
      BY <1>0 DEF Typed
    <3> QED
      BY <1>13, <3>1 DEF Select, TestHeld, EndTest, ReadFinished, WriteContext, Idle
  <2> QED
    BY <2>1 DEF Based
<1> QED
  BY <1>1, <1>2, <1>3, <1>4, <1>5, <1>6, <1>7, <1>8, <1>10, <1>11, <1>12, <1>13,
     <1>9
     DEF Next, EditFlake, vars

-----------------------------------------------------------------------------
(* The invariant *)

(* It holds before the first run. *)
LEMMA InvInit ==
    ASSUME Settings, Init
    PROVE  Inv
<1> DEFINE new == [at |-> "none", lock |-> None, used |-> None, todo |-> {},
                blind |-> FALSE]
<1>1. new \in Process /\ NoDir \in Directory
  BY DEF Process, Directory, NoDir, None, Settings
<1>2. \A r \in Run : proc[r].at = "none" /\ proc[r].todo = {} /\ dir[r] = NoDir /\ held[r] = {}
  BY DEF Init
<1>3. Typed
  <2>1. proc \in [Run -> Process] /\ dir \in [Run -> Directory]
    BY <1>1 DEF Init
  <2>2. flake \in [lock : 1 .. MaxLock, behind : BOOLEAN] /\ ~ flake.behind
    BY DEF Init, Settings
  <2>3. held \in [Run -> SUBSET (Run \cup {Reader})]
    BY DEF Init
  <2>4. faults \in 0 .. MaxFaults
    BY DEF Init, Settings
  <2> QED
    BY <1>2, <2>1, <2>2, <2>3, <2>4, IdleTyped DEF Typed, Init
<1>4. Lives
  BY <1>2 DEF Lives, LivesOf, Recorded, At
<1>5. Kept
  BY <1>2 DEF Kept
<1>6. Locks
  BY <1>2 DEF Locks, LocksOf, NoDir
<1>7. Based
  BY DEF Based, Init, Idle
<1> QED
  BY <1>3, <1>4, <1>5, <1>6, <1>7 DEF Inv

(* Every step keeps it. *)
LEMMA InvNext ==
    ASSUME Settings, Inv, [Next]_vars
    PROVE  Inv'
<1>1. Typed'
  BY TypedNext DEF Inv
<1> QED
  BY <1>1, LivesNext, KeptNext, LocksNext, BasedNext DEF Inv

(* It always holds. *)
LEMMA Invariance ==
    ASSUME Settings
    PROVE  Spec => []Inv
<1>1. Init => Inv
  BY InvInit
<1>2. Inv /\ [Next]_vars => Inv'
  BY InvNext
<1> QED
  BY <1>1, <1>2, PTL DEF Spec

-----------------------------------------------------------------------------
(* The theorems *)

(* The type invariant: every lock has one holder at most, whoever runs,     *)
(* prunes and reads, and whatever writes fail.                              *)
THEOREM TypeCorrect ==
    ASSUME Settings
    PROVE  Spec => []TypeOK
<1>1. Inv => TypeOK
  <2> SUFFICES ASSUME Inv
               PROVE  TypeOK
    OBVIOUS
  <2>1. Typed
    BY DEF Inv
  <2>2. ASSUME NEW r \in Run PROVE Cardinality(held[r]) <= 1
    <3>1. CASE held[r] = {}
      BY <3>1, FS_EmptySet
    <3>2. CASE \E x \in Run \cup {Reader} : held[r] = {x}
      BY <3>2, FS_Singleton
    <3> QED
      BY <2>1, <3>1, <3>2 DEF Typed
  <2> QED
    BY <2>1, <2>2 DEF TypeOK, Typed, Process, Directory
<1> QED
  BY <1>1, Invariance, PTL

(* At least the Keep newest directories stay, and that of a run that keeps a *)
(* record goes only where a prune looked at it before the run had its        *)
(* run.lock, however many runs start and prune at once and whatever triage   *)
(* locks meanwhile (runrecord.go, finish, prune and removeIdleRun).          *)
THEOREM PrunesKeepTheNewest ==
    ASSUME Settings
    PROVE  Spec => PruneKeeps
<1>1. Inv /\ Next => PrunedIsOld
  <2> SUFFICES ASSUME Inv, Next
               PROVE  PrunedIsOld
    OBVIOUS
  <2>0. Typed /\ Lives /\ Kept
    BY DEF Inv
  <2>1. ASSUME NEW q \in There \ There'
        PROVE  /\ Cardinality({k \in There' : k > q}) >= Keep
               /\ Recorded(q) => \E r \in Run : At(r, "removing") /\ proc[r].blind /\ q \in Oldest(r)
    <3>1. q \in Run /\ dir[q].there /\ ~ dir'[q].there /\ dir' # dir
      BY DEF There
    <3>2. ASSUME NEW r \in Run, WritesOwn(r), dir[r].there => dir'[r].there PROVE FALSE
      BY <3>1, <3>2 DEF WritesOwn, Others
    <3>3. \A r \in Run : ~ (Start(r) \/ OpenLock(r))
      BY <2>0, <3>2, StartFacts, OpenLockFacts
    <3>4. \A r \in Run : ~ (TakeLock(r) \/ NoteEvaluatedLock(r) \/ WriteEvaluatedLock(r))
      BY <2>0, <3>2, TakeLockFacts, NoteFacts, WriteLockFacts DEF Same
    <3>5. \A r \in Run : ~ (Report(r) \/ Interrupted(r) \/ Finish(r))
      BY <2>0, <3>2, ReportFacts, InterruptedFacts, FinishFacts DEF Same
    <3>6. ~ EditFlake /\ \A r \in Run : ~ (Evaluate(r) \/ Prune(r) \/ Release(r) \/ Die(r))
      BY <3>1 DEF EditFlake, Evaluate, Prune, Release, Die
    <3>7. ~ TriageStep
      BY <2>0, <3>1, TriageFacts DEF ReadsOnly
    <3>8. PICK r \in Run : Remove(r)
      BY <3>3, <3>4, <3>5, <3>6, <3>7 DEF Next, TriageStep
    <3>9. PICK x \in Oldest(r) : /\ x \in Run /\ dir'[x] = NoDir
                                 /\ \A p \in Others(x) : dir'[p] = dir[p]
      BY <2>0, <3>8, RemoveFacts
    <3>10. x = q /\ q \in Oldest(r) /\ q \in proc[r].todo
      BY <2>0, <3>1, <3>9, OldestFacts DEF Others
    <3>11. Cardinality(Newer(q)') >= Keep
      BY <2>0, <3>9, <3>10, KeptRemoval
    <3>12. ASSUME Recorded(q), ~ proc[r].blind PROVE FALSE
      <4>1. q \in held[q]
        BY <2>0, <3>1, <3>12 DEF Lives, LivesOf
      <4>2. r \in held[q] /\ r \notin proc[r].todo
        BY <2>0, <3>8, <3>10, <3>12 DEF Lives, LivesOf, Remove
      <4>3. q = r
        BY <2>0, <3>1, <4>1, <4>2 DEF Typed
      <4> QED
        BY <3>10, <4>2, <4>3
    <3> QED
      BY <3>8, <3>10, <3>11, <3>12 DEF Newer, Remove
  <2>2. ASSUME NEW r \in Run, ~ proc[r].blind, proc'[r].blind, NEW q \in Oldest(r) \cap There
        PROVE  ~ Recorded(q)
    <3>1. ASSUME NEW p \in Run, RunsAlone(p), proc'[p].blind => proc[p].blind PROVE FALSE
      BY <2>2, <3>1 DEF RunsAlone, Others
    <3>2. \A p \in Run : ~ (Start(p) \/ OpenLock(p) \/ TakeLock(p))
      BY <2>0, <3>1, StartFacts, OpenLockFacts, TakeLockFacts
    <3>3. \A p \in Run : ~ (Evaluate(p) \/ NoteEvaluatedLock(p) \/ WriteEvaluatedLock(p))
      BY <2>0, <3>1, EvaluateFacts, NoteFacts, WriteLockFacts
    <3>4. \A p \in Run : ~ (Report(p) \/ Interrupted(p) \/ Finish(p))
      BY <2>0, <3>1, ReportFacts, InterruptedFacts, FinishFacts
    <3>5. \A p \in Run : ~ (Remove(p) \/ Release(p) \/ Die(p))
      BY <2>0, <3>1, RemoveFacts, OverFacts
    <3>6. ~ EditFlake /\ ~ TriageStep
      BY <2>0, <2>2, TriageFacts DEF EditFlake, ReadsOnly
    <3>7. PICK p \in Run : Prune(p)
      BY <3>2, <3>3, <3>4, <3>5, <3>6 DEF Next, TriageStep
    <3>8. p = r
      BY <2>0, <2>2, <3>7, PruneFacts DEF RunsAlone, Others
    <3>9. PICK x \in Oldest(r) : proc'[r].blind = ~ dir[x].lockFile
      BY <2>0, <2>2, <3>7, <3>8, PruneFacts
    <3>10. x = q
      BY <2>0, <3>9, OldestFacts
    <3> QED
      BY <2>0, <2>2, <3>9, <3>10 DEF Lives, LivesOf, There
  <2> QED
    BY <2>1, <2>2 DEF PrunedIsOld
<1>2. UNCHANGED vars => [PrunedIsOld]_vars
  OBVIOUS
<1>3. PruneKeeps <=> [][PrunedIsOld]_vars
  BY DEF PruneKeeps
<1> QED
  BY <1>1, <1>2, <1>3, Invariance, PTL DEF Spec

(* The lock that triage compares a failed run with is the one that an       *)
(* earlier run of the target was evaluated from and deployed, whatever      *)
(* writes failed, was interrupted or was pruned meanwhile (triage.go).      *)
THEOREM BaselinesWereDeployed ==
    ASSUME Settings
    PROVE  Spec => []BaselineIsDeployed
<1>1. Inv => BaselineIsDeployed
  BY DEF Inv, Based, Base, BaselineIsDeployed
<1> QED
  BY <1>1, Invariance, PTL
=============================================================================
