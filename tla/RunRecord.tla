------------------------------- MODULE RunRecord -------------------------------
(***************************************************************************)
(* The record a deploy run keeps of itself (runrecord.go), the pruning of  *)
(* old records by other runs, and nixfleet triage, which reads them        *)
(* (triage.go, triagelock.go), in src/tools/nix-deploy.                    *)
(*                                                                         *)
(* Runs are numbered by the time each takes when it starts, as their       *)
(* directories sort; the directories come in any order, as the time is     *)
(* taken before git is asked.  A flake.lock is a number: its version.  One *)
(* target stands for all: each is looked up by itself.                     *)
(***************************************************************************)
EXTENDS Integers, FiniteSets

CONSTANTS MaxRun,     \* bound of the runs
          Keep,       \* DEPLOY_RUN_KEEP
          MaxLock,    \* bound of the versions of the flake's lock
          MaxFaults   \* bound of the writes of a record that fail

\* DEPLOY_RUN_KEEP is positive.
Settings == /\ MaxRun \in Nat \ {0} /\ Keep \in Nat \ {0}
            /\ MaxLock \in Nat \ {0} /\ MaxFaults \in Nat

Run == 1 .. MaxRun
Reader == 0    \* nixfleet triage, as a holder of a lock
None == 0      \* no flake.lock
Torn == -1     \* one whose write failed half way

VARIABLES
    flake,    \* the flake's lock, and whether its flake.nix asks for another
    proc,     \* each run's process, with what its prune has to do
    dir,      \* each run's directory under runs/
    held,     \* who holds the flock on a run's run.lock: runs, or Reader;
              \* the lock of a file that was removed goes on
    triage,   \* nixfleet triage: where it is and what it read
    faults    \* the failed writes so far

vars == <<flake, proc, dir, held, triage, faults>>

NoDir == [there |-> FALSE, lockFile |-> FALSE, json |-> "none", lock |-> None,
          report |-> "none"]

Idle == [at |-> "idle", run |-> 1, base |-> 0, old |-> None]

Init ==
    /\ flake = [lock |-> 1, behind |-> FALSE]
    /\ proc = [r \in Run |-> [at |-> "none", lock |-> None, used |-> None, todo |-> {},
                          blind |-> FALSE]]
    /\ dir = [r \in Run |-> NoDir]
    /\ held = [r \in Run |-> {}]
    /\ triage = Idle
    /\ faults = 0

At(r, where) == proc[r].at = where
Goto(r, where) == proc' = [proc EXCEPT ![r].at = where]
\* The process is over; nothing but the lock it evaluated from matters.
End(r, where) ==
    proc' = [proc EXCEPT ![r] = [@ EXCEPT !.at = where, !.lock = None, !.todo = {}, !.blind = FALSE]]
There == {r \in Run : dir[r].there}
Unlocked(r) == held[r] = {}

\* The run writes its record; where its directory is gone, nothing.
Record(r, new) == dir' = IF dir[r].there THEN [dir EXCEPT ![r] = new] ELSE dir

\* A write of the record that may fail: the run warns and goes on.
Write(may) == \/ may = "done" /\ UNCHANGED faults
              \/ may = "failed" /\ faults < MaxFaults /\ faults' = faults + 1

-----------------------------------------------------------------------------
(* The flake *)

\* The operator updates the lock or changes flake.nix; not between an
\* evaluation and the note of the lock it used.
EditFlake ==
    /\ flake.lock < MaxLock /\ \A r \in Run : ~ At(r, "evaluated")
    /\ flake' \in {[lock |-> flake.lock + 1, behind |-> FALSE], [flake EXCEPT !.behind = TRUE]}
    /\ UNCHANGED <<proc, dir, held, triage, faults>>

-----------------------------------------------------------------------------
(* A run *)

\* startRunRecord up to its directory, for which there may be no room.
Start(r) ==
    /\ At(r, "none")
    /\ \/ /\ dir' = [dir EXCEPT ![r].there = TRUE]
          /\ proc' = [proc EXCEPT ![r].at = "made", ![r].lock = flake.lock]
       \/ End(r, "unrecorded") /\ UNCHANGED dir
    /\ UNCHANGED <<flake, held, triage, faults>>

\* run.lock is created, unless a prune of another run took the directory.
OpenLock(r) ==
    /\ At(r, "made")
    /\ IF dir[r].there THEN Goto(r, "opened") ELSE End(r, "unrecorded")
    /\ Record(r, [dir[r] EXCEPT !.lockFile = TRUE])
    /\ UNCHANGED <<flake, held, triage, faults>>

\* The flock and logs/, then the first run.json and the copy of the lock; a
\* prune or triage may have the flock, and logs/ needs the directory.
TakeLock(r) ==
    /\ At(r, "opened")
    /\ IF Unlocked(r) /\ dir[r].there
       THEN \E may \in {"done", "failed"} :
              /\ Write(may)
              /\ held' = [held EXCEPT ![r] = {r}]
              /\ Record(r, [dir[r] EXCEPT !.json = "started",
                                           !.lock = IF may = "done" THEN proc[r].lock ELSE Torn])
              /\ Goto(r, "started")
       ELSE End(r, "unrecorded") /\ UNCHANGED <<dir, held, faults>>
    /\ UNCHANGED <<flake, triage>>

\* The evaluation of the targets, which rewrites a lock that is behind.
Evaluate(r) ==
    /\ At(r, "started")
    /\ flake' = [lock |-> IF flake.behind THEN flake.lock + 1 ELSE flake.lock, behind |-> FALSE]
    /\ proc' = [proc EXCEPT ![r].at = "evaluated", ![r].used = flake'.lock]
    /\ UNCHANGED <<dir, held, triage, faults>>

\* Mutant: the record keeps the lock the run started with.
NoteNothing(r) ==
    /\ At(r, "evaluated") /\ Goto(r, "noted")
    /\ UNCHANGED <<flake, dir, held, triage, faults>>

\* noteEvaluatedLock: the copy of a lock that changed becomes flake.start.lock.
NoteEvaluatedLock(r) ==
    /\ At(r, "evaluated")
    /\ IF flake.lock = proc[r].lock
       THEN Goto(r, "noted") /\ UNCHANGED <<dir, faults>>
       ELSE \E may \in {"done", "failed"} :
              /\ Write(may)
              /\ Record(r, [dir[r] EXCEPT !.lock = IF may = "failed" THEN @ ELSE None])
              /\ proc' = [proc EXCEPT ![r].at = "renamed", ![r].lock = flake.lock]
    /\ UNCHANGED <<flake, held, triage>>

\* ... and the new one is written in its place.
WriteEvaluatedLock(r) ==
    /\ At(r, "renamed")
    /\ \E may \in {"done", "failed"} :
         /\ Write(may)
         /\ Record(r, [dir[r] EXCEPT !.lock = IF may = "done" THEN proc[r].lock ELSE Torn])
    /\ Goto(r, "noted")
    /\ UNCHANGED <<flake, held, triage>>

\* finishRecord: the report says whether the host runs the target: it is ok
\* or unchanged, and neither failed nor only built.
Report(r) ==
    /\ At(r, "noted")
    /\ \E status \in {"deployed", "not"}, may \in {"done", "failed"} :
         /\ Write(may)
         /\ Record(r, [dir[r] EXCEPT !.report = IF may = "done" THEN status ELSE "none"])
    /\ Goto(r, "reported")
    /\ UNCHANGED <<flake, held, triage>>

\* An interrupted run writes the report it has, leaves run.json incomplete and
\* drops its lock.
Interrupted(r) ==
    /\ proc[r].at \in {"started", "evaluated", "noted", "reported"}
    /\ Record(r, [dir[r] EXCEPT !.report = IF At(r, "reported") THEN @ ELSE "not"])
    /\ held' = [held EXCEPT ![r] = {}]
    /\ End(r, "over")
    /\ UNCHANGED <<flake, triage, faults>>

\* Mutant: a prune counts its own run among the others it keeps.
ToPruneOneMore(r) == {q \in There \ {r} : Cardinality({k \in There : k > q}) >= Keep - 1}

\* The runs a prune tries to remove: all but its own and the newest.
ToPrune(r) == {q \in There \ {r} : Cardinality({k \in There : k > q}) >= Keep}

\* finish: run.json is completed, and the prune lists the directories.
Finish(r) ==
    /\ At(r, "reported")
    /\ \E may \in {"done", "failed"} :
         /\ Write(may)
         /\ Record(r, [dir[r] EXCEPT !.json = IF may = "done" THEN "ended" ELSE @])
    /\ proc' = [proc EXCEPT ![r].at = "prune", ![r].todo = ToPrune(r)]
    /\ UNCHANGED <<flake, held, triage>>

\* The directory a prune comes to next: the oldest on its list.
Oldest(r) == {q \in proc[r].todo : \A k \in proc[r].todo : q <= k}

\* Mutant: a directory is removed whoever locks it.
PruneLocked(r) ==
    /\ At(r, "prune")
    /\ \E q \in Oldest(r) :
          proc' = [proc EXCEPT ![r].at = "removing", ![r].blind = ~ dir[q].lockFile]
    /\ UNCHANGED <<flake, dir, held, triage, faults>>

\* removeIdleRun looks at run.lock: where there is none, its run is taken to be
\* over; where it is free, the prune takes it; where it is not, the run goes on.
Prune(r) ==
    /\ At(r, "prune")
    /\ \E q \in Oldest(r) :
          IF dir[q].lockFile /\ ~ Unlocked(q)
          THEN proc' = [proc EXCEPT ![r].todo = @ \ {q}] /\ UNCHANGED held
          ELSE /\ proc' = [proc EXCEPT ![r].at = "removing", ![r].blind = ~ dir[q].lockFile]
               /\ held' = IF dir[q].lockFile THEN [held EXCEPT ![q] = {r}] ELSE held
    /\ UNCHANGED <<flake, dir, triage, faults>>

\* ... and removes the directory with what is in it by now.
Remove(r) ==
    /\ At(r, "removing")
    /\ \E q \in Oldest(r) :
          /\ dir' = [dir EXCEPT ![q] = NoDir]
          /\ held' = [held EXCEPT ![q] = @ \ {r}]
          /\ proc' = [proc EXCEPT ![r].at = "prune", ![r].todo = @ \ {q}, ![r].blind = FALSE]
    /\ UNCHANGED <<flake, triage, faults>>

Release(r) ==
    /\ At(r, "prune") /\ proc[r].todo = {}
    /\ held' = [held EXCEPT ![r] = @ \ {r}]
    /\ End(r, "over")
    /\ UNCHANGED <<flake, dir, triage, faults>>

\* The process ends wherever it is: the kernel drops its locks.
Die(r) ==
    /\ proc[r].at \notin {"none", "over", "unrecorded"}
    /\ End(r, "over") /\ held' = [q \in Run |-> held[q] \ {r}]
    /\ UNCHANGED <<flake, dir, triage, faults>>

-----------------------------------------------------------------------------
(* nixfleet triage *)

Newest(runs) == {r \in runs : \A q \in runs : q <= r}

\* selectRun: the run that is named, the newest that failed or, for warnings,
\* the newest finished one.
Select ==
    /\ triage.at = "idle"
    /\ \E r \in There : triage' = [at |-> "selected", run |-> r, base |-> 0, old |-> None]
    /\ UNCHANGED <<flake, proc, dir, held, faults>>

\* runHeld: a shared lock is taken to see whether the run still has its own; a
\* run that has yet to take it is not told from one that is over.
TestHeld ==
    LET r == triage.run IN
    /\ triage.at = "selected"
    /\ IF dir[r].lockFile /\ ~ Unlocked(r)
       THEN triage' = Idle /\ UNCHANGED held
       ELSE /\ held' = IF dir[r].lockFile THEN [held EXCEPT ![r] = {Reader}] ELSE held
            /\ triage' = [triage EXCEPT !.at = "testing"]
    /\ UNCHANGED <<flake, proc, dir, faults>>

EndTest ==
    /\ triage.at = "testing"
    /\ held' = [held EXCEPT ![triage.run] = @ \ {Reader}]
    /\ triage' = [triage EXCEPT !.at = "tested"]
    /\ UNCHANGED <<flake, proc, dir, faults>>

\* readFinishedRun, for warnings or for a run that run.json says failed.
ReadFinished ==
    LET r == triage.run IN
    /\ triage.at = "tested"
    /\ triage' = IF dir[r].json # "none" /\ dir[r].report # "none"
                  THEN [triage EXCEPT !.at = "read"] ELSE Idle
    /\ UNCHANGED <<flake, proc, dir, held, faults>>

\* keptRuns and goodRun: the newest earlier run with a report and a lock in
\* which the target is ok or unchanged.
KeptRuns(r) == {q \in There : q < r /\ dir[q].lock # None /\ dir[q].report # "none"}
GoodRun(r) == Newest({q \in KeptRuns(r) : dir[q].report = "deployed"})

FindBaseline ==
    /\ triage.at = "read"
    /\ triage' = [triage EXCEPT !.at = "based",
                    !.base = LET good == GoodRun(triage.run)
                            IN IF good = {} THEN 0 ELSE CHOOSE q \in good : TRUE]
    /\ UNCHANGED <<flake, proc, dir, held, faults>>

\* Its lock is read; a directory pruned meanwhile, or a torn lock, gives none.
ReadBaseline ==
    /\ triage.at = "based"
    /\ triage' = [triage EXCEPT !.at = "compared",
                    !.old = IF triage.base \in There /\ dir[triage.base].lock # Torn
                            THEN dir[triage.base].lock ELSE None]
    /\ UNCHANGED <<flake, proc, dir, held, faults>>

\* writeTriageContext ends: triage.md is written beside the record.
WriteContext ==
    /\ triage.at = "compared" /\ triage' = Idle
    /\ UNCHANGED <<flake, proc, dir, held, faults>>

Next ==
    \/ EditFlake
    \/ \E r \in Run :
          \/ Start(r) \/ OpenLock(r) \/ TakeLock(r) \/ Evaluate(r) \/ NoteEvaluatedLock(r)
          \/ WriteEvaluatedLock(r) \/ Report(r) \/ Interrupted(r) \/ Finish(r)
          \/ Prune(r) \/ Remove(r) \/ Release(r) \/ Die(r)
    \/ Select \/ TestHeld \/ EndTest \/ ReadFinished \/ FindBaseline \/ ReadBaseline \/ WriteContext

Spec == Init /\ [][Next]_vars

-----------------------------------------------------------------------------
(* Properties *)

\* The type invariant.
TypeOK ==
    /\ flake \in [lock : 1 .. MaxLock, behind : BOOLEAN]
    /\ proc \in [Run -> [at : {"none", "made", "opened", "started", "evaluated", "renamed", "noted",
                               "reported", "prune", "removing", "over", "unrecorded"},
                         lock : 0 .. MaxLock, used : 0 .. MaxLock, todo : SUBSET Run,
                         blind : BOOLEAN]]
    /\ dir \in [Run -> [there : BOOLEAN, lockFile : BOOLEAN, lock : -1 .. MaxLock,
                        json : {"none", "started", "ended"},
                        report : {"none", "deployed", "not"}]]
    /\ held \in [Run -> SUBSET (Run \cup {Reader})] /\ \A r \in Run : Cardinality(held[r]) <= 1
    /\ triage \in [at : {"idle", "selected", "testing", "tested", "read", "based", "compared"},
                    run : Run, base : Run \cup {0}, old : 0 .. MaxLock]
    /\ faults \in 0 .. MaxFaults

\* A run that has its lock, and so a record.
Recorded(r) ==
    proc[r].at \in {"started", "evaluated", "renamed", "noted", "reported", "prune", "removing"}

\* At least the Keep newest directories stay, and of a run that keeps a record a
\* directory goes only where a prune looked at it before it had its run.lock
\* (finish, prune, removeIdleRun): however many runs prune at once, each from its
\* own listing, while others start and triage holds a lock.  That a run is safe
\* before it has its lock, as the newest, the code does not see to: runs that
\* start meanwhile are newer.
PrunedIsOld ==
    /\ \A q \in There \ There' :
          /\ Cardinality({k \in There' : k > q}) >= Keep
          /\ Recorded(q) => \E r \in Run : At(r, "removing") /\ proc[r].blind /\ q \in Oldest(r)
    /\ \A r \in Run : ~ proc[r].blind /\ proc'[r].blind =>
          \A q \in Oldest(r) \cap There : ~ Recorded(q)
\* The action property that every step satisfies it.
PruneKeeps == [][PrunedIsOld]_vars

\* A lock that triage compares a failed run with is the lock an earlier run of
\* the target was evaluated from and left the target deployed: not the lock
\* that run started with, one of a run that deployed nothing, or half a file.
BaselineIsDeployed ==
    (triage.at = "compared" /\ triage.old # None) =>
        /\ triage.base < triage.run
        /\ triage.old = proc[triage.base].used
        /\ dir[triage.base].there => dir[triage.base].report = "deployed"
================================================================================
