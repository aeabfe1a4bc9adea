---------------------- MODULE FailedActivationsProofs ----------------------
(***************************************************************************)
(* Proofs about FailedActivations for any jobs, targets and generations.   *)
(* The record covers every half-activated host as long as no run ends      *)
(* between a rename and its sync and no work outlives its run; without     *)
(* these assumptions the two violation runs refute it.  An activation in   *)
(* flight needs the second alone, and the entries of other runs neither.   *)
(***************************************************************************)
EXTENDS FailedActivations, TLAPS

-----------------------------------------------------------------------------
(* Lemmas *)

(* An empty record is a record. *)
LEMMA EmptyTyped == Empty \in Entries
BY DEF Empty, Entries

(* A target is the target of a job. *)
LEMMA TargetTyped == ASSUME NEW j \in Job PROVE Target[j] \in Targets
BY DEF Targets

(* What moving one job to pc with a copy of the record does to the jobs. *)
LEMMA Moved ==
    ASSUME job \in [Job -> JobState], NEW j \in Job, NEW pc \in PCs, NEW copy \in Entries,
           job' = [job EXCEPT ![j].pc = pc, ![j].copy = copy]
    PROVE  /\ job' \in [Job -> JobState]
           /\ job'[j].pc = pc /\ job'[j].gen = job[j].gen /\ job'[j].copy = copy
           /\ \A k \in Job : k # j => job'[k] = job[k]
<1> DEFINE r == [job[j] EXCEPT !.pc = pc, !.copy = copy]
<1>1. job[j] \in JobState
  OBVIOUS
<1>2. r \in JobState /\ r.pc = pc /\ r.gen = job[j].gen /\ r.copy = copy
  BY <1>1 DEF JobState
<1>3. job \in [Job -> JobState] /\ job' = [job EXCEPT ![j] = r]
  OBVIOUS
<1> HIDE DEF r
<1>4. /\ job' \in [Job -> JobState] /\ job'[j] = r
      /\ \A k \in Job : k # j => job'[k] = job[k]
  BY <1>2, <1>3
<1> QED BY <1>2, <1>4

(* Goto is such a move. *)
LEMMA Gone ==
    ASSUME job \in [Job -> JobState], NEW j \in Job, NEW pc \in PCs, Goto(j, pc)
    PROVE  /\ job' \in [Job -> JobState]
           /\ job'[j].pc = pc /\ job'[j].gen = job[j].gen
           /\ \A k \in Job : k # j => job'[k] = job[k]
BY Moved, EmptyTyped DEF Goto

(* A job that ends is gone from every lock on a target. *)
LEMMA EndedAs ==
    ASSUME TypeOK, NEW j \in Job, NEW pc \in Ended, EndAs(j, pc)
    PROVE  /\ job' \in [Job -> JobState]
           /\ job'[j].pc = pc /\ job'[j].gen = job[j].gen
           /\ \A k \in Job : k # j => job'[k] = job[k]
           /\ tlock' \in [Targets -> Job \cup {Nobody}]
           /\ tlock'[Target[j]] # j
           /\ \A k \in Job : k # j => (tlock'[Target[k]] = k <=> tlock[Target[k]] = k)
<1>1. pc \in PCs
  BY DEF Ended, PCs
<1>2. /\ job' \in [Job -> JobState]
      /\ job'[j].pc = pc /\ job'[j].gen = job[j].gen
      /\ \A k \in Job : k # j => job'[k] = job[k]
  BY <1>1, Gone DEF EndAs, TypeOK
<1>3. Nobody \notin Job
  BY FailedActivationsAssumption
<1> QED BY <1>2, <1>3, TargetTyped DEF EndAs, TypeOK

(* A job that leaves gives back the record's lock, and nothing it wrote is    *)
(* left to be synced.                                                         *)
LEMMA Left ==
    ASSUME TypeOK, NEW j \in Job, Leave(j)
    PROVE  /\ rlock' \in Job \cup {Nobody} /\ rlock' # j
           /\ \A k \in Job : k # j => (rlock' = k <=> rlock = k)
           /\ disk' \in Entries /\ disk' \in {record, disk}
           /\ "unsynced" \notin Faults /\ rlock = j => disk' = record
           /\ rlock # j => disk' = disk
BY FailedActivationsAssumption DEF Leave, Unlock, TypeOK

-----------------------------------------------------------------------------
(* Types *)

(* Every action keeps the types. *)
LEMMA JobStepTyped ==
    ASSUME TypeOK, NEW j \in Job, JobStep(j)
    PROVE  TypeOK'
<1> USE TargetTyped, FailedActivationsAssumption
<1>1. CASE ReadLinks(j)
  BY <1>1, Gone DEF ReadLinks, TypeOK, PCs, BeginPCs, host
<1>2. CASE Unchanged(j)
  BY <1>2, EndedAs DEF Unchanged, TypeOK, Ended, host
<1>3. CASE Retry(j)
  BY <1>3, Gone DEF Retry, TypeOK, PCs, BeginPCs, host
<1>4. CASE Hold(j)
  BY <1>4, Gone DEF Hold, TypeOK, PCs, BeginPCs, host
<1>5. CASE BeginRead(j)
  BY <1>5, Moved DEF BeginRead, LockAndRead, TypeOK, PCs, BeginPCs, host
<1>6. CASE BeginListed(j)
  BY <1>6, Gone DEF BeginListed, Activate, TypeOK, PCs
<1>7. CASE BeginSave(j)
  <2>1. job[j].copy \in Entries /\ job[j].gen \in Gen
    BY DEF TypeOK, JobState
  <2>2. record' \in Entries
    BY <1>7, <2>1 DEF BeginSave, Added, Entries
  <2> QED BY <1>7, <2>2, Gone DEF BeginSave, TypeOK, PCs, BeginPCs, host
<1>8. CASE BeginSync(j)
  BY <1>8, Gone DEF BeginSync, Activate, TypeOK, PCs
<1>9. CASE BeginFails(j)
  BY <1>9, EndedAs, Left DEF BeginFails, End, TypeOK, Ended, host
<1>10. CASE Succeed(j)
  <2>1. CASE Goto(j, "finishRead") /\ UNCHANGED tlock
    BY <1>10, <2>1, Gone DEF Succeed, TypeOK, PCs, FinishPCs
  <2>2. CASE End(j)
    BY <1>10, <2>2, EndedAs DEF Succeed, End, TypeOK, Ended
  <2> QED BY <1>10, <2>1, <2>2 DEF Succeed
<1>11. CASE Fail(j)
  BY <1>11, EndedAs DEF Fail, End, TypeOK, Ended
<1>12. CASE FinishRead(j)
  BY <1>12, Moved DEF FinishRead, LockAndRead, TypeOK, PCs, FinishPCs, host
<1>13. CASE FinishSave(j)
  <2>1. CASE job[j].copy[Target[j]] = {}
    BY <1>13, <2>1, EndedAs DEF FinishSave, End, TypeOK, Ended, host
  <2>2. CASE job[j].copy[Target[j]] # {}
    <3>1. job[j].copy \in Entries
      BY DEF TypeOK, JobState
    <3>2. record' \in Entries
      BY <1>13, <2>2, <3>1 DEF FinishSave, Cleared, Entries
    <3> QED BY <1>13, <2>2, <3>2, Gone DEF FinishSave, TypeOK, PCs, FinishPCs, host
  <2> QED BY <2>1, <2>2
<1>14. CASE FinishSync(j)
  BY <1>14, EndedAs DEF FinishSync, End, TypeOK, Ended, host
<1>15. CASE FinishKeeps(j)
  BY <1>15, EndedAs, Left DEF FinishKeeps, End, TypeOK, Ended, host
<1>16. CASE Kill(j)
  BY <1>16, EndedAs, Left DEF Kill, End, TypeOK, Ended, host
<1>17. CASE NewRun(j)
  BY <1>17, EmptyTyped DEF NewRun, NewJob, JobState, PCs, TypeOK
<1> QED BY <1>1, <1>2, <1>3, <1>4, <1>5, <1>6, <1>7, <1>8, <1>9, <1>10, <1>11,
           <1>12, <1>13, <1>14, <1>15, <1>16, <1>17 DEF JobStep

(* A power loss keeps the types. *)
LEMMA PowerLossTyped == ASSUME TypeOK, PowerLoss PROVE TypeOK'
<1>1. job' \in [Job -> JobState]
  <2>1. \A j \in Job : [NewJob(job[j].gen) EXCEPT !.pc = "done"] \in JobState
    BY EmptyTyped DEF TypeOK, NewJob, JobState, PCs, Ended
  <2> QED BY <2>1 DEF PowerLoss
<1>2. flight' \in [Job -> BOOLEAN]
  BY DEF PowerLoss, TypeOK
<1> QED BY <1>1, <1>2 DEF PowerLoss, TypeOK

(* So does every step. *)
LEMMA StepTyped == TypeOK /\ [Next]_vars => TypeOK'
<1> SUFFICES ASSUME TypeOK, [Next]_vars PROVE TypeOK'
  OBVIOUS
<1>1. ASSUME NEW j \in Job, JobStep(j) PROVE TypeOK'
  BY <1>1, JobStepTyped
<1>2. ASSUME NEW j \in Job, HostStep(j) PROVE TypeOK'
  BY <1>2, TargetTyped DEF HostStep, SetLinks, Through, TypeOK, JobState
<1>3. CASE PowerLoss
  BY <1>3, PowerLossTyped
<1>4. CASE UNCHANGED vars
  BY <1>4 DEF vars, TypeOK
<1> QED BY <1>1, <1>2, <1>3, <1>4 DEF Next

(* The initial states are typed. *)
LEMMA InitTyped == Init => TypeOK
<1> SUFFICES ASSUME Init PROVE TypeOK
  OBVIOUS
<1>1. \A g \in Gen : NewJob(g) \in JobState
  BY EmptyTyped DEF NewJob, JobState, PCs
<1>2. job \in [Job -> JobState]
  BY <1>1 DEF Init
<1> QED BY <1>2, EmptyTyped DEF Init, TypeOK

(* Every state of the model is typed, whatever the faults. *)
THEOREM TypeCorrect == Spec => []TypeOK
BY InitTyped, StepTyped, PTL DEF Spec
-----------------------------------------------------------------------------
(* What the locks alone give *)

USE DEF At

\* A job that ends gave its target back, one that leaves the record's lock.
GaveBack(j) ==
    /\ tlock'[Target[j]] # j
    /\ \A k \in Job : k # j => (tlock'[Target[k]] = k <=> tlock[Target[k]] = k)
Unlocked(j) == rlock' # j /\ \A k \in Job : k # j => (rlock' = k <=> rlock = k)

(* Whatever faults there are, the locks are held where Locks says so: each    *)
(* change of the record is made to what the lock's holder has read.           *)
LEMMA LocksKept ==
    ASSUME TypeOK, Locks, NEW j \in Job, JobStep(j)
    PROVE  Locks'
<1> USE TargetTyped, FailedActivationsAssumption
<1>0. TypeOK'
  BY JobStepTyped
<1>1. CASE ReadLinks(j)
  <2>1. /\ \A k \in Job : k # j => job'[k] = job[k]
        /\ job'[j].pc \in {"hold", "check"} /\ job[j].pc = "plan"
        /\ UNCHANGED <<record, tlock, rlock>>
    BY <1>1, Gone DEF ReadLinks, PCs, BeginPCs, TypeOK
  <2> QED BY <1>0, <2>1 DEF Locks, GaveBack, Unlocked, RecordPCs, TargetPCs, FinishPCs, BeginPCs, Ended, TypeOK
<1>2. CASE Retry(j)
  <2>1. /\ \A k \in Job : k # j => job'[k] = job[k]
        /\ job'[j].pc = "hold" /\ job[j].pc = "check"
        /\ UNCHANGED <<record, tlock, rlock>>
    BY <1>2, Gone DEF Retry, PCs, BeginPCs, TypeOK
  <2> QED BY <1>0, <2>1 DEF Locks, GaveBack, Unlocked, RecordPCs, TargetPCs, FinishPCs, BeginPCs, Ended, TypeOK
<1>3. CASE Unchanged(j)
  <2>1. /\ \A k \in Job : k # j => job'[k] = job[k]
        /\ job'[j].pc = "unchanged" /\ job[j].pc = "check" /\ GaveBack(j)
        /\ UNCHANGED <<record, rlock>>
    BY <1>3, EndedAs DEF Unchanged, Ended, GaveBack
  <2> QED BY <1>0, <2>1 DEF Locks, GaveBack, Unlocked, RecordPCs, TargetPCs, FinishPCs, BeginPCs, Ended, TypeOK
<1>4. CASE Hold(j)
  <2>1. /\ \A k \in Job : k # j => job'[k] = job[k]
        /\ job'[j].pc = "beginRead" /\ job[j].pc = "hold"
        /\ tlock[Target[j]] = Nobody /\ tlock' = [tlock EXCEPT ![Target[j]] = j]
        /\ UNCHANGED <<record, rlock>>
    BY <1>4, Gone DEF Hold, PCs, BeginPCs, TypeOK
  <2> QED BY <1>0, <2>1 DEF Locks, GaveBack, Unlocked, RecordPCs, TargetPCs, FinishPCs, BeginPCs, Ended, TypeOK
<1>5. CASE BeginRead(j)
  <2>1. /\ \A k \in Job : k # j => job'[k] = job[k]
        /\ job'[j].pc = "beginSave" /\ job[j].pc = "beginRead" /\ job'[j].copy = record
        /\ rlock = Nobody /\ rlock' = j /\ UNCHANGED <<record, tlock>>
    BY <1>5, Moved DEF BeginRead, LockAndRead, PCs, BeginPCs, TypeOK
  <2> QED BY <1>0, <2>1 DEF Locks, GaveBack, Unlocked, RecordPCs, TargetPCs, FinishPCs, BeginPCs, Ended, TypeOK
<1>6. CASE FinishRead(j)
  <2>1. /\ \A k \in Job : k # j => job'[k] = job[k]
        /\ job'[j].pc = "finishSave" /\ job[j].pc = "finishRead" /\ job'[j].copy = record
        /\ rlock = Nobody /\ rlock' = j /\ UNCHANGED <<record, tlock>>
    BY <1>6, Moved DEF FinishRead, LockAndRead, PCs, FinishPCs, TypeOK
  <2> QED BY <1>0, <2>1 DEF Locks, GaveBack, Unlocked, RecordPCs, TargetPCs, FinishPCs, BeginPCs, Ended, TypeOK
<1>7. CASE BeginListed(j)
  <2>1. /\ \A k \in Job : k # j => job'[k] = job[k]
        /\ job'[j].pc = "active" /\ job[j].pc = "beginSave"
        /\ rlock' = Nobody /\ UNCHANGED <<record, tlock>>
    BY <1>7, Gone DEF BeginListed, Activate, PCs, TypeOK
  <2> QED BY <1>0, <2>1 DEF Locks, GaveBack, Unlocked, RecordPCs, TargetPCs, FinishPCs, BeginPCs, Ended, TypeOK
<1>8. CASE BeginSave(j)
  <2>1. /\ \A k \in Job : k # j => job'[k] = job[k]
        /\ job'[j].pc = "beginSync" /\ job[j].pc = "beginSave" /\ UNCHANGED <<tlock, rlock>>
    BY <1>8, Gone DEF BeginSave, PCs, BeginPCs, TypeOK
  <2> QED BY <1>0, <2>1 DEF Locks, GaveBack, Unlocked, RecordPCs, TargetPCs, FinishPCs, BeginPCs, Ended, TypeOK
<1>9. CASE BeginSync(j)
  <2>1. /\ \A k \in Job : k # j => job'[k] = job[k]
        /\ job'[j].pc = "active" /\ job[j].pc = "beginSync"
        /\ rlock' = Nobody /\ UNCHANGED <<record, tlock>>
    BY <1>9, Gone DEF BeginSync, Activate, PCs, TypeOK
  <2> QED BY <1>0, <2>1 DEF Locks, GaveBack, Unlocked, RecordPCs, TargetPCs, FinishPCs, BeginPCs, Ended, TypeOK
<1>10. CASE BeginFails(j)
  <2>1. /\ \A k \in Job : k # j => job'[k] = job[k]
        /\ job'[j].pc = "done" /\ GaveBack(j) /\ Unlocked(j) /\ UNCHANGED record
    BY <1>10, EndedAs, Left DEF BeginFails, End, Ended, GaveBack, Unlocked
  <2> QED BY <1>0, <2>1 DEF Locks, GaveBack, Unlocked, RecordPCs, TargetPCs, FinishPCs, BeginPCs, Ended, TypeOK
<1>11. CASE Succeed(j)
  <2>1. /\ \A k \in Job : k # j => job'[k] = job[k]
        /\ job[j].pc = "active" /\ UNCHANGED <<record, rlock>>
        /\ \/ job'[j].pc = "done" /\ GaveBack(j)
           \/ job'[j].pc = "finishRead" /\ UNCHANGED tlock
    BY <1>11, Gone, EndedAs DEF Succeed, End, Ended, PCs, FinishPCs, TypeOK, GaveBack
  <2> QED BY <1>0, <2>1 DEF Locks, GaveBack, Unlocked, RecordPCs, TargetPCs, FinishPCs, BeginPCs, Ended, TypeOK
<1>12. CASE Fail(j)
  <2>1. /\ \A k \in Job : k # j => job'[k] = job[k]
        /\ job'[j].pc = "done" /\ job[j].pc = "active" /\ GaveBack(j)
        /\ UNCHANGED <<record, rlock>>
    BY <1>12, EndedAs DEF Fail, End, Ended, GaveBack
  <2> QED BY <1>0, <2>1 DEF Locks, GaveBack, Unlocked, RecordPCs, TargetPCs, FinishPCs, BeginPCs, Ended, TypeOK
<1>13. CASE FinishSync(j)
  <2>1. /\ \A k \in Job : k # j => job'[k] = job[k]
        /\ job'[j].pc = "done" /\ job[j].pc = "finishSync" /\ GaveBack(j)
        /\ rlock' = Nobody /\ UNCHANGED record
    BY <1>13, EndedAs DEF FinishSync, End, Ended, GaveBack
  <2> QED BY <1>0, <2>1 DEF Locks, GaveBack, Unlocked, RecordPCs, TargetPCs, FinishPCs, BeginPCs, Ended, TypeOK
<1>14. CASE FinishKeeps(j)
  <2>1. /\ \A k \in Job : k # j => job'[k] = job[k]
        /\ job'[j].pc = "done" /\ GaveBack(j) /\ Unlocked(j) /\ UNCHANGED record
    BY <1>14, EndedAs, Left DEF FinishKeeps, End, Ended, GaveBack, Unlocked
  <2> QED BY <1>0, <2>1 DEF Locks, GaveBack, Unlocked, RecordPCs, TargetPCs, FinishPCs, BeginPCs, Ended, TypeOK
<1>15. CASE Kill(j)
  <2>1. /\ \A k \in Job : k # j => job'[k] = job[k]
        /\ job'[j].pc = "done" /\ GaveBack(j) /\ Unlocked(j) /\ UNCHANGED record
    BY <1>15, EndedAs, Left DEF Kill, End, Ended, GaveBack, Unlocked
  <2> QED BY <1>0, <2>1 DEF Locks, GaveBack, Unlocked, RecordPCs, TargetPCs, FinishPCs, BeginPCs, Ended, TypeOK
<1>16. CASE NewRun(j)
  <2>1. /\ \A k \in Job : k # j => job'[k] = job[k]
        /\ job'[j].pc = "plan" /\ job[j].pc \in Ended /\ UNCHANGED <<record, tlock, rlock>>
    BY <1>16 DEF NewRun, NewJob, TypeOK
  <2> QED BY <1>0, <2>1 DEF Locks, GaveBack, Unlocked, RecordPCs, TargetPCs, FinishPCs, BeginPCs, Ended, TypeOK
<1>17. CASE FinishSave(j)
  <2>1. CASE job[j].copy[Target[j]] = {}
    <3>1. /\ \A k \in Job : k # j => job'[k] = job[k]
          /\ job'[j].pc = "done" /\ job[j].pc = "finishSave" /\ GaveBack(j)
          /\ rlock' = Nobody /\ UNCHANGED record
      BY <1>17, <2>1, EndedAs DEF FinishSave, End, Ended, GaveBack
    <3> QED BY <1>0, <3>1 DEF Locks, GaveBack, RecordPCs, TargetPCs, FinishPCs
  <2>2. CASE job[j].copy[Target[j]] # {}
    <3>1. /\ \A k \in Job : k # j => job'[k] = job[k]
          /\ job'[j].pc = "finishSync" /\ job[j].pc = "finishSave" /\ UNCHANGED <<tlock, rlock>>
      BY <1>17, <2>2, Gone DEF FinishSave, PCs, FinishPCs, TypeOK
    <3> QED BY <3>1 DEF Locks, RecordPCs, TargetPCs, FinishPCs
  <2> QED BY <2>1, <2>2
<1> QED BY <1>1, <1>2, <1>3, <1>4, <1>5, <1>6, <1>7, <1>8, <1>9, <1>10, <1>11, <1>12, <1>13, <1>14, <1>15, <1>16, <1>17 DEF JobStep

(* No lock is held before the first run. *)
LEMMA LocksInit == Init => Locks
<1> SUFFICES ASSUME Init PROVE Locks
  OBVIOUS
<1>1. \A j \in Job : job[j].pc = "plan"
  <2> TAKE j \in Job
  <2>1. PICK g \in Gen : job[j] = NewJob(g)
    BY DEF Init
  <2> QED BY <2>1 DEF NewJob
<1> QED BY <1>1, TargetTyped, FailedActivationsAssumption DEF Init, Locks, RecordPCs, TargetPCs, FinishPCs

(* A power loss frees every lock. *)
LEMMA LocksPowerLoss == ASSUME PowerLoss PROVE Locks'
<1>1. /\ \A j \in Job : job'[j].pc = "done"
      /\ \A t \in Targets : tlock'[t] = Nobody
      /\ rlock' = Nobody
  BY DEF PowerLoss, NewJob
<1> QED BY <1>1, TargetTyped, FailedActivationsAssumption DEF Locks, RecordPCs, TargetPCs, FinishPCs

(* Every step keeps the locks in order. *)
LEMMA LocksNext == ASSUME TypeOK, Locks, [Next]_vars PROVE Locks'
<1>1. ASSUME NEW j \in Job, HostStep(j) PROVE Locks'
  BY <1>1 DEF HostStep, SetLinks, Through, Locks
<1>2. CASE UNCHANGED vars
  BY <1>2 DEF vars, Locks
<1> QED BY <1>1, <1>2, LocksKept, LocksPowerLoss DEF Next

(* The locks are held so under all faults. *)
LEMMA LocksInvariant == Spec => [](TypeOK /\ Locks)
<1>1. TypeOK /\ Locks /\ [Next]_vars => (TypeOK /\ Locks)'
  BY StepTyped, LocksNext
<1> QED BY InitTyped, LocksInit, <1>1, PTL DEF Spec

\* Work goes on only where its job waits for it, and is recorded from the
\* rename on.
Flying ==
    \A j \in Job :
        /\ flight[j] => At(j, "active")
        /\ job[j].pc \in {"beginSync", "active"} => job[j].gen \in record[Target[j]]

(* A step of a job that takes no entry away and leaves its own in order. *)
LEMMA FlyingOf ==
    ASSUME TypeOK, Flying, NEW j \in Job,
           \A k \in Job : k # j => job'[k] = job[k] /\ flight'[k] = flight[k],
           \A t \in Targets : record[t] \subseteq record'[t],
           flight'[j] => job'[j].pc = "active",
           job'[j].pc \in {"beginSync", "active"} => job'[j].gen \in record'[Target[j]]
    PROVE  Flying'
BY TargetTyped DEF Flying

(* As long as work ends with its command, each step of a job keeps it so:     *)
(* whoever clears a target's entries holds its lock.                          *)
LEMMA FlyingKept ==
    ASSUME TypeOK, Locks, Flying, "orphan" \notin Faults, NEW j \in Job, JobStep(j)
    PROVE  Flying'
<1> USE TargetTyped
<1>1. CASE ReadLinks(j)
  <2>1. /\ \A k \in Job : k # j => job'[k] = job[k]
        /\ job'[j].pc \in {"hold", "check"} /\ job[j].pc = "plan"
        /\ UNCHANGED <<record, flight>>
    BY <1>1, Gone DEF ReadLinks, PCs, BeginPCs, TypeOK, host
  <2>2. ~flight[j]
    BY <2>1 DEF Flying, BeginPCs, FinishPCs
  <2> QED BY <2>1, <2>2, FlyingOf
<1>2. CASE Retry(j)
  <2>1. /\ \A k \in Job : k # j => job'[k] = job[k]
        /\ job'[j].pc = "hold" /\ job[j].pc = "check"
        /\ UNCHANGED <<record, flight>>
    BY <1>2, Gone DEF Retry, PCs, BeginPCs, TypeOK, host
  <2>2. ~flight[j]
    BY <2>1 DEF Flying, BeginPCs, FinishPCs
  <2> QED BY <2>1, <2>2, FlyingOf
<1>3. CASE Unchanged(j)
  <2>1. /\ \A k \in Job : k # j => job'[k] = job[k]
        /\ job'[j].pc = "unchanged" /\ job[j].pc = "check"
        /\ UNCHANGED <<record, flight>>
    BY <1>3, EndedAs DEF Unchanged, Ended, host
  <2>2. ~flight[j]
    BY <2>1 DEF Flying, BeginPCs, FinishPCs
  <2> QED BY <2>1, <2>2, FlyingOf
<1>4. CASE Hold(j)
  <2>1. /\ \A k \in Job : k # j => job'[k] = job[k]
        /\ job'[j].pc = "beginRead" /\ job[j].pc = "hold"
        /\ UNCHANGED <<record, flight>>
    BY <1>4, Gone DEF Hold, PCs, BeginPCs, TypeOK, host
  <2>2. ~flight[j]
    BY <2>1 DEF Flying, BeginPCs, FinishPCs
  <2> QED BY <2>1, <2>2, FlyingOf
<1>5. CASE BeginRead(j)
  <2>1. /\ \A k \in Job : k # j => job'[k] = job[k]
        /\ job'[j].pc = "beginSave" /\ job[j].pc = "beginRead"
        /\ UNCHANGED <<record, flight>>
    BY <1>5, Moved DEF BeginRead, LockAndRead, PCs, BeginPCs, TypeOK, host
  <2>2. ~flight[j]
    BY <2>1 DEF Flying, BeginPCs, FinishPCs
  <2> QED BY <2>1, <2>2, FlyingOf
<1>6. CASE FinishRead(j)
  <2>1. /\ \A k \in Job : k # j => job'[k] = job[k]
        /\ job'[j].pc = "finishSave" /\ job[j].pc = "finishRead"
        /\ UNCHANGED <<record, flight>>
    BY <1>6, Moved DEF FinishRead, LockAndRead, PCs, FinishPCs, TypeOK, host
  <2>2. ~flight[j]
    BY <2>1 DEF Flying, BeginPCs, FinishPCs
  <2> QED BY <2>1, <2>2, FlyingOf
<1>7. CASE BeginFails(j)
  <2>1. /\ \A k \in Job : k # j => job'[k] = job[k]
        /\ job'[j].pc = "done" /\ job[j].pc \in BeginPCs
        /\ UNCHANGED <<record, flight>>
    BY <1>7, EndedAs DEF BeginFails, End, Ended, host
  <2>2. ~flight[j]
    BY <2>1 DEF Flying, BeginPCs, FinishPCs
  <2> QED BY <2>1, <2>2, FlyingOf
<1>8. CASE FinishSync(j)
  <2>1. /\ \A k \in Job : k # j => job'[k] = job[k]
        /\ job'[j].pc = "done" /\ job[j].pc = "finishSync"
        /\ UNCHANGED <<record, flight>>
    BY <1>8, EndedAs DEF FinishSync, End, Ended, host
  <2>2. ~flight[j]
    BY <2>1 DEF Flying, BeginPCs, FinishPCs
  <2> QED BY <2>1, <2>2, FlyingOf
<1>9. CASE FinishKeeps(j)
  <2>1. /\ \A k \in Job : k # j => job'[k] = job[k]
        /\ job'[j].pc = "done" /\ job[j].pc \in FinishPCs
        /\ UNCHANGED <<record, flight>>
    BY <1>9, EndedAs DEF FinishKeeps, End, Ended, host
  <2>2. ~flight[j]
    BY <2>1 DEF Flying, BeginPCs, FinishPCs
  <2> QED BY <2>1, <2>2, FlyingOf
<1>10. CASE BeginListed(j)
  <2>1. /\ \A k \in Job : k # j => job'[k] = job[k] /\ flight'[k] = flight[k]
        /\ job'[j].pc = "active" /\ job'[j].gen = job[j].gen /\ record' = record
    BY <1>10, Gone DEF BeginListed, Activate, PCs, TypeOK
  <2>2. job[j].gen \in record[Target[j]]
    BY <1>10 DEF BeginListed, Listed, Locks
  <2> QED BY <2>1, <2>2, FlyingOf
<1>11. CASE BeginSync(j)
  <2>1. /\ \A k \in Job : k # j => job'[k] = job[k] /\ flight'[k] = flight[k]
        /\ job'[j].pc = "active" /\ job'[j].gen = job[j].gen /\ record' = record
    BY <1>11, Gone DEF BeginSync, Activate, PCs, TypeOK
  <2>2. job[j].gen \in record[Target[j]]
    BY <1>11 DEF BeginSync, Flying
  <2> QED BY <2>1, <2>2, FlyingOf
<1>12. CASE BeginSave(j)
  <2>1. /\ \A k \in Job : k # j => job'[k] = job[k]
        /\ job'[j].pc = "beginSync" /\ job'[j].gen = job[j].gen /\ flight' = flight /\ ~flight[j]
    BY <1>12, Gone DEF BeginSave, PCs, BeginPCs, TypeOK, host, Flying
  <2>2. job[j].copy = record
    BY <1>12 DEF BeginSave, Locks
  <2>3. /\ \A t \in Targets : record[t] \subseteq record'[t]
        /\ job[j].gen \in record'[Target[j]]
    BY <1>12, <2>2 DEF BeginSave, Added, TypeOK, Entries
  <2> QED BY <2>1, <2>3, FlyingOf
<1>13. CASE Succeed(j)
  <2>1. /\ \A k \in Job : k # j => job'[k] = job[k] /\ flight'[k] = flight[k]
        /\ job'[j].pc \in {"done", "finishRead"} /\ ~flight'[j] /\ record' = record
    BY <1>13, Gone, EndedAs DEF Succeed, End, Ended, PCs, FinishPCs, TypeOK
  <2> QED BY <2>1, FlyingOf
<1>14. CASE Fail(j)
  <2>1. /\ \A k \in Job : k # j => job'[k] = job[k] /\ flight'[k] = flight[k]
        /\ job'[j].pc = "done" /\ ~flight'[j] /\ record' = record
    BY <1>14, EndedAs DEF Fail, End, Ended, TypeOK
  <2> QED BY <2>1, FlyingOf
<1>15. CASE Kill(j)
  <2>1. /\ \A k \in Job : k # j => job'[k] = job[k]
        /\ job'[j].pc = "done" /\ ~flight[j] /\ UNCHANGED <<record, flight>>
    BY <1>15, EndedAs DEF Kill, End, Ended, host
  <2> QED BY <2>1, FlyingOf
<1>16. CASE NewRun(j)
  <2>1. /\ \A k \in Job : k # j => job'[k] = job[k] /\ flight'[k] = flight[k]
        /\ job'[j].pc = "plan" /\ ~flight'[j] /\ record' = record
    BY <1>16 DEF NewRun, NewJob, TypeOK
  <2> QED BY <2>1, FlyingOf
<1>17. CASE FinishSave(j)
  <2>1. /\ \A k \in Job : k # j => job'[k] = job[k]
        /\ job'[j].pc \in {"done", "finishSync"} /\ flight' = flight /\ ~flight[j]
    <3>1. CASE job[j].copy[Target[j]] = {}
      BY <1>17, <3>1, EndedAs DEF FinishSave, End, Ended, host, Flying
    <3>2. CASE job[j].copy[Target[j]] # {}
      BY <1>17, <3>2, Gone DEF FinishSave, PCs, FinishPCs, TypeOK, host, Flying
    <3> QED BY <3>1, <3>2
  <2>2. job[j].copy = record /\ tlock[Target[j]] = j
    BY <1>17 DEF FinishSave, Locks, TargetPCs, FinishPCs
  <2>3. \A t \in Targets : t # Target[j] => record'[t] = record[t]
    BY <1>17, <2>2 DEF FinishSave, Cleared, TypeOK, Entries
  <2>4. \A k \in Job : k # j /\ job[k].pc \in {"beginSync", "active"} => Target[k] # Target[j]
    BY <2>2 DEF Locks, TargetPCs
  <2> QED BY <2>1, <2>3, <2>4 DEF Flying
<1> QED BY <1>1, <1>2, <1>3, <1>4, <1>5, <1>6, <1>7, <1>8, <1>9, <1>10, <1>11, <1>12, <1>13, <1>14, <1>15, <1>16, <1>17 DEF JobStep

(* Every step keeps work where its job waits for it. *)
LEMMA FlyingNext ==
    ASSUME TypeOK, Locks, Flying, "orphan" \notin Faults, [Next]_vars
    PROVE  Flying'
<1>1. ASSUME NEW j \in Job, HostStep(j) PROVE Flying'
  BY <1>1 DEF HostStep, SetLinks, Through, Flying
<1>2. CASE PowerLoss
  <2>1. \A j \in Job : job'[j].pc = "done" /\ ~flight'[j]
    BY <1>2 DEF PowerLoss, NewJob
  <2> QED BY <2>1 DEF Flying
<1>3. CASE UNCHANGED vars
  BY <1>3 DEF vars, Flying
<1> QED BY <1>1, <1>2, <1>3, FlyingKept DEF Next

(* It holds whatever was not synced when a run ended. *)
LEMMA FlyingInvariant ==
    ASSUME "orphan" \notin Faults
    PROVE  Spec => [](TypeOK /\ Locks /\ Flying)
<1>1. Init => Flying
  <2> SUFFICES ASSUME Init PROVE Flying
    OBVIOUS
  <2>1. \A j \in Job : job[j].pc = "plan" /\ ~flight[j]
    <3> TAKE j \in Job
    <3>1. PICK g \in Gen : job[j] = NewJob(g)
      BY DEF Init
    <3> QED BY <3>1 DEF NewJob, Init
  <2> QED BY <2>1 DEF Flying
<1>2. TypeOK /\ Locks /\ Flying /\ [Next]_vars => (TypeOK /\ Locks /\ Flying)'
  BY StepTyped, LocksNext, FlyingNext
<1> QED BY InitTyped, LocksInit, <1>1, <1>2, PTL DEF Spec

-----------------------------------------------------------------------------
(* The inductive invariant *)

(* Before the first run every host is whole and nothing is recorded. *)
LEMMA InitInvariant == Init => IInv
<1> SUFFICES ASSUME Init PROVE IInv
  OBVIOUS
<1>1. TypeOK
  BY InitTyped
<1>2. \A j \in Job : job[j].pc = "plan"
  <2> TAKE j \in Job
  <2>1. PICK g \in Gen : job[j] = NewJob(g)
    BY DEF Init
  <2> QED BY <2>1 DEF NewJob
<1>3. Locks
  BY LocksInit
<1>4. Progress
  <2>1. \A j \in Job : ~flight[j]
    BY DEF Init
  <2> QED BY <1>2, <2>1 DEF Progress, FinishPCs
<1>5. Durable /\ HalfIsDurable
  BY DEF Init, Durable, HalfIsDurable
<1> QED BY <1>1, <1>3, <1>4, <1>5 DEF IInv

(* Planning reads only. *)
LEMMA ReadLinksKeeps ==
    ASSUME IInv, "orphan" \notin Faults, "unsynced" \notin Faults, NEW j \in Job, ReadLinks(j)
    PROVE  IInv'
<1>1. TypeOK /\ TypeOK'
  BY JobStepTyped DEF IInv, JobStep
<1>2. /\ job'[j].gen = job[j].gen
      /\ \A k \in Job : k # j => job'[k] = job[k]
      /\ job[j].pc = "plan" /\ job'[j].pc \in {"hold", "check"}
      /\ UNCHANGED <<tlock, rlock>>
      /\ UNCHANGED <<record, disk, link, whole, flight>>
  BY <1>1, Gone, TargetTyped DEF ReadLinks, host, PCs, BeginPCs, TypeOK
<1>3. Locks'
  BY LocksKept DEF IInv, JobStep
<1>4. Progress'
  BY <1>1, <1>2, TargetTyped, FailedActivationsAssumption DEF IInv, Locks, Progress, RecordPCs, TargetPCs, FinishPCs, BeginPCs, Ended, Entries, TypeOK
<1>5. Durable'
  BY <1>1, <1>2, TargetTyped, FailedActivationsAssumption DEF IInv, Locks, Durable, Progress, RecordPCs, TargetPCs, FinishPCs, BeginPCs, Ended, Entries, TypeOK
<1>6. HalfIsDurable'
  BY <1>1, <1>2, TargetTyped, FailedActivationsAssumption DEF IInv, Locks, Progress, Durable, HalfIsDurable, RecordPCs, TargetPCs, FinishPCs, BeginPCs, Ended, Entries, TypeOK
<1> QED BY <1>1, <1>3, <1>4, <1>5, <1>6 DEF IInv

(* A plan that ends takes nothing from anybody. *)
LEMMA UnchangedKeeps ==
    ASSUME IInv, "orphan" \notin Faults, "unsynced" \notin Faults, NEW j \in Job, Unchanged(j)
    PROVE  IInv'
<1>1. TypeOK /\ TypeOK'
  BY JobStepTyped DEF IInv, JobStep
<1>2. /\ job'[j].gen = job[j].gen
      /\ \A k \in Job : k # j => job'[k] = job[k]
      /\ job[j].pc = "check" /\ job'[j].pc = "unchanged"
      /\ tlock'[Target[j]] # j
      /\ \A k \in Job : k # j => (tlock'[Target[k]] = k <=> tlock[Target[k]] = k)
      /\ UNCHANGED rlock
      /\ UNCHANGED <<record, disk, link, whole, flight>>
  BY <1>1, EndedAs, TargetTyped DEF Unchanged, host, Ended
<1>3. Locks'
  BY LocksKept DEF IInv, JobStep
<1>4. Progress'
  BY <1>1, <1>2, TargetTyped, FailedActivationsAssumption DEF IInv, Locks, Progress, RecordPCs, TargetPCs, FinishPCs, BeginPCs, Ended, Entries, TypeOK
<1>5. Durable'
  BY <1>1, <1>2, TargetTyped, FailedActivationsAssumption DEF IInv, Locks, Durable, Progress, RecordPCs, TargetPCs, FinishPCs, BeginPCs, Ended, Entries, TypeOK
<1>6. HalfIsDurable'
  BY <1>1, <1>2, TargetTyped, FailedActivationsAssumption DEF IInv, Locks, Progress, Durable, HalfIsDurable, RecordPCs, TargetPCs, FinishPCs, BeginPCs, Ended, Entries, TypeOK
<1> QED BY <1>1, <1>3, <1>4, <1>5, <1>6 DEF IInv

(* A retry only moves on. *)
LEMMA RetryKeeps ==
    ASSUME IInv, "orphan" \notin Faults, "unsynced" \notin Faults, NEW j \in Job, Retry(j)
    PROVE  IInv'
<1>1. TypeOK /\ TypeOK'
  BY JobStepTyped DEF IInv, JobStep
<1>2. /\ job'[j].gen = job[j].gen
      /\ \A k \in Job : k # j => job'[k] = job[k]
      /\ job[j].pc = "check" /\ job'[j].pc = "hold"
      /\ UNCHANGED <<tlock, rlock>>
      /\ UNCHANGED <<record, disk, link, whole, flight>>
  BY <1>1, Gone, TargetTyped DEF Retry, host, PCs, BeginPCs, TypeOK
<1>3. Locks'
  BY LocksKept DEF IInv, JobStep
<1>4. Progress'
  BY <1>1, <1>2, TargetTyped, FailedActivationsAssumption DEF IInv, Locks, Progress, RecordPCs, TargetPCs, FinishPCs, BeginPCs, Ended, Entries, TypeOK
<1>5. Durable'
  BY <1>1, <1>2, TargetTyped, FailedActivationsAssumption DEF IInv, Locks, Durable, Progress, RecordPCs, TargetPCs, FinishPCs, BeginPCs, Ended, Entries, TypeOK
<1>6. HalfIsDurable'
  BY <1>1, <1>2, TargetTyped, FailedActivationsAssumption DEF IInv, Locks, Progress, Durable, HalfIsDurable, RecordPCs, TargetPCs, FinishPCs, BeginPCs, Ended, Entries, TypeOK
<1> QED BY <1>1, <1>3, <1>4, <1>5, <1>6 DEF IInv

(* A job takes a lock that nobody holds. *)
LEMMA HoldKeeps ==
    ASSUME IInv, "orphan" \notin Faults, "unsynced" \notin Faults, NEW j \in Job, Hold(j)
    PROVE  IInv'
<1>1. TypeOK /\ TypeOK'
  BY JobStepTyped DEF IInv, JobStep
<1>2. /\ job'[j].gen = job[j].gen
      /\ \A k \in Job : k # j => job'[k] = job[k]
      /\ job[j].pc = "hold" /\ job'[j].pc = "beginRead"
      /\ tlock[Target[j]] = Nobody /\ tlock' = [tlock EXCEPT ![Target[j]] = j]
      /\ UNCHANGED rlock
      /\ UNCHANGED <<record, disk, link, whole, flight>>
  BY <1>1, Gone, TargetTyped DEF Hold, host, PCs, BeginPCs, TypeOK
<1>3. Locks'
  BY LocksKept DEF IInv, JobStep
<1>4. Progress'
  BY <1>1, <1>2, TargetTyped, FailedActivationsAssumption DEF IInv, Locks, Progress, RecordPCs, TargetPCs, FinishPCs, BeginPCs, Ended, Entries, TypeOK
<1>5. Durable'
  BY <1>1, <1>2, TargetTyped, FailedActivationsAssumption DEF IInv, Locks, Durable, Progress, RecordPCs, TargetPCs, FinishPCs, BeginPCs, Ended, Entries, TypeOK
<1>6. HalfIsDurable'
  BY <1>1, <1>2, TargetTyped, FailedActivationsAssumption DEF IInv, Locks, Progress, Durable, HalfIsDurable, RecordPCs, TargetPCs, FinishPCs, BeginPCs, Ended, Entries, TypeOK
<1> QED BY <1>1, <1>3, <1>4, <1>5, <1>6 DEF IInv

(* What is read under the record's lock is the record. *)
LEMMA BeginReadKeeps ==
    ASSUME IInv, "orphan" \notin Faults, "unsynced" \notin Faults, NEW j \in Job, BeginRead(j)
    PROVE  IInv'
<1>1. TypeOK /\ TypeOK'
  BY JobStepTyped DEF IInv, JobStep
<1>2. /\ job'[j].gen = job[j].gen
      /\ \A k \in Job : k # j => job'[k] = job[k]
      /\ job[j].pc = "beginRead" /\ job'[j].pc = "beginSave" /\ job'[j].copy = record
      /\ rlock = Nobody /\ rlock' = j
      /\ UNCHANGED tlock
      /\ UNCHANGED <<record, disk, link, whole, flight>>
  BY <1>1, Moved, TargetTyped DEF BeginRead, LockAndRead, host, PCs, BeginPCs, TypeOK
<1>3. Locks'
  BY LocksKept DEF IInv, JobStep
<1>4. Progress'
  BY <1>1, <1>2, TargetTyped, FailedActivationsAssumption DEF IInv, Locks, Progress, RecordPCs, TargetPCs, FinishPCs, BeginPCs, Ended, Entries, TypeOK
<1>5. Durable'
  BY <1>1, <1>2, TargetTyped, FailedActivationsAssumption DEF IInv, Locks, Durable, Progress, RecordPCs, TargetPCs, FinishPCs, BeginPCs, Ended, Entries, TypeOK
<1>6. HalfIsDurable'
  BY <1>1, <1>2, TargetTyped, FailedActivationsAssumption DEF IInv, Locks, Progress, Durable, HalfIsDurable, RecordPCs, TargetPCs, FinishPCs, BeginPCs, Ended, Entries, TypeOK
<1> QED BY <1>1, <1>3, <1>4, <1>5, <1>6 DEF IInv

(* An entry that is listed is on disk too, since no other change is waiting for its sync. *)
LEMMA BeginListedKeeps ==
    ASSUME IInv, "orphan" \notin Faults, "unsynced" \notin Faults, NEW j \in Job, BeginListed(j)
    PROVE  IInv'
<1>1. TypeOK /\ TypeOK'
  BY JobStepTyped DEF IInv, JobStep
<1>2. /\ job'[j].gen = job[j].gen
      /\ \A k \in Job : k # j => job'[k] = job[k]
      /\ job[j].pc = "beginSave" /\ job'[j].pc = "active"
      /\ job[j].gen \in job[j].copy[Target[j]]
      /\ rlock' = Nobody
      /\ \A k \in Job : k # j => flight'[k] = flight[k]
      /\ UNCHANGED <<record, disk, tlock, link, whole>>
  BY <1>1, Gone, TargetTyped DEF BeginListed, Listed, Activate, PCs, TypeOK
<1>3. Locks'
  BY LocksKept DEF IInv, JobStep
<1>4. Progress'
  BY <1>1, <1>2, TargetTyped, FailedActivationsAssumption DEF IInv, Locks, Progress, Durable, RecordPCs, TargetPCs, FinishPCs, BeginPCs, Ended, Entries, TypeOK
<1>5. Durable'
  BY <1>1, <1>2, TargetTyped, FailedActivationsAssumption DEF IInv, Locks, Durable, Progress, RecordPCs, TargetPCs, FinishPCs, BeginPCs, Ended, Entries, TypeOK
<1>6. HalfIsDurable'
  BY <1>1, <1>2, TargetTyped, FailedActivationsAssumption DEF IInv, Locks, Progress, Durable, HalfIsDurable, RecordPCs, TargetPCs, FinishPCs, BeginPCs, Ended, Entries, TypeOK
<1> QED BY <1>1, <1>3, <1>4, <1>5, <1>6 DEF IInv

(* The change that begin makes is the only one that waits for its sync. *)
LEMMA BeginSaveKeeps ==
    ASSUME IInv, "orphan" \notin Faults, "unsynced" \notin Faults, NEW j \in Job, BeginSave(j)
    PROVE  IInv'
<1>1. TypeOK /\ TypeOK'
  BY JobStepTyped DEF IInv, JobStep
<1>2. /\ job'[j].gen = job[j].gen
      /\ \A k \in Job : k # j => job'[k] = job[k]
      /\ job[j].pc = "beginSave" /\ job'[j].pc = "beginSync"
      /\ record' = [job[j].copy EXCEPT ![Target[j]] = @ \cup {job[j].gen}]
      /\ UNCHANGED <<disk, tlock, rlock, link, whole, flight>>
  BY <1>1, Gone, TargetTyped DEF BeginSave, Added, host, PCs, BeginPCs, TypeOK
<1>3. Locks'
  BY LocksKept DEF IInv, JobStep
<1>4. Progress'
  BY <1>1, <1>2, TargetTyped, FailedActivationsAssumption DEF IInv, Locks, Progress, Durable, RecordPCs, TargetPCs, FinishPCs, BeginPCs, Ended, Entries, TypeOK
<1>5. Durable'
  BY <1>1, <1>2, TargetTyped, FailedActivationsAssumption DEF IInv, Locks, Durable, Progress, RecordPCs, TargetPCs, FinishPCs, BeginPCs, Ended, Entries, TypeOK
<1>6. HalfIsDurable'
  BY <1>1, <1>2, TargetTyped, FailedActivationsAssumption DEF IInv, Locks, Progress, Durable, HalfIsDurable, RecordPCs, TargetPCs, FinishPCs, BeginPCs, Ended, Entries, TypeOK
<1> QED BY <1>1, <1>3, <1>4, <1>5, <1>6 DEF IInv

(* The sync puts the entry on disk before the activation. *)
LEMMA BeginSyncKeeps ==
    ASSUME IInv, "orphan" \notin Faults, "unsynced" \notin Faults, NEW j \in Job, BeginSync(j)
    PROVE  IInv'
<1>1. TypeOK /\ TypeOK'
  BY JobStepTyped DEF IInv, JobStep
<1>2. /\ job'[j].gen = job[j].gen
      /\ \A k \in Job : k # j => job'[k] = job[k]
      /\ job[j].pc = "beginSync" /\ job'[j].pc = "active"
      /\ disk' = record /\ rlock' = Nobody
      /\ \A k \in Job : k # j => flight'[k] = flight[k]
      /\ UNCHANGED <<record, tlock, link, whole>>
  BY <1>1, Gone, TargetTyped DEF BeginSync, Activate, PCs, TypeOK
<1>3. Locks'
  BY LocksKept DEF IInv, JobStep
<1>4. Progress'
  BY <1>1, <1>2, TargetTyped, FailedActivationsAssumption DEF IInv, Locks, Progress, RecordPCs, TargetPCs, FinishPCs, BeginPCs, Ended, Entries, TypeOK
<1>5. Durable'
  BY <1>1, <1>2, TargetTyped, FailedActivationsAssumption DEF IInv, Locks, Durable, Progress, RecordPCs, TargetPCs, FinishPCs, BeginPCs, Ended, Entries, TypeOK
<1>6. HalfIsDurable'
  BY <1>1, <1>2, TargetTyped, FailedActivationsAssumption DEF IInv, Locks, Progress, Durable, HalfIsDurable, RecordPCs, TargetPCs, FinishPCs, BeginPCs, Ended, Entries, TypeOK
<1> QED BY <1>1, <1>3, <1>4, <1>5, <1>6 DEF IInv

(* A begin that fails leaves a change it made to the disk, and no activation. *)
LEMMA BeginFailsKeeps ==
    ASSUME IInv, "orphan" \notin Faults, "unsynced" \notin Faults, NEW j \in Job, BeginFails(j)
    PROVE  IInv'
<1>1. TypeOK /\ TypeOK'
  BY JobStepTyped DEF IInv, JobStep
<1>2. /\ job'[j].gen = job[j].gen
      /\ \A k \in Job : k # j => job'[k] = job[k]
      /\ job[j].pc \in BeginPCs /\ job'[j].pc = "done"
      /\ tlock'[Target[j]] # j
      /\ \A k \in Job : k # j => (tlock'[Target[k]] = k <=> tlock[Target[k]] = k)
      /\ rlock' # j /\ \A k \in Job : k # j => (rlock' = k <=> rlock = k)
      /\ disk' = IF rlock = j THEN record ELSE disk
      /\ UNCHANGED <<record, link, whole, flight>>
  BY <1>1, EndedAs, Left, TargetTyped DEF BeginFails, End, host, Ended, Leave
<1>3. Locks'
  BY LocksKept DEF IInv, JobStep
<1>4. Progress'
  BY <1>1, <1>2, TargetTyped, FailedActivationsAssumption DEF IInv, Locks, Progress, RecordPCs, TargetPCs, FinishPCs, BeginPCs, Ended, Entries, TypeOK
<1>5. Durable'
  BY <1>1, <1>2, TargetTyped, FailedActivationsAssumption DEF IInv, Locks, Durable, Progress, RecordPCs, TargetPCs, FinishPCs, BeginPCs, Ended, Entries, TypeOK
<1>6. HalfIsDurable'
  BY <1>1, <1>2, TargetTyped, FailedActivationsAssumption DEF IInv, Locks, Progress, Durable, HalfIsDurable, RecordPCs, TargetPCs, FinishPCs, BeginPCs, Ended, Entries, TypeOK
<1> QED BY <1>1, <1>3, <1>4, <1>5, <1>6 DEF IInv

(* A success leaves the host whole. *)
LEMMA SucceedKeeps ==
    ASSUME IInv, "orphan" \notin Faults, "unsynced" \notin Faults, NEW j \in Job, Succeed(j)
    PROVE  IInv'
<1>1. TypeOK /\ TypeOK'
  BY JobStepTyped DEF IInv, JobStep
<1>2. /\ job'[j].gen = job[j].gen
      /\ \A k \in Job : k # j => job'[k] = job[k]
      /\ job[j].pc = "active" /\ job'[j].pc \in {"finishRead", "done"}
      /\ job'[j].pc = "done" => tlock'[Target[j]] # j
      /\ job'[j].pc = "finishRead" => tlock' = tlock
      /\ \A k \in Job : k # j => (tlock'[Target[k]] = k <=> tlock[Target[k]] = k)
      /\ link[Target[j]] = job[j].gen /\ whole[Target[j]]
      /\ flight'[j] = FALSE
      /\ \A k \in Job : k # j => flight'[k] = flight[k]
      /\ UNCHANGED <<record, disk, rlock, link, whole>>
  BY <1>1, Gone, EndedAs, TargetTyped DEF Succeed, End, Ended, PCs, FinishPCs, TypeOK
<1>3. Locks'
  BY LocksKept DEF IInv, JobStep
<1>4. Progress'
  BY <1>1, <1>2, TargetTyped, FailedActivationsAssumption DEF IInv, Locks, Progress, RecordPCs, TargetPCs, FinishPCs, BeginPCs, Ended, Entries, TypeOK
<1>5. Durable'
  BY <1>1, <1>2, TargetTyped, FailedActivationsAssumption DEF IInv, Locks, Durable, Progress, RecordPCs, TargetPCs, FinishPCs, BeginPCs, Ended, Entries, TypeOK
<1>6. HalfIsDurable'
  BY <1>1, <1>2, TargetTyped, FailedActivationsAssumption DEF IInv, Locks, Progress, Durable, HalfIsDurable, RecordPCs, TargetPCs, FinishPCs, BeginPCs, Ended, Entries, TypeOK
<1> QED BY <1>1, <1>3, <1>4, <1>5, <1>6 DEF IInv

(* Without the fault the work ends with its command. *)
LEMMA FailKeeps ==
    ASSUME IInv, "orphan" \notin Faults, "unsynced" \notin Faults, NEW j \in Job, Fail(j)
    PROVE  IInv'
<1>1. TypeOK /\ TypeOK'
  BY JobStepTyped DEF IInv, JobStep
<1>2. /\ job'[j].gen = job[j].gen
      /\ \A k \in Job : k # j => job'[k] = job[k]
      /\ job[j].pc = "active" /\ job'[j].pc = "done"
      /\ tlock'[Target[j]] # j
      /\ \A k \in Job : k # j => (tlock'[Target[k]] = k <=> tlock[Target[k]] = k)
      /\ flight'[j] = FALSE
      /\ \A k \in Job : k # j => flight'[k] = flight[k]
      /\ UNCHANGED <<record, disk, rlock, link, whole>>
  BY <1>1, EndedAs, TargetTyped DEF Fail, End, Ended, TypeOK
<1>3. Locks'
  BY LocksKept DEF IInv, JobStep
<1>4. Progress'
  BY <1>1, <1>2, TargetTyped, FailedActivationsAssumption DEF IInv, Locks, Progress, RecordPCs, TargetPCs, FinishPCs, BeginPCs, Ended, Entries, TypeOK
<1>5. Durable'
  BY <1>1, <1>2, TargetTyped, FailedActivationsAssumption DEF IInv, Locks, Durable, Progress, RecordPCs, TargetPCs, FinishPCs, BeginPCs, Ended, Entries, TypeOK
<1>6. HalfIsDurable'
  BY <1>1, <1>2, TargetTyped, FailedActivationsAssumption DEF IInv, Locks, Progress, Durable, HalfIsDurable, RecordPCs, TargetPCs, FinishPCs, BeginPCs, Ended, Entries, TypeOK
<1> QED BY <1>1, <1>3, <1>4, <1>5, <1>6 DEF IInv

(* finish reads the record under its lock, too. *)
LEMMA FinishReadKeeps ==
    ASSUME IInv, "orphan" \notin Faults, "unsynced" \notin Faults, NEW j \in Job, FinishRead(j)
    PROVE  IInv'
<1>1. TypeOK /\ TypeOK'
  BY JobStepTyped DEF IInv, JobStep
<1>2. /\ job'[j].gen = job[j].gen
      /\ \A k \in Job : k # j => job'[k] = job[k]
      /\ job[j].pc = "finishRead" /\ job'[j].pc = "finishSave" /\ job'[j].copy = record
      /\ rlock = Nobody /\ rlock' = j
      /\ UNCHANGED tlock
      /\ UNCHANGED <<record, disk, link, whole, flight>>
  BY <1>1, Moved, TargetTyped DEF FinishRead, LockAndRead, host, PCs, FinishPCs, TypeOK
<1>3. Locks'
  BY LocksKept DEF IInv, JobStep
<1>4. Progress'
  BY <1>1, <1>2, TargetTyped, FailedActivationsAssumption DEF IInv, Locks, Progress, RecordPCs, TargetPCs, FinishPCs, BeginPCs, Ended, Entries, TypeOK
<1>5. Durable'
  BY <1>1, <1>2, TargetTyped, FailedActivationsAssumption DEF IInv, Locks, Durable, Progress, RecordPCs, TargetPCs, FinishPCs, BeginPCs, Ended, Entries, TypeOK
<1>6. HalfIsDurable'
  BY <1>1, <1>2, TargetTyped, FailedActivationsAssumption DEF IInv, Locks, Progress, Durable, HalfIsDurable, RecordPCs, TargetPCs, FinishPCs, BeginPCs, Ended, Entries, TypeOK
<1> QED BY <1>1, <1>3, <1>4, <1>5, <1>6 DEF IInv

(* The sync puts the removal on disk. *)
LEMMA FinishSyncKeeps ==
    ASSUME IInv, "orphan" \notin Faults, "unsynced" \notin Faults, NEW j \in Job, FinishSync(j)
    PROVE  IInv'
<1>1. TypeOK /\ TypeOK'
  BY JobStepTyped DEF IInv, JobStep
<1>2. /\ job'[j].gen = job[j].gen
      /\ \A k \in Job : k # j => job'[k] = job[k]
      /\ job[j].pc = "finishSync" /\ job'[j].pc = "done"
      /\ tlock'[Target[j]] # j
      /\ \A k \in Job : k # j => (tlock'[Target[k]] = k <=> tlock[Target[k]] = k)
      /\ disk' = record /\ rlock' = Nobody
      /\ UNCHANGED <<record, link, whole, flight>>
  BY <1>1, EndedAs, TargetTyped DEF FinishSync, End, host, Ended
<1>3. Locks'
  BY LocksKept DEF IInv, JobStep
<1>4. Progress'
  BY <1>1, <1>2, TargetTyped, FailedActivationsAssumption DEF IInv, Locks, Progress, RecordPCs, TargetPCs, FinishPCs, BeginPCs, Ended, Entries, TypeOK
<1>5. Durable'
  BY <1>1, <1>2, TargetTyped, FailedActivationsAssumption DEF IInv, Locks, Durable, Progress, RecordPCs, TargetPCs, FinishPCs, BeginPCs, Ended, Entries, TypeOK
<1>6. HalfIsDurable'
  BY <1>1, <1>2, TargetTyped, FailedActivationsAssumption DEF IInv, Locks, Progress, Durable, HalfIsDurable, RecordPCs, TargetPCs, FinishPCs, BeginPCs, Ended, Entries, TypeOK
<1> QED BY <1>1, <1>3, <1>4, <1>5, <1>6 DEF IInv

(* A finish that fails keeps what is recorded. *)
LEMMA FinishKeepsKeeps ==
    ASSUME IInv, "orphan" \notin Faults, "unsynced" \notin Faults, NEW j \in Job, FinishKeeps(j)
    PROVE  IInv'
<1>1. TypeOK /\ TypeOK'
  BY JobStepTyped DEF IInv, JobStep
<1>2. /\ job'[j].gen = job[j].gen
      /\ \A k \in Job : k # j => job'[k] = job[k]
      /\ job[j].pc \in FinishPCs /\ job'[j].pc = "done"
      /\ tlock'[Target[j]] # j
      /\ \A k \in Job : k # j => (tlock'[Target[k]] = k <=> tlock[Target[k]] = k)
      /\ rlock' # j /\ \A k \in Job : k # j => (rlock' = k <=> rlock = k)
      /\ disk' = IF rlock = j THEN record ELSE disk
      /\ UNCHANGED <<record, link, whole, flight>>
  BY <1>1, EndedAs, Left, TargetTyped DEF FinishKeeps, End, host, Ended, Leave
<1>3. Locks'
  BY LocksKept DEF IInv, JobStep
<1>4. Progress'
  BY <1>1, <1>2, TargetTyped, FailedActivationsAssumption DEF IInv, Locks, Progress, RecordPCs, TargetPCs, FinishPCs, BeginPCs, Ended, Entries, TypeOK
<1>5. Durable'
  BY <1>1, <1>2, TargetTyped, FailedActivationsAssumption DEF IInv, Locks, Durable, Progress, RecordPCs, TargetPCs, FinishPCs, BeginPCs, Ended, Entries, TypeOK
<1>6. HalfIsDurable'
  BY <1>1, <1>2, TargetTyped, FailedActivationsAssumption DEF IInv, Locks, Progress, Durable, HalfIsDurable, RecordPCs, TargetPCs, FinishPCs, BeginPCs, Ended, Entries, TypeOK
<1> QED BY <1>1, <1>3, <1>4, <1>5, <1>6 DEF IInv

(* Without the fault no job is killed while its work goes on. *)
LEMMA KillKeeps ==
    ASSUME IInv, "orphan" \notin Faults, "unsynced" \notin Faults, NEW j \in Job, Kill(j)
    PROVE  IInv'
<1>1. TypeOK /\ TypeOK'
  BY JobStepTyped DEF IInv, JobStep
<1>2. /\ job'[j].gen = job[j].gen
      /\ \A k \in Job : k # j => job'[k] = job[k]
      /\ ~flight[j] /\ job'[j].pc = "done"
      /\ tlock'[Target[j]] # j
      /\ \A k \in Job : k # j => (tlock'[Target[k]] = k <=> tlock[Target[k]] = k)
      /\ rlock' # j /\ \A k \in Job : k # j => (rlock' = k <=> rlock = k)
      /\ disk' = IF rlock = j THEN record ELSE disk
      /\ UNCHANGED <<record, link, whole, flight>>
  BY <1>1, EndedAs, Left, TargetTyped DEF Kill, End, host, Ended, Leave
<1>3. Locks'
  BY LocksKept DEF IInv, JobStep
<1>4. Progress'
  BY <1>1, <1>2, TargetTyped, FailedActivationsAssumption DEF IInv, Locks, Progress, RecordPCs, TargetPCs, FinishPCs, BeginPCs, Ended, Entries, TypeOK
<1>5. Durable'
  BY <1>1, <1>2, TargetTyped, FailedActivationsAssumption DEF IInv, Locks, Durable, Progress, RecordPCs, TargetPCs, FinishPCs, BeginPCs, Ended, Entries, TypeOK
<1>6. HalfIsDurable'
  BY <1>1, <1>2, TargetTyped, FailedActivationsAssumption DEF IInv, Locks, Progress, Durable, HalfIsDurable, RecordPCs, TargetPCs, FinishPCs, BeginPCs, Ended, Entries, TypeOK
<1> QED BY <1>1, <1>3, <1>4, <1>5, <1>6 DEF IInv

(* A new run starts without a lock. *)
LEMMA NewRunKeeps ==
    ASSUME IInv, "orphan" \notin Faults, "unsynced" \notin Faults, NEW j \in Job, NewRun(j)
    PROVE  IInv'
<1>1. TypeOK /\ TypeOK'
  BY JobStepTyped DEF IInv, JobStep
<1>2. /\ job[j].pc \in Ended /\ job'[j].pc = "plan"
      /\ \A k \in Job : k # j => job'[k] = job[k]
      /\ ~flight'[j]
      /\ \A k \in Job : k # j => flight'[k] = flight[k]
      /\ UNCHANGED <<record, disk, tlock, rlock, link, whole>>
  BY <1>1, TargetTyped DEF NewRun, NewJob, TypeOK
<1>3. Locks'
  BY LocksKept DEF IInv, JobStep
<1>4. Progress'
  BY <1>1, <1>2, TargetTyped, FailedActivationsAssumption DEF IInv, Locks, Progress, RecordPCs, TargetPCs, FinishPCs, BeginPCs, Ended, Entries, TypeOK
<1>5. Durable'
  BY <1>1, <1>2, TargetTyped, FailedActivationsAssumption DEF IInv, Locks, Durable, Progress, RecordPCs, TargetPCs, FinishPCs, BeginPCs, Ended, Entries, TypeOK
<1>6. HalfIsDurable'
  BY <1>1, <1>2, TargetTyped, FailedActivationsAssumption DEF IInv, Locks, Progress, Durable, HalfIsDurable, RecordPCs, TargetPCs, FinishPCs, BeginPCs, Ended, Entries, TypeOK
<1> QED BY <1>1, <1>3, <1>4, <1>5, <1>6 DEF IInv

(* The only change that takes entries away, by a job whose target is whole. *)
LEMMA FinishSaveKeeps ==
    ASSUME IInv, NEW j \in Job, FinishSave(j)
    PROVE  IInv'
<1>1. TypeOK /\ TypeOK'
  BY JobStepTyped DEF IInv, JobStep
<1>2. /\ rlock = j /\ job[j].copy = record
      /\ link[Target[j]] = job[j].gen /\ whole[Target[j]]
      /\ job[j].pc = "finishSave"
  BY DEF FinishSave, IInv, Locks, Progress, RecordPCs, FinishPCs
<1>3. \A k \in Job : k # j => job[k].pc \notin RecordPCs
  BY <1>2 DEF IInv, Locks
<1>4. disk = record
  <2>1. \A t \in Targets : disk[t] = record[t]
    BY <1>2, <1>3 DEF IInv, Durable, RecordPCs
  <2> QED BY <1>1, <2>1 DEF TypeOK, Entries
<1>5. CASE job[j].copy[Target[j]] = {}
  <2>1. /\ job'[j].pc = "done" /\ rlock' = Nobody
        /\ \A k \in Job : k # j => job'[k] = job[k]
        /\ tlock'[Target[j]] # j
        /\ \A k \in Job : k # j => (tlock'[Target[k]] = k <=> tlock[Target[k]] = k)
        /\ UNCHANGED <<record, disk, link, whole, flight>>
    BY <1>1, <1>5, EndedAs DEF FinishSave, End, Ended, host
  <2>2. Locks'
    BY <1>2, <2>1, FailedActivationsAssumption DEF IInv, Locks, RecordPCs, TargetPCs, FinishPCs
  <2>3. Progress'
    BY <1>2, <2>1 DEF IInv, Progress, FinishPCs
  <2>4. Durable' /\ HalfIsDurable'
    BY <1>4, <2>1 DEF IInv, Durable, HalfIsDurable
  <2> QED BY <1>1, <2>2, <2>3, <2>4 DEF IInv
<1>6. CASE job[j].copy[Target[j]] # {}
  <2>1. /\ job'[j].pc = "finishSync" /\ job'[j].gen = job[j].gen
        /\ \A k \in Job : k # j => job'[k] = job[k]
        /\ record' = [record EXCEPT ![Target[j]] = {}]
        /\ UNCHANGED <<disk, tlock, rlock, link, whole, flight>>
    BY <1>1, <1>2, <1>6, Gone DEF FinishSave, Cleared, PCs, FinishPCs, TypeOK, host
  <2>2. Locks'
    BY <1>2, <1>3, <2>1 DEF IInv, Locks, RecordPCs, TargetPCs, FinishPCs
  <2>3. Progress'
    <3>1. \A k \in Job : k # j /\ job[k].pc \in {"active", "beginSync"} => Target[k] # Target[j]
      BY <1>2 DEF IInv, Locks, TargetPCs, FinishPCs
    <3> QED BY <1>1, <1>2, <2>1, <3>1, TargetTyped DEF IInv, Progress, FinishPCs, TypeOK, Entries
  <2>4. Durable'
    BY <1>1, <1>4, <2>1 DEF Durable, TypeOK, Entries
  <2>5. HalfIsDurable'
    BY <1>1, <1>2, <2>1 DEF IInv, HalfIsDurable, TypeOK, Entries
  <2> QED BY <1>1, <2>2, <2>3, <2>4, <2>5 DEF IInv
<1> QED BY <1>5, <1>6

(* The host of an activation in flight has an entry, on disk as well. *)
LEMMA HostKeeps ==
    ASSUME IInv, NEW j \in Job, HostStep(j)
    PROVE  IInv'
<1>1. TypeOK /\ TypeOK'
  BY StepTyped DEF IInv, Next
<1>2. /\ job[j].pc = "active" /\ link'[Target[j]] = job[j].gen
      /\ \A t \in Targets : t # Target[j] => link'[t] = link[t] /\ whole'[t] = whole[t]
      /\ UNCHANGED <<job, record, disk, tlock, rlock, flight>>
  BY <1>1, TargetTyped DEF HostStep, SetLinks, Through, IInv, Progress, TypeOK
<1>3. Locks' /\ Durable'
  BY <1>2 DEF IInv, Locks, Durable
<1>4. \A k \in Job : job[k].pc \in FinishPCs => Target[k] # Target[j]
  BY <1>2 DEF IInv, Locks, TargetPCs, FinishPCs
<1>5. Progress'
  BY <1>2, <1>4, TargetTyped DEF IInv, Progress
<1>6. HalfIsDurable'
  BY <1>2, TargetTyped DEF IInv, HalfIsDurable, Progress
<1> QED BY <1>1, <1>3, <1>5, <1>6 DEF IInv

(* Whatever a power loss undoes, the entries of half-activated hosts are on   *)
(* disk.                                                                      *)
LEMMA PowerLossKeeps ==
    ASSUME IInv, "orphan" \notin Faults, PowerLoss
    PROVE  IInv'
<1>1. TypeOK /\ TypeOK'
  BY PowerLossTyped DEF IInv
<1>2. /\ \A j \in Job : job'[j].pc = "done"
      /\ \A j \in Job : ~flight'[j]
      /\ \A t \in Targets : tlock'[t] = Nobody
      /\ rlock' = Nobody
      /\ record' \in {record, disk} /\ disk' = record'
      /\ UNCHANGED <<link, whole>>
  BY DEF PowerLoss, NewJob
<1>3. Locks'
  BY LocksPowerLoss
<1>4. Progress'
  BY <1>2 DEF Progress, FinishPCs
<1>5. Durable' /\ HalfIsDurable'
  BY <1>2 DEF IInv, Durable, HalfIsDurable
<1> QED BY <1>1, <1>3, <1>4, <1>5 DEF IInv

(* Every step keeps the invariant. *)
LEMMA StepKeeps ==
    "orphan" \notin Faults /\ "unsynced" \notin Faults => (IInv /\ [Next]_vars => IInv')
<1> SUFFICES ASSUME IInv, "orphan" \notin Faults, "unsynced" \notin Faults, [Next]_vars
             PROVE  IInv'
  OBVIOUS
<1>1. ASSUME NEW j \in Job, JobStep(j) PROVE IInv'
  BY <1>1, ReadLinksKeeps, UnchangedKeeps, RetryKeeps, HoldKeeps, BeginReadKeeps,
     BeginListedKeeps, BeginSaveKeeps, BeginSyncKeeps, BeginFailsKeeps, SucceedKeeps,
     FailKeeps, FinishReadKeeps, FinishSaveKeeps, FinishSyncKeeps, FinishKeepsKeeps,
     KillKeeps, NewRunKeeps DEF JobStep
<1>2. ASSUME NEW j \in Job, HostStep(j) PROVE IInv'
  BY <1>2, HostKeeps
<1>3. CASE PowerLoss
  BY <1>3, PowerLossKeeps
<1>4. CASE UNCHANGED vars
  BY <1>4 DEF vars, IInv, TypeOK, Locks, Progress, Durable, HalfIsDurable
<1> QED BY <1>1, <1>2, <1>3, <1>4 DEF Next

-----------------------------------------------------------------------------
(* Theorems *)

(* The strengthened invariant holds when no run ends between a rename and its *)
(* sync and no work outlives its run.                                         *)
THEOREM Inductive ==
    ASSUME "orphan" \notin Faults, "unsynced" \notin Faults
    PROVE  Spec => []IInv
<1>1. IInv /\ [Next]_vars => IInv'
  BY StepKeeps
<1> QED BY InitInvariant, <1>1, PTL DEF Spec

(* A half-activated host is always in the record. *)
THEOREM HalfRecorded ==
    ASSUME "orphan" \notin Faults, "unsynced" \notin Faults
    PROVE  Spec => []HalfIsRecorded
<1>1. IInv => HalfIsRecorded
  BY DEF IInv, HalfIsDurable, HalfIsRecorded
<1> QED BY Inductive, <1>1, PTL

(* No run's success clears an activation in flight, as long as no work        *)
(* outlives its run: not even when a rename was undone by a loss of power.    *)
THEOREM InFlightRecorded ==
    ASSUME "orphan" \notin Faults
    PROVE  Spec => []InFlightIsRecorded
<1>1. Flying => InFlightIsRecorded
  BY DEF Flying, InFlightIsRecorded
<1> QED BY FlyingInvariant, <1>1, PTL

(* The target locks keep runs from activating the same target together, as    *)
(* long as no work outlives its run.                                          *)
THEOREM AlwaysOneAtATime ==
    ASSUME "orphan" \notin Faults
    PROVE  Spec => []OneAtATime
<1>1. Locks /\ Flying => OneAtATime
  BY DEF Locks, Flying, TargetPCs, OneAtATime
<1> QED BY FlyingInvariant, <1>1, PTL


-----------------------------------------------------------------------------
(* Action properties *)

(* Only the plan's own check ends a job as unchanged. *)
LEMMA OnlyUnchanged ==
    ASSUME TypeOK, Next, NEW k \in Job, job[k].pc = "check", job'[k].pc = "unchanged"
    PROVE  job[k].gen \notin record[Target[k]]
<1>1. CASE PowerLoss
  BY <1>1 DEF PowerLoss, NewJob
<1>2. ASSUME NEW j \in Job, HostStep(j) PROVE FALSE
  BY <1>2 DEF HostStep, SetLinks, Through
<1>3. ASSUME NEW j \in Job, JobStep(j), ~Unchanged(j) PROVE FALSE
  <2>1. CASE Succeed(j)
    BY <2>1, Gone, EndedAs DEF Succeed, End, Ended, PCs, FinishPCs, TypeOK
  <2>2. CASE Kill(j) \/ BeginFails(j) \/ FinishKeeps(j) \/ FinishSync(j) \/ Fail(j)
    BY <2>2, EndedAs DEF Kill, BeginFails, FinishKeeps, FinishSync, Fail, End, Ended
  <2>3. CASE FinishSave(j)
    BY <2>3, Gone, EndedAs DEF FinishSave, End, Ended, PCs, FinishPCs, TypeOK
  <2>4. CASE NewRun(j)
    BY <2>4 DEF NewRun, NewJob, TypeOK
  <2>5. CASE BeginRead(j) \/ FinishRead(j)
    BY <2>5, Moved DEF BeginRead, FinishRead, LockAndRead, PCs, BeginPCs, FinishPCs, TypeOK
  <2>6. CASE ReadLinks(j) \/ Retry(j) \/ Hold(j) \/ BeginListed(j) \/ BeginSave(j) \/ BeginSync(j)
    BY <2>6, Gone DEF ReadLinks, Retry, Hold, BeginListed, BeginSave, BeginSync, Activate,
       PCs, BeginPCs, TypeOK
  <2> QED BY <1>3, <2>1, <2>2, <2>3, <2>4, <2>5, <2>6 DEF JobStep
<1>4. ASSUME NEW j \in Job, Unchanged(j) PROVE job[k].gen \notin record[Target[k]]
  <2>1. j = k
    BY <1>4, EndedAs DEF Unchanged, Ended
  <2> QED BY <1>4, <2>1 DEF Unchanged
<1> QED BY <1>1, <1>2, <1>3, <1>4 DEF Next

(* A plan never calls a half-activated host unchanged. *)
THEOREM NeverUnchangedHalf ==
    ASSUME "orphan" \notin Faults, "unsynced" \notin Faults
    PROVE  Spec => UnchangedIsWhole
<1>1. IInv /\ [Next]_vars =>
        [\A j \in Job :
           At(j, "check") /\ job'[j].pc = "unchanged" /\ link[Target[j]] = job[j].gen
             => whole[Target[j]]]_vars
  BY OnlyUnchanged, TargetTyped DEF IInv, HalfIsDurable
<1> QED BY Inductive, <1>1, PTL DEF Spec, UnchangedIsWhole

(* What can take entries of a target away. *)
LEMMA OnlyRemovals ==
    ASSUME TypeOK, Locks, Next, NEW t \in Targets, ~(record[t] \subseteq record'[t])
    PROVE  \/ \E j \in Job : Target[j] = t /\ At(j, "finishSave")
           \/ record' = disk /\ \A j \in Job : job'[j].pc = "done"
<1>1. CASE PowerLoss
  BY <1>1 DEF PowerLoss, NewJob
<1>2. ASSUME NEW j \in Job, JobStep(j), ~BeginSave(j), ~FinishSave(j) PROVE record' = record
  BY <1>2 DEF JobStep, ReadLinks, Unchanged, Retry, Hold, BeginRead, FinishRead, LockAndRead,
     BeginListed, BeginSync, BeginFails, Succeed, Fail, FinishSync, FinishKeeps, Kill, NewRun
<1>3. ASSUME NEW j \in Job, HostStep(j) PROVE record' = record
  BY <1>3 DEF HostStep, SetLinks, Through
<1>4. ASSUME NEW j \in Job, BeginSave(j) PROVE FALSE
  <2>1. job[j].copy = record
    BY <1>4 DEF BeginSave, Locks
  <2> QED BY <1>4, <2>1, TargetTyped DEF BeginSave, Added, TypeOK, Entries
<1>5. ASSUME NEW j \in Job, FinishSave(j) PROVE Target[j] = t /\ At(j, "finishSave")
  <2>1. job[j].copy = record
    BY <1>5 DEF FinishSave, Locks
  <2> QED BY <1>5, <2>1, TargetTyped DEF FinishSave, Cleared, TypeOK, Entries
<1> QED BY <1>1, <1>2, <1>3, <1>4, <1>5 DEF Next

(* Runs keep each other's entries, whatever faults there are: every change is *)
(* made under the record's lock to what was read under it.                    *)
THEOREM EntriesSurvive == Spec => OnlySuccessClears
<1>1. TypeOK /\ Locks /\ [Next]_vars =>
        [\A t \in Targets : ~(record[t] \subseteq record'[t]) =>
           \/ \E j \in Job : /\ Target[j] = t
                             /\ At(j, "finishSave")
           \/ record' = disk /\ \A j \in Job : job'[j].pc = "done"]_vars
  BY OnlyRemovals
<1> QED BY LocksInvariant, <1>1, PTL DEF Spec, OnlySuccessClears
=============================================================================
