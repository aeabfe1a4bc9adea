------------------------- MODULE FailedActivations -------------------------
(***************************************************************************)
(* The record of unfinished activations that `deploy` keeps on one machine *)
(* (tools/nix-deploy/state.go), and the runs that use it: planning, the    *)
(* per-target lock, the record's own lock and atomic replacement, and the  *)
(* activation between begin and finish.                                    *)
(*                                                                         *)
(* A job is one activation of one target in one run.  A finished job stands *)
(* for a slot that a later run of the same target may use again.           *)
(***************************************************************************)
EXTENDS TLC

CONSTANTS
    Job,
    Target,      \* the function from jobs to the targets they activate
    Gen,         \* generations, as built store paths
    Faults,      \* which of the faults below may happen
    Nobody       \* the holder of a free lock

AllFaults ==
    { "interrupt",   \* a signal ends the run's context
      "unusable",    \* the record or a lock file cannot be used
      "power",       \* this machine loses power
      "unsynced",    \* a run ends between its rename and the sync after it
      "orphan" }     \* activation work outlives its command or its run

Targets == {Target[j] : j \in Job}

ASSUME FailedActivationsAssumption ==
    /\ \A j \in Job : Target[j] \in Targets
    /\ Nobody \notin Job
    /\ Gen # {}
    /\ Faults \subseteq AllFaults

VARIABLES
    job,      \* each job's control state
    record,   \* the record file as other processes see it
    disk,     \* the record file as a power loss leaves it
    tlock,    \* who holds each target's lock
    rlock,    \* who holds the record's exclusive lock
    link,     \* the generation each host's profile and running links name
    whole,    \* was the activation that set those links carried through?
    flight    \* is the job's activation work going on on the host?

vars == <<job, record, disk, tlock, rlock, link, whole, flight>>
host == <<link, whole, flight>>

-----------------------------------------------------------------------------
(* State *)

Entries == [Targets -> SUBSET Gen]

BeginPCs == {"hold", "beginRead", "beginSave", "beginSync"}
FinishPCs == {"finishRead", "finishSave", "finishSync"}
Ended == {"unchanged", "done"}
PCs == {"plan", "check", "active"} \cup BeginPCs \cup FinishPCs \cup Ended

\* gen is what the job activates, copy what it read of the record.
JobState == [pc : PCs, gen : Gen, copy : Entries]

Empty == [t \in Targets |-> {}]

NewJob(g) == [pc |-> "plan", gen |-> g, copy |-> Empty]

TypeOK ==
    /\ job \in [Job -> JobState]
    /\ record \in Entries
    /\ disk \in Entries
    /\ tlock \in [Targets -> Job \cup {Nobody}]
    /\ rlock \in Job \cup {Nobody}
    /\ link \in [Targets -> Gen]
    /\ whole \in [Targets -> BOOLEAN]
    /\ flight \in [Job -> BOOLEAN]

\* Every host runs some generation fully, and the record is empty.
Init ==
    /\ job \in [Job -> {NewJob(g) : g \in Gen}]
    /\ record = Empty /\ disk = Empty
    /\ tlock = [t \in Targets |-> Nobody] /\ rlock = Nobody
    /\ link \in [Targets -> Gen]
    /\ whole = [t \in Targets |-> TRUE]
    /\ flight = [j \in Job |-> FALSE]

At(j, pc) == job[j].pc = pc

Goto(j, pc) == job' = [job EXCEPT ![j].pc = pc, ![j].copy = Empty]

\* The job is over, and gives its target back.
EndAs(j, pc) ==
    /\ Goto(j, pc)
    /\ tlock' = [t \in Targets |-> IF tlock[t] = j THEN Nobody ELSE tlock[t]]

End(j) == EndAs(j, "done")

\* A run that ends in withRecord drops the record's lock, between a rename and
\* its sync too.  Only the fault says that the rename was not on disk by then.
Unlock(j) == rlock' = IF rlock = j THEN Nobody ELSE rlock

Leave(j) ==
    /\ Unlock(j)
    /\ disk' = IF rlock = j /\ "unsynced" \notin Faults THEN record ELSE disk

-----------------------------------------------------------------------------
(* Planning *)

\* generation(): the links are read first ...
LinksDiffer(j) == link[Target[j]] # job[j].gen

ReadLinks(j) ==
    /\ At(j, "plan")
    /\ \/ LinksDiffer(j) /\ Goto(j, "hold")
       \/ ~LinksDiffer(j) /\ Goto(j, "check")
    /\ UNCHANGED <<record, disk, tlock, rlock, host>>

\* Mutant: the links alone call a host unchanged.
LinksAlone(j) ==
    /\ At(j, "check")
    /\ EndAs(j, "unchanged")
    /\ UNCHANGED <<record, disk, rlock, host>>

\* ... and then, if they name the planned generation, the record, under a
\* shared lock.
Unchanged(j) ==
    /\ At(j, "check")
    /\ rlock = Nobody
    /\ job[j].gen \notin record[Target[j]]
    /\ EndAs(j, "unchanged")
    /\ UNCHANGED <<record, disk, rlock, host>>

\* The activation is retried, because the record has an entry or cannot be
\* used, or forced.
Retry(j) ==
    /\ At(j, "check")
    /\ Goto(j, "hold")
    /\ UNCHANGED <<record, disk, tlock, rlock, host>>

-----------------------------------------------------------------------------
(* begin *)

\* Mutant: the target's lock is a shared one.
HoldShared(j) ==
    /\ At(j, "hold")
    /\ tlock' = [tlock EXCEPT ![Target[j]] = j]
    /\ Goto(j, "beginRead")
    /\ UNCHANGED <<record, disk, rlock, host>>

\* flock on the target's lock file, waiting while another run activates it.
Hold(j) ==
    /\ At(j, "hold")
    /\ tlock[Target[j]] = Nobody
    /\ tlock' = [tlock EXCEPT ![Target[j]] = j]
    /\ Goto(j, "beginRead")
    /\ UNCHANGED <<record, disk, rlock, host>>

\* Mutants: the record is read under a shared lock; only the target's own
\* entries are read.
ReadShared(j, next) ==
    /\ rlock' = j
    /\ job' = [job EXCEPT ![j].pc = next, ![j].copy = record]
    /\ UNCHANGED <<record, disk, tlock, host>>

ReadOwn(j, next) ==
    /\ rlock = Nobody
    /\ rlock' = j
    /\ job' = [job EXCEPT ![j].pc = next, ![j].copy = Target[j] :> record[Target[j]]]
    /\ UNCHANGED <<record, disk, tlock, host>>

\* withRecord: the exclusive lock, then what the file holds.
LockAndRead(j, next) ==
    /\ rlock = Nobody
    /\ rlock' = j
    /\ job' = [job EXCEPT ![j].pc = next, ![j].copy = record]
    /\ UNCHANGED <<record, disk, tlock, host>>

BeginRead(j) == At(j, "beginRead") /\ LockAndRead(j, "beginSave")

\* Mutant: a later failure replaces the earlier ones.
AddedAlone(j) == [job[j].copy EXCEPT ![Target[j]] = {job[j].gen}]

\* The entry begin adds, and what finish leaves after a success.
Added(j) == [job[j].copy EXCEPT ![Target[j]] = @ \cup {job[j].gen}]

Cleared(j) == [job[j].copy EXCEPT ![Target[j]] = {}]

Listed(j) == job[j].gen \in job[j].copy[Target[j]]

Activate(j) ==
    /\ rlock' = Nobody
    /\ Goto(j, "active")
    /\ flight' = [flight EXCEPT ![j] = TRUE]

\* An entry that is there already is neither written nor synced again.
BeginListed(j) ==
    /\ At(j, "beginSave") /\ Listed(j)
    /\ Activate(j)
    /\ UNCHANGED <<record, disk, tlock, link, whole>>

\* Otherwise the temporary file takes the record's place ...
BeginSave(j) ==
    /\ At(j, "beginSave") /\ ~Listed(j)
    /\ record' = Added(j)
    /\ Goto(j, "beginSync")
    /\ UNCHANGED <<disk, tlock, rlock, host>>

\* ... and the directory is synced before the activation may start.
BeginSync(j) ==
    /\ At(j, "beginSync")
    /\ disk' = record
    /\ Activate(j)
    /\ UNCHANGED <<record, tlock, link, whole>>

\* Mutant: an activation that could not be recorded starts all the same.
BeginIgnored(j) ==
    /\ job[j].pc \in BeginPCs \ {"hold"}
    /\ "unusable" \in Faults
    /\ Goto(j, "active")
    /\ flight' = [flight EXCEPT ![j] = TRUE]
    /\ Leave(j)
    /\ UNCHANGED <<record, tlock, link, whole>>

\* A lock file or the record cannot be used, the run was interrupted while it
\* waited, or the write failed, before or after the rename: no activation.
BeginFails(j) ==
    /\ job[j].pc \in BeginPCs
    /\ \/ "unusable" \in Faults
       \/ "interrupt" \in Faults /\ job[j].pc \in {"hold", "beginRead"}
    /\ End(j)
    /\ Leave(j)
    /\ UNCHANGED <<record, host>>

-----------------------------------------------------------------------------
(* The activation *)

\* The activation makes the profile and the running system name the generation
\* before it is through.
SetLinks(j) ==
    /\ flight[j]
    /\ link[Target[j]] # job[j].gen \/ whole[Target[j]]
    /\ link' = [link EXCEPT ![Target[j]] = job[j].gen]
    /\ whole' = [whole EXCEPT ![Target[j]] = FALSE]
    /\ UNCHANGED <<job, record, disk, tlock, rlock, flight>>

Through(j) ==
    /\ flight[j]
    /\ link[Target[j]] = job[j].gen /\ ~whole[Target[j]]
    /\ whole' = [whole EXCEPT ![Target[j]] = TRUE]
    /\ UNCHANGED <<job, record, disk, tlock, rlock, link, flight>>

\* It succeeds; finish clears the target's entries unless a serial ready gate
\* does not pass.
Succeed(j) ==
    /\ At(j, "active") /\ flight[j]
    /\ link[Target[j]] = job[j].gen /\ whole[Target[j]]
    /\ flight' = [flight EXCEPT ![j] = FALSE]
    /\ \/ Goto(j, "finishRead") /\ UNCHANGED tlock
       \/ End(j)
    /\ UNCHANGED <<record, disk, rlock, link, whole>>

\* It fails, or its command is stopped or never starts; finish keeps the entry.
\* The work may go on without the command.
Fail(j) ==
    /\ At(j, "active")
    /\ End(j)
    /\ \E left \in {l \in BOOLEAN : l => "orphan" \in Faults} :
         flight' = [flight EXCEPT ![j] = left]
    /\ UNCHANGED <<record, disk, rlock, link, whole>>

-----------------------------------------------------------------------------
(* finish *)

FinishRead(j) == At(j, "finishRead") /\ LockAndRead(j, "finishSave")

\* Without entries for the target there is nothing to write.
FinishSave(j) ==
    /\ At(j, "finishSave")
    /\ IF job[j].copy[Target[j]] = {}
       THEN End(j) /\ rlock' = Nobody /\ UNCHANGED record
       ELSE Goto(j, "finishSync") /\ record' = Cleared(j) /\ UNCHANGED <<tlock, rlock>>
    /\ UNCHANGED <<disk, host>>

FinishSync(j) ==
    /\ At(j, "finishSync")
    /\ disk' = record
    /\ rlock' = Nobody
    /\ End(j)
    /\ UNCHANGED <<record, host>>

\* A record that cannot be used, or an interrupt while waiting for it, leaves
\* the entry for the next run.
FinishKeeps(j) ==
    /\ job[j].pc \in FinishPCs
    /\ \/ "unusable" \in Faults
       \/ "interrupt" \in Faults /\ At(j, "finishRead")
    /\ End(j)
    /\ Leave(j)
    /\ UNCHANGED <<record, host>>

-----------------------------------------------------------------------------
(* Runs that end early, and new ones *)

\* The run is killed.  The kernel drops its locks; its command, which is in a
\* process group of its own, goes on.
Kill(j) ==
    /\ job[j].pc \notin Ended
    /\ flight[j] => "orphan" \in Faults
    /\ End(j)
    /\ Leave(j)
    /\ UNCHANGED <<record, host>>

\* Every run on this machine dies; a rename that was not synced may be undone.
PowerLoss ==
    /\ "power" \in Faults
    /\ \E j \in Job : job[j].pc \notin Ended
    /\ job' = [j \in Job |-> [NewJob(job[j].gen) EXCEPT !.pc = "done"]]
    /\ tlock' = [t \in Targets |-> Nobody] /\ rlock' = Nobody
    /\ record' \in {record, disk} /\ disk' = record'
    /\ flight' = [j \in Job |-> flight[j] /\ "orphan" \in Faults]
    /\ UNCHANGED <<link, whole>>

\* A new run on this machine, with what its flake builds now.  It takes the
\* place of a job whose work, if it left any behind, has come to its end.
NewRun(j) ==
    /\ job[j].pc \in Ended
    /\ \E g \in Gen : job' = [job EXCEPT ![j] = NewJob(g)]
    /\ flight' = [flight EXCEPT ![j] = FALSE]
    /\ UNCHANGED <<record, disk, tlock, rlock, link, whole>>

-----------------------------------------------------------------------------
(* Specification *)

JobStep(j) ==
    \/ ReadLinks(j) \/ Unchanged(j) \/ Retry(j)
    \/ Hold(j) \/ BeginRead(j) \/ BeginListed(j) \/ BeginSave(j) \/ BeginSync(j)
    \/ BeginFails(j)
    \/ Succeed(j) \/ Fail(j)
    \/ FinishRead(j) \/ FinishSave(j) \/ FinishSync(j) \/ FinishKeeps(j)
    \/ Kill(j) \/ NewRun(j)

HostStep(j) == SetLinks(j) \/ Through(j)

Next == (\E j \in Job : JobStep(j) \/ HostStep(j)) \/ PowerLoss

Spec == Init /\ [][Next]_vars

-----------------------------------------------------------------------------
(* Properties *)

(* A host whose links name a generation that was never activated to the end   *)
(* has an entry for it, whatever was interrupted, killed or lost with the     *)
(* power, so that the next plan does not call the host unchanged.             *)
HalfIsRecorded ==
    \A t \in Targets : ~whole[t] => link[t] \in record[t]

(* "One run's success cannot clear another run's activation of the same       *)
(* target while it is in flight" (state.go).                                  *)
InFlightIsRecorded ==
    \A j \in Job : flight[j] => job[j].gen \in record[Target[j]]

(* Concurrent runs do not drop each other's entries: only a job that          *)
(* activated the target to the end takes one out, or a power loss that ends   *)
(* every run and undoes a begin that was never synced.                        *)
OnlySuccessClears ==
    [][\A t \in Targets : ~(record[t] \subseteq record'[t]) =>
         \/ \E j \in Job : /\ Target[j] = t
                           /\ At(j, "finishSave")
         \/ record' = disk /\ \A j \in Job : job'[j].pc = "done"]_vars

(* A plan calls a target unchanged only if the generation its host names has  *)
(* been activated to the end: reading the links before the record, never the  *)
(* other way round, keeps another run's activation from slipping in between.  *)
UnchangedIsWhole ==
    [][\A j \in Job :
         At(j, "check") /\ job'[j].pc = "unchanged" /\ link[Target[j]] = job[j].gen
           => whole[Target[j]]]_vars

(* Two runs never activate the same target at the same time.                  *)
OneAtATime ==
    \A j, k \in Job : flight[j] /\ flight[k] /\ Target[j] = Target[k] => j = k

\* The parts of the inductive invariant behind HalfIsRecorded.

RecordPCs == {"beginSave", "beginSync", "finishSave", "finishSync"}
TargetPCs == {"beginRead", "beginSave", "beginSync", "active"} \cup FinishPCs

\* Who holds which lock; a change is made to what the lock's holder has read.
Locks ==
    \A j \in Job :
        /\ rlock = j <=> job[j].pc \in RecordPCs
        /\ tlock[Target[j]] = j <=> job[j].pc \in TargetPCs
        /\ job[j].pc \in {"beginSave", "finishSave"} => job[j].copy = record

\* What a job has established where it is.
Progress ==
    \A j \in Job :
        /\ flight[j] => At(j, "active")
        /\ At(j, "beginSync") => /\ job[j].gen \in record[Target[j]]
                                 /\ disk[Target[j]] \subseteq record[Target[j]]
        /\ At(j, "active") => job[j].gen \in record[Target[j]] \cap disk[Target[j]]
        /\ job[j].pc \in FinishPCs => link[Target[j]] = job[j].gen /\ whole[Target[j]]

\* What a power loss would undo: the one change that waits for its sync.
Durable ==
    \A t \in Targets :
        \/ disk[t] = record[t]
        \/ \E j \in Job : Target[j] = t /\ job[j].pc \in {"beginSync", "finishSync"}

HalfIsDurable == \A t \in Targets : ~whole[t] => link[t] \in record[t] \cap disk[t]

(* HalfIsRecorded together with what makes it inductive: the locks, what each *)
(* job has established where it is, and what a power loss would leave.        *)
IInv == TypeOK /\ Locks /\ Progress /\ Durable /\ HalfIsDurable
=============================================================================
