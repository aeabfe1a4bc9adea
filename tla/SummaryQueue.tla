------------------------------- MODULE SummaryQueue -------------------------------
(***************************************************************************)
(* deck's queue of thread summaries (src/tools/deck/deck.go): requests by  *)
(* hand, the schedule that rebuilds the queue from the facts, the jobs and *)
(* the hour's budget of model calls.  One action is a stretch under        *)
(* Deck.mu.                                                                *)
(*                                                                         *)
(* What the facts, the probes and the cache say of a thread (whether it    *)
(* needs a summary, and may get one now) is left open here and is module   *)
(* ThreadSummary's, as is what a job reads and records.                    *)
(***************************************************************************)
EXTENDS Integers, FiniteSets, SequencesExt

CONSTANTS Thread,
          Role,        \* the summary roles a person may ask for
          SummaryRole, \* the default one, which a bulk refresh asks for
          Concurrency, \* RefreshConcurrency
          CallsPerHour,
          MaxRequests  \* bound of the requests by hand

VARIABLES
    needs,    \* the threads that need a summary by the published facts
    all,      \* refreshAll: it is "asked" for, and a refresh has "taken" it
    queue, manual,
    job,      \* each thread's summary job
    calls,    \* the model calls of the last hour
    owed,     \* the last request by hand for each thread, and whether a job took it
    requests

vars == <<needs, all, queue, manual, job, calls, owed, requests>>

\* One inventory has finitely many threads.
Parameters == IsFiniteSet(Thread) /\ {CallsPerHour, MaxRequests} \subseteq Nat

None == "none"
NoJob == [at |-> None, role |-> None, again |-> FALSE]
NotOwed == [role |-> None, started |-> FALSE]
Owe(role) == [role |-> role, started |-> FALSE]

Init ==
    /\ needs \in SUBSET Thread
    /\ all = {} /\ queue = <<>> /\ calls = 0 /\ requests = 0
    /\ manual = [t \in Thread |-> None]
    /\ job = [t \in Thread |-> NoJob]
    /\ owed = [t \in Thread |-> NotOwed]

InFlight == {t \in Thread : job[t].at # None}
Asked == {t \in Thread : manual[t] # None}

\* What is left of the queue, which holds no thread twice, when only threads of
\* S stay: one sequence, in the order they had.
Before(k, t) == \E i, j \in DOMAIN queue : i < j /\ queue[i] = k /\ queue[j] = t
Left(S) ==
    {q \in SetToSeqs(S \cap ToSet(queue)) : \A i, j \in DOMAIN q : i < j => Before(q[i], q[j])}

\* queueSummaryLocked: the latest role counts; a thread whose job runs is
\* queued when that ends.
Request(t, role) ==
    /\ requests < MaxRequests /\ requests' = requests + 1
    /\ manual' = [manual EXCEPT ![t] = role]
    /\ IF t \in InFlight THEN UNCHANGED queue
       ELSE \E rest \in Left(Thread \ {t}) : queue' = <<t>> \o rest
    /\ owed' = [owed EXCEPT ![t] = Owe(role)]
    /\ UNCHANGED <<needs, all, job, calls>>

\* requestRefreshAll, and the refresh that takes it ...
RequestAll ==
    /\ requests < MaxRequests /\ requests' = requests + 1
    /\ all' = all \cup {"asked"}
    /\ UNCHANGED <<needs, queue, manual, job, calls, owed>>
TakeAll ==
    /\ all = {"asked"} /\ all' = {"taken"}
    /\ UNCHANGED <<needs, queue, manual, job, calls, owed, requests>>

\* ... and queues, once it has read the facts, what needs a summary and was not
\* asked for: behind what is already queued by hand, in its order.
QueueAll ==
    LET wanted == needs \ Asked IN
    /\ "taken" \in all /\ all' = all \ {"taken"}
    /\ \E pending \in Left(Asked), new \in SetToSeqs(wanted \ InFlight),
          rest \in Left(Thread \ (Asked \cup wanted)) : queue' = pending \o new \o rest
    /\ manual' = [t \in Thread |-> IF t \in wanted THEN SummaryRole ELSE manual[t]]
    /\ owed' = [t \in Thread |-> IF t \in wanted THEN Owe(SummaryRole) ELSE owed[t]]
    /\ UNCHANGED <<needs, job, calls, requests>>

\* The published facts change.
PublishFacts ==
    /\ needs' \in (SUBSET Thread) \ {needs}
    /\ UNCHANGED <<all, queue, manual, job, calls, owed, requests>>

\* schedule: what was asked for by hand stays first, in its order, and the
\* candidates follow, in the order they changed.
Schedule ==
    /\ \E candidates \in SUBSET (needs \ (Asked \cup InFlight)) :
       \E kept \in Left(Asked \ InFlight), rest \in SetToSeqs(candidates) : queue' = kept \o rest
    /\ UNCHANGED <<needs, all, manual, job, calls, owed, requests>>

-----------------------------------------------------------------------------
(* Jobs *)

\* Mutant: the limit is reached one call late.
OneMoreCall == calls <= CallsPerHour

\* budgetLeftLocked.
BudgetLeft == calls < CallsPerHour

\* startJobs takes the queue's head while there is concurrency and budget.
StartJob ==
    /\ queue # <<>> /\ Cardinality(InFlight) < Concurrency /\ BudgetLeft
    /\ LET t == Head(queue) IN
         /\ job' = [job EXCEPT ![t] = [NoJob EXCEPT !.at = "find", !.role = manual[t]]]
         /\ manual' = [manual EXCEPT ![t] = None]
         /\ owed' = [owed EXCEPT ![t].started = owed[t].role # None]
    /\ queue' = Tail(queue)
    /\ UNCHANGED <<needs, all, calls, requests>>

Step(t, from, to) == job[t].at = from /\ job' = [job EXCEPT ![t].at = to]

\* A job ends early when its thread needs no summary now, a command fails, or,
\* unless it was asked for, the revision it read may not be attempted now.
FindThread(t) ==
    /\ \/ t \in needs /\ Step(t, "find", "call")
       \/ Step(t, "find", "end")
    /\ UNCHANGED <<needs, all, queue, manual, calls, owed, requests>>

\* callModel: each model it tries spends a call.  Without budget for the first
\* one the job goes back; for a backup, the failure is the answer.
Call(t) ==
    /\ job[t].at = "call"
    /\ IF BudgetLeft
       THEN calls' = calls + 1 /\ (Step(t, "call", "end") \/ Step(t, "call", "backup"))
       ELSE job' = [job EXCEPT ![t].at = "end", ![t].again = TRUE] /\ UNCHANGED calls
    /\ UNCHANGED <<needs, all, queue, manual, owed, requests>>
CallBackup(t) ==
    /\ IF BudgetLeft
       THEN calls' = calls + 1 /\ Step(t, "backup", "end")
       ELSE UNCHANGED calls /\ Step(t, "backup", "end")
    /\ UNCHANGED <<needs, all, queue, manual, owed, requests>>

\* Mutant: a job stopped by the budget goes back without its role.
NoRole(t) == manual[t]

\* A job stopped by the budget keeps its role unless a later request has one.
RoleAfter(t) == IF manual[t] = None /\ job[t].again THEN job[t].role ELSE manual[t]

\* It goes back to the front, or one that was asked for again does, in the step
\* that ends it.
EndJob(t) ==
    /\ job[t].at = "end" /\ job' = [job EXCEPT ![t] = NoJob]
    /\ queue' = IF job[t].again \/ manual[t] # None THEN <<t>> \o queue ELSE queue
    /\ manual' = [manual EXCEPT ![t] = RoleAfter(t)]
    /\ owed' = [owed EXCEPT ![t] = IF ~ @.started THEN @ ELSE IF job[t].again THEN Owe(@.role) ELSE NotOwed]
    /\ UNCHANGED <<needs, all, calls, requests>>

\* An hour has passed since a call.
EndHour ==
    /\ calls > 0 /\ calls' = calls - 1
    /\ UNCHANGED <<needs, all, queue, manual, job, owed, requests>>

Next ==
    \/ RequestAll \/ TakeAll \/ QueueAll \/ PublishFacts \/ Schedule \/ StartJob \/ EndHour
    \/ \E t \in Thread : FindThread(t) \/ Call(t) \/ CallBackup(t) \/ EndJob(t)
    \/ \E t \in Thread, role \in Role : Request(t, role)

Spec == Init /\ [][Next]_vars

-----------------------------------------------------------------------------
(* Properties *)

\* The type invariant.
TypeOK ==
    /\ needs \subseteq Thread /\ all \subseteq {"asked", "taken"}
    /\ queue \in Seq(Thread) /\ calls \in 0 .. CallsPerHour /\ requests \in 0 .. MaxRequests
    /\ manual \in [Thread -> Role \cup {None, SummaryRole}]
    /\ job \in [Thread -> [at : {None, "find", "call", "backup", "end"},
                           role : Role \cup {None, SummaryRole}, again : BOOLEAN]]

\* What a person asked for is served with the role asked for last: until a job
\* that started after the request has ended with an answer, the thread is queued
\* with that role, or its job with that role runs.  And no thread is queued
\* twice, or beside its own job (queueSummaryLocked, schedule, summarize).
RequestsAreKept ==
    \A t \in Thread :
        /\ owed[t].role # None =>
              IF owed[t].started THEN t \in InFlight /\ job[t].role = owed[t].role
              ELSE manual[t] = owed[t].role /\ (t \in InFlight \/ t \in ToSet(queue))
        /\ Cardinality({i \in DOMAIN queue : queue[i] = t}) <= IF t \in InFlight THEN 0 ELSE 1
=============================================================================
