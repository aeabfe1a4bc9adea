------------------------------- MODULE ThreadSummary -------------------------------
(***************************************************************************)
(* What deck knows and shows of one T3 thread (src/tools/deck/deck.go,     *)
(* summary.go): the facts loop, the probe pass it starts and the thread's  *)
(* summary jobs observe the thread beside each other, group what is shown  *)
(* and write the cache that a restart reads.                               *)
(*                                                                         *)
(* A thread's revision grows with its messages and stands for the          *)
(* inventory's updatedAt as well; settlements and threads without messages *)
(* are left out.  When a job starts is module SummaryQueue's,              *)
(* and any time here.  Whether an attempt was made already, must wait or   *)
(* comes too early is left open.                                           *)
(***************************************************************************)
EXTENDS Integers

CONSTANT MaxRev   \* bound of the thread's revisions

VARIABLES
    thread,  \* the thread at T3
    loop,    \* the facts loop
    facts,   \* the published inventory's row of the thread
    grouped, \* the published grouping: the row and the summary it was made from
    lock,    \* refreshLock's holder, or None
    probe,   \* the thread's revision as last checked, and for which updatedAt
    pass,    \* the probe pass's observation
    job,     \* the summary job's
    cache,   \* the cache entry, as a restart finds it
    floor,   \* the revision when the newest published observation started
    missed   \* whether a regroup failed since the last grouping

vars == <<thread, loop, facts, grouped, lock, probe, pass, job, cache, floor, missed>>

Parameters == MaxRev \in Nat \ {0}

None == "none"
Never == -1
NoRow == [rev |-> Never, is |-> "gone"]
NoProbe == [of |-> Never, rev |-> 0]
\* of is ThreadUpdatedAt, summary and tried the revisions in Basis and AttemptBasis.
NoEntry == [of |-> Never, summary |-> 0, tried |-> Never]
\* An observation: the updatedAt it is for, the thread's revision when it
\* started, the one read, and whether a later one started or is published.
NoObs == [at |-> None, of |-> Never, from |-> 0, rev |-> 0, order |-> "last"]
Group(row, entry) == [row |-> row, summary |-> entry.summary]
NoGroup == Group(NoRow, NoEntry)

\* The process when it starts, given its variables.
NewDeck(lo, fa, gr, lk, pr, pa, jo, fl, mi) ==
    /\ lo = [at |-> "read", row |-> NoRow, made |-> NoGroup]
    /\ fa = NoRow /\ gr = NoGroup /\ lk = None
    /\ pr = NoProbe /\ pa = NoObs /\ jo = NoObs
    /\ fl = 0 /\ mi = FALSE

Init ==
    /\ thread = [rev |-> 1, is |-> "needs"]
    /\ NewDeck(loop, facts, grouped, lock, probe, pass, job, floor, missed)
    /\ cache = NoEntry

\* Two numbered writers of one thing: who starts later, and what a publication
\* does to the one that started before.
OtherStarted(o) == IF o.order = "last" THEN [o EXCEPT !.order = "first"] ELSE o
OtherPublished(o) == IF o.order = "first" THEN [o EXCEPT !.order = "late"] ELSE o
\* What was published is forgotten.
OtherForgotten(o) == IF o.order = "late" THEN [o EXCEPT !.order = "first"] ELSE o

-----------------------------------------------------------------------------
(* The facts loop *)

\* refreshFacts, under the refresh lock: the inventory ...
ReadFacts ==
    /\ loop.at = "read" /\ lock = None /\ lock' = "loop"
    /\ loop' = [loop EXCEPT !.at = "group", !.row = thread]
    /\ UNCHANGED <<thread, facts, grouped, probe, pass, job, cache, floor, missed>>
\* ... the grouping of it with the cached summary, both published at once ...
GroupFacts ==
    /\ loop.at = "group"
    /\ loop' = [loop EXCEPT !.at = "publish", !.made = Group(loop.row, cache)]
    /\ UNCHANGED <<thread, facts, grouped, lock, probe, pass, job, cache, floor, missed>>
PublishFacts ==
    /\ loop.at = "publish"
    /\ loop' = [loop EXCEPT !.at = "prune", !.made = NoGroup, !.row = NoRow]
    /\ facts' = loop.row /\ grouped' = loop.made /\ missed' = FALSE
    /\ UNCHANGED <<thread, lock, probe, pass, job, cache, floor>>
\* ... and prune: a thread that left the inventory is forgotten, its cache
\* entry when it is old enough.
Prune ==
    /\ loop.at = "prune" /\ lock' = None
    /\ loop' = [loop EXCEPT !.at = "probe"]
    /\ IF facts.is # "gone" THEN UNCHANGED <<probe, floor, pass, job>>
       ELSE /\ probe' = NoProbe /\ floor' = 0
            /\ pass' = OtherForgotten(pass) /\ job' = OtherForgotten(job)
    /\ cache' \in IF facts.is = "gone" THEN {cache, NoEntry} ELSE {cache}
    /\ UNCHANGED <<thread, facts, grouped, missed>>
\* A command fails: the last good facts stay.
FailFacts ==
    /\ loop.at \in {"group", "publish"} /\ lock' = None
    /\ loop' = [loop EXCEPT !.at = "read", !.made = NoGroup, !.row = NoRow]
    /\ UNCHANGED <<thread, facts, grouped, probe, pass, job, cache, floor, missed>>

\* knownProbeLocked: a thread not checked since the start is known from its
\* cache entry.
Known == IF probe = NoProbe /\ cache.tried > 0 /\ cache.of # Never
         THEN [of |-> cache.of, rev |-> cache.tried] ELSE probe

\* nextObservation, for the pass or the job.
Observation(of) == [NoObs EXCEPT !.at = "start", !.of = of, !.from = thread.rev]

\* startProbes, probeChanged: the thread is read unless a pass runs or the last
\* check was for this updatedAt, and is not old.
StartProbe ==
    /\ loop.at = "probe" /\ loop' = [loop EXCEPT !.at = "read"]
    /\ IF facts.is # "needs" \/ pass.at # None THEN UNCHANGED <<probe, pass, job>>
       ELSE /\ probe' = Known
            /\ \/ pass' = Observation(facts.rev) /\ job' = OtherStarted(job)
               \/ /\ Known.of = facts.rev /\ UNCHANGED job
                  /\ pass' = IF Known = probe THEN NoObs ELSE [NoObs EXCEPT !.at = "regroup"]
    /\ UNCHANGED <<thread, facts, grouped, lock, cache, floor, missed>>

-----------------------------------------------------------------------------
(* Observations *)

\* Mutant: an observation is recorded when it comes.
RecordAnyway(o) == [of |-> o.of, rev |-> o.rev]

\* publishProbeLocked: unless one that started later is recorded.
Record(o) == IF o.order = "late" THEN probe ELSE [of |-> o.of, rev |-> o.rev]

PublishObs(o) ==
    /\ probe' = Record(o)
    /\ floor' = IF o.from > floor THEN o.from ELSE floor

ReadRevision ==
    /\ pass.at = "start"
    /\ \/ pass' = [pass EXCEPT !.at = "got", !.rev = thread.rev]
       \/ pass' = NoObs
    /\ UNCHANGED <<thread, loop, facts, grouped, lock, probe, job, cache, floor, missed>>
\* A revision the grouping did not know is grouped.
PublishProbe ==
    /\ pass.at = "got"
    /\ PublishObs(pass)
    /\ job' = OtherPublished(job)
    /\ pass' = IF Record(pass).rev # probe.rev \/ probe = NoProbe
               THEN [NoObs EXCEPT !.at = "regroup"] ELSE NoObs
    /\ UNCHANGED <<thread, loop, facts, grouped, lock, cache, missed>>

\* regroup takes the refresh lock ...
MayRegroup(who) == lock = None

\* ... groups the published facts with the cache, and publishes.
Regrouped(o) == IF o.at = "regroup" THEN [o EXCEPT !.at = "grouped", !.rev = cache.summary] ELSE NoObs
Regroup(who, o) ==
    \/ o.at = "regroup" /\ MayRegroup(who) /\ lock' = who /\ UNCHANGED <<grouped, missed>>
    \/ /\ o.at = "grouped" /\ lock' = None
       /\ \/ grouped' = (IF facts = NoRow THEN grouped ELSE [row |-> facts, summary |-> o.rev]) /\ missed' = FALSE
          \/ UNCHANGED grouped /\ missed' = TRUE
RegroupPass ==
    /\ Regroup("pass", pass) /\ pass' = Regrouped(pass)
    /\ UNCHANGED <<thread, loop, facts, probe, job, cache, floor>>
RegroupJob ==
    /\ Regroup("job", job) /\ job' = Regrouped(job)
    /\ UNCHANGED <<thread, loop, facts, probe, pass, cache, floor>>

-----------------------------------------------------------------------------
(* A summary job *)

StartJob ==
    /\ job.at = None /\ facts.is = "needs"
    /\ job' = Observation(facts.rev) /\ pass' = OtherStarted(pass)
    /\ UNCHANGED <<thread, loop, facts, grouped, lock, probe, cache, floor, missed>>

\* The updatedAt at which the attempted revision was checked.
CheckedAt(seen) == seen.of

\* An attempt's entry is put, then shown.
Put(entry) == cache' = entry /\ job' = [NoObs EXCEPT !.at = "regroup"]
\* recordFailure keeps the summary.
Failure(seen) == [cache EXCEPT !.of = CheckedAt(seen), !.tried = seen.rev]

\* The messages; when they cannot be read, the last check names the revision.
ReadMessages ==
    /\ job.at = "start"
    /\ \/ job' = [job EXCEPT !.at = "got", !.rev = thread.rev] /\ UNCHANGED cache
       \/ Put(Failure(probe))
    /\ UNCHANGED <<thread, loop, facts, grouped, lock, probe, pass, floor, missed>>
PublishMessages ==
    /\ job.at = "got"
    /\ PublishObs(job)
    /\ pass' = OtherPublished(pass)
    /\ job' \in {[job EXCEPT !.at = "call"], NoObs}
    /\ UNCHANGED <<thread, loop, facts, grouped, lock, cache, missed>>
\* The model's answer, a failure, or no budget.
Summarize ==
    /\ job.at = "call"
    /\ \/ job.rev # 0 /\ Put([of |-> job.of, summary |-> job.rev, tried |-> job.rev])
       \/ Put(Failure(job))
       \/ job.rev # 0 /\ job' = NoObs /\ UNCHANGED cache
    /\ UNCHANGED <<thread, loop, facts, grouped, lock, probe, pass, floor, missed>>

-----------------------------------------------------------------------------
\* A message comes, or the thread needs a summary no more, or leaves T3.
Change ==
    /\ \/ thread.rev < MaxRev /\ thread' = [rev |-> thread.rev + 1, is |-> "needs"]
       \/ thread.is = "needs" /\ thread' \in [rev : {thread.rev}, is : {"done", "gone"}]
    /\ UNCHANGED <<loop, facts, grouped, lock, probe, pass, job, cache, floor, missed>>

\* The process ends and starts anew with the cache.
Restart ==
    /\ NewDeck(loop', facts', grouped', lock', probe', pass', job', floor', missed')
    /\ UNCHANGED <<thread, cache>>

Next ==
    \/ ReadFacts \/ GroupFacts \/ PublishFacts \/ Prune \/ FailFacts \/ StartProbe
    \/ ReadRevision \/ PublishProbe \/ RegroupPass
    \/ StartJob \/ ReadMessages \/ PublishMessages \/ Summarize \/ RegroupJob \/ Change \/ Restart

Spec == Init /\ [][Next]_vars

-----------------------------------------------------------------------------
(* Properties *)

\* The type invariant.
TypeOK ==
    /\ facts \in [rev : Never .. MaxRev, is : {"needs", "done", "gone"}]
    /\ probe \in [of : Never .. MaxRev, rev : 0 .. MaxRev]
    /\ cache \in [of : Never .. MaxRev, summary : 0 .. MaxRev, tried : Never .. MaxRev]
    /\ lock \in {None, "loop", "pass", "job"}

\* A change is seen: no probe, and no entry that becomes one after a restart,
\* is of an updatedAt newer than its revision, so the thread is read again; and
\* what is known is never older than the thread was when any published
\* observation of it started (publishProbeLocked, recordFailure).
ChangesAreSeen ==
    /\ probe.of <= probe.rev /\ probe.rev >= floor
    /\ cache.tried > 0 => cache.of <= cache.tried

\* What is shown is of one piece and up to date: the published grouping was made
\* of the published facts, and of the last summary once no job is about to show
\* it, unless its regroup failed (refreshFacts, regroup).
ShownTogether ==
    /\ grouped.row = facts
    /\ (~ missed /\ job.at = None /\ facts.is = "needs") => grouped.summary = cache.summary
=============================================================================
