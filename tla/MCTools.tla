-------------------------------- MODULE MCTools --------------------------------
(***************************************************************************)
(* The instances of the tools' modules that TLC checks in one run, each in *)
(* behaviours of its own: which says whose, and the behaviour's variables  *)
(* are those of that module, in the order of its vars.                     *)
(***************************************************************************)
EXTENDS Integers, Sequences, FiniteSets, TLC

CONSTANTS a1, a2, a3, b1, b2 \* model values, which each module uses for its own sets

VARIABLES which,
          v1, v2, v3, v4, v5, v6, v7, v8, v9, v10, v11

vars == <<which, v1, v2, v3, v4, v5, v6, v7, v8, v9, v10, v11>>

A == INSTANCE ApprovalSpool WITH now <- v1, cmd <- v2, request <- v3, response <- v4,
        claim <- v5, rejected <- v6, window <- v7, latest <- v8, faults <- v9,
        Command <- {a1, a2}, Window <- {b1, b2}, Timeouts <- {2}, MaxTime <- 3, MaxFaults <- 1
ASSUME ApprovalParameters == A!Parameters
T == INSTANCE TokenCache WITH now <- v1, github <- v2, cache <- v3, lastTry <- v4, lock <- v5,
        proc <- v6, Invocation <- {a1, a2}, Life <- 4, MinRemaining <- 2, RelistInterval <- 2,
        MaxTime <- 6
ASSUME TokenParameters == T!Parameters
K == INSTANCE KeyProvisioning WITH file <- v1, reg <- v2, call <- v3, mutex <- v4, dk <- v5,
        key <- v6, Callback <- {"c1", "c2"}
ASSUME KeyParameters == K!Parameters
Q == INSTANCE SummaryQueue WITH needs <- v1, all <- v2, queue <- v3, manual <- v4, job <- v5,
        calls <- v6, owed <- v7, requests <- v8, Thread <- {a1, a2, a3}, Role <- {"x"},
        SummaryRole <- "s", Concurrency <- 2, CallsPerHour <- 1, MaxRequests <- 2
ASSUME QueueParameters == Q!Parameters
S == INSTANCE ThreadSummary WITH thread <- v1, loop <- v2, facts <- v3, grouped <- v4,
        lock <- v5, probe <- v6, pass <- v7, job <- v8, cache <- v9, floor <- v10,
        missed <- v11, MaxRev <- 2
ASSUME ThreadParameters == S!Parameters
V == INSTANCE VerdictQueue WITH issue <- v1, loop <- v2, refreshVerdicts <- v3, inv <- v4,
        queue <- v5, manual <- v6, judge <- v7, verdict <- v8, owed <- v9, wanted <- v10,
        requests <- v11, Issue <- {a1, a2}, Role <- {"x"}, VerdictRole <- "s", MaxBasis <- 2,
        MaxRequests <- 2
ASSUME VerdictParameters == V!Parameters
F == INSTANCE FindingsFiling WITH store <- v1, issues <- v2, cmd <- v3, faults <- v4,
        changes <- v5, Command <- {a1, a2}, Finding <- {b1, b2}, Title <- {"a", "b"},
        MaxIssues <- 3, MaxFaults <- 1, MaxChanges <- 2
ASSUME FilingParameters == F!Parameters
M == INSTANCE ForgeMirror WITH primary <- v1, github <- v2, forgejo <- v3, remotes <- v4,
        proc <- v5, acked <- v6, commits <- v7, faults <- v8, overwritten <- v9,
        Process <- {a1, a2}, MaxCommit <- 2, MaxFaults <- 1
ASSUME MirrorParameters == M!Parameters
D == INSTANCE Devlog WITH today <- v1, forgejo <- v2, github <- v3, entry <- v4, weekly <- v5,
        saved <- v6, git <- v7, proc <- v8, left <- v9, faults <- v10, Commit <- {"c1"},
        WeekLength <- 2, Lookback <- 1, MaxDay <- 2, MaxFaults <- 1
R == INSTANCE ReviewRun WITH matched <- v1, run <- v2, store <- v3, reported <- v4,
        Selection <- {<<1, 2>>}, Title <- {b1, b2}, KnownLimit <- 1, MaxRuns <- 2,
        MaxReported <- 2
O == INSTANCE OrphanCheck WITH task <- v1, scan <- v2, past <- v3, MaxTask <- 2, RepoCount <- 3,
        Configured <- 2, PageSize <- 1, MaxPagesPerRepo <- 2, MaxRequests <- 4
E == INSTANCE DeskSession WITH host <- v1, cmd <- v2, RouteCount <- 3, MaxCommands <- 3
W == INSTANCE Recording WITH audio <- v1, file <- v2, start <- v3, other <- v4, count <- v5,
        MaxCommands <- 4

Init ==
    \/ which = "approval" /\ A!Init /\ v10 = 0 /\ v11 = 0
    \/ which = "token" /\ T!Init /\ v7 = 0 /\ v8 = 0 /\ v9 = 0 /\ v10 = 0 /\ v11 = 0
    \/ which = "key" /\ K!Init /\ v7 = 0 /\ v8 = 0 /\ v9 = 0 /\ v10 = 0 /\ v11 = 0
    \/ which = "queue" /\ Q!Init /\ v9 = 0 /\ v10 = 0 /\ v11 = 0
    \/ which = "thread" /\ S!Init
    \/ which = "verdict" /\ V!Init
    \/ which = "filing" /\ F!Init /\ v6 = 0 /\ v7 = 0 /\ v8 = 0 /\ v9 = 0 /\ v10 = 0 /\ v11 = 0
    \/ which = "mirror" /\ M!Init /\ v10 = 0 /\ v11 = 0
    \/ which = "devlog" /\ D!Init /\ v11 = 0
    \/ which = "review" /\ R!Init /\ v5 = 0 /\ v6 = 0 /\ v7 = 0 /\ v8 = 0 /\ v9 = 0 /\ v10 = 0 /\ v11 = 0
    \/ which = "orphans" /\ O!Init /\ v4 = 0 /\ v5 = 0 /\ v6 = 0 /\ v7 = 0 /\ v8 = 0 /\ v9 = 0 /\ v10 = 0 /\ v11 = 0
    \/ which = "desk" /\ E!Init /\ v3 = 0 /\ v4 = 0 /\ v5 = 0 /\ v6 = 0 /\ v7 = 0 /\ v8 = 0 /\ v9 = 0 /\ v10 = 0 /\ v11 = 0
    \/ which = "recording" /\ W!Init /\ v6 = 0 /\ v7 = 0 /\ v8 = 0 /\ v9 = 0 /\ v10 = 0 /\ v11 = 0

Next ==
    \/ which = "approval" /\ A!Next /\ UNCHANGED <<which, v10, v11>>
    \/ which = "token" /\ T!Next /\ UNCHANGED <<which, v7, v8, v9, v10, v11>>
    \/ which = "key" /\ K!Next /\ UNCHANGED <<which, v7, v8, v9, v10, v11>>
    \/ which = "queue" /\ Q!Next /\ UNCHANGED <<which, v9, v10, v11>>
    \/ which = "thread" /\ S!Next /\ UNCHANGED <<which>>
    \/ which = "verdict" /\ V!Next /\ UNCHANGED <<which>>
    \/ which = "filing" /\ F!Next /\ UNCHANGED <<which, v6, v7, v8, v9, v10, v11>>
    \/ which = "mirror" /\ M!Next /\ UNCHANGED <<which, v10, v11>>
    \/ which = "devlog" /\ D!Next /\ UNCHANGED <<which, v11>>
    \/ which = "review" /\ R!Next /\ UNCHANGED <<which, v5, v6, v7, v8, v9, v10, v11>>
    \/ which = "orphans" /\ O!Next /\ UNCHANGED <<which, v4, v5, v6, v7, v8, v9, v10, v11>>
    \/ which = "desk" /\ E!Next /\ UNCHANGED <<which, v3, v4, v5, v6, v7, v8, v9, v10, v11>>
    \/ which = "recording" /\ W!Next /\ UNCHANGED <<which, v6, v7, v8, v9, v10, v11>>

Spec == Init /\ [][Next]_vars

\* What may be exchanged for one another in every module; no property of the
\* run is a liveness property.
Symmetry == Permutations({a1, a2}) \cup Permutations({b1, b2})

\* ForgeMirror: two processes at work at once while no fault happened and one
\* commit was made.
OneMirrorAfterFault == LET faults == v8 commits == v7 IN
    Cardinality({p \in {a1, a2} : v5[p].at # "idle"}) <= IF faults = 0 /\ commits <= 1 THEN 2 ELSE 1

\* Devlog: on the last day a fault and an edit of the person's exclude each other.
EditOrFault == LET faults == v10 IN v1 < 2 \/ faults = 0 \/ ~ v7.edited

\* ReviewRun: the second run is not interrupted; another commit's review comes
\* where no run was interrupted; and where the second run resumes nothing,
\* neither is there.
OneDisturbance ==
    LET run == v2 store == v3
        elsewhere == \E i \in DOMAIN store : \E v \in store[i].reviews : v % 2 = 1
    IN  /\ ~ run[2].interrupted /\ ~ (run[1].interrupted /\ elsewhere)
        /\ run[2].at # "none" /\ run[2].previous = 0 => ~ run[1].interrupted /\ ~ elsewhere

\* ThreadSummary: a thread that left T3 meets a probe pass or a job, not both.
OneObserverOfGone == LET thread == v1 pass == v7 job == v8 IN
    thread.is # "gone" \/ pass.at = "none" \/ job.at = "none"

Bounded == /\ which = "mirror" => OneMirrorAfterFault
           /\ which = "devlog" => EditOrFault
           /\ which = "review" => OneDisturbance
           /\ which = "thread" => OneObserverOfGone

\* The type invariants of the modules.
TypeOK ==
    /\ which = "approval" => A!TypeOK
    /\ which = "token" => T!TypeOK
    /\ which = "key" => K!TypeOK
    /\ which = "queue" => Q!TypeOK
    /\ which = "thread" => S!TypeOK
    /\ which = "verdict" => V!TypeOK
    /\ which = "filing" => F!TypeOK
    /\ which = "mirror" => M!TypeOK
    /\ which = "devlog" => D!TypeOK
    /\ which = "review" => R!TypeOK
    /\ which = "orphans" => O!TypeOK
    /\ which = "desk" => E!TypeOK
    /\ which = "recording" => W!TypeOK

\* The latest good answer a person gave is acted on, or the person is told.
NoAnswerLost == which = "approval" => A!NoAnswerLost

\* What `register' and `provision' say of the key is true, what the orphan check
\* says of the containers, and what desk leaves of the displays.
TellsTheTruth ==
    /\ which = "key" => K!TellsTheTruth
    /\ which = "orphans" => O!ScanIsRight
    /\ which = "desk" => E!DisplaysAreTold

\* What a person asked deck for, a summary or a verdict, is served.
RequestsAreKept ==
    /\ which = "queue" => Q!RequestsAreKept
    /\ which = "verdict" => V!RequestsAreKept

\* deck sees a thread's changes, and shows facts and summary of one piece.
SummariesAreSound ==
    /\ which = "thread" => S!ChangesAreSeen
    /\ which = "thread" => S!ShownTogether

\* Reviews store each problem once, as verified, and it is filed as one issue.
FiledOnce ==
    /\ which = "filing" => F!FiledOnce
    /\ which = "review" => R!ReviewsAreSound

\* forge-mirror loses no address, and no commit but through the push mirror of a
\* pull mirror; devlog nothing of the journal; and wcap nothing it started.
NothingIsLost ==
    /\ which = "mirror" => M!NothingIsLost
    /\ which = "devlog" => D!JournalIsSound
    /\ which = "recording" => W!NothingLeftBehind

\* gh-app's cache keeps a token that has its minimum life left, and never goes
\* back to an older list of an installation.
CacheMovesForward == [][which = "token" => T!ForwardStep]_vars
================================================================================
